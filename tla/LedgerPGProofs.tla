--------------------------- MODULE LedgerPGProofs ---------------------------
(***************************************************************************)
(* Theorems about the transactions of LedgerPG, whatever requests overlap:  *)
(* types, the advisory lock as mutual exclusion, the only way for them to   *)
(* wait in a circle, and the bound on what overlapping registrations can do *)
(* to balances.  Until a registration is committed over a row that it had   *)
(* not seen, the interleaved transactions implement the atomic ledger: a    *)
(* commit is one of the actions of module Ledger, every other statement is  *)
(* a stuttering step.                                                       *)
(***************************************************************************)
EXTENDS LedgerPG, TotalsTheorems, SequenceTheorems

-----------------------------------------------------------------------------
(* The inductive invariant.                                                 *)

UpsertStmt == [op : {"upsert"}, id : Ids, key : Keys \cup {NoKey}, nonce : Nat, balance : Nat]
RekeyStmt  == [op : {"rekey"}, old : Keys, key : Keys]
AttachStmt == [op : {"attach"}, id : Ids, key : Keys]
Stmt == UpsertStmt \cup RekeyStmt \cup AttachStmt

\* What a transaction may have read: nothing, the next leaf and perhaps the
\* signer's account, or the signer's row as well.
Reading == {None} \cup [leaf : Nat, id : Ids \cup {None}]
                  \cup [leaf : Nat, id : Ids, key : Keys, balance : Nat]

Registers(p) == req[p] # None /\ req[p].type = "register"

Reads == {"lock", "last", "signer", "other", "registrant"}
Writes == {"write", "insert", "check", "commit"}

\* The variables of the transactions are functions of their types.
Types ==
    /\ TypeOK
    /\ req \in [Procs -> Request \cup {None}]
    /\ read \in [Procs -> Reading]
    /\ todo \in [Procs -> Seq(Stmt)]
    /\ held \in [Procs -> SUBSET Ids]
    /\ pending = [p \in Procs |-> pending[p]]
    /\ \A p \in Procs : pending[p] \in [DOMAIN pending[p] -> Row]
    /\ overtaken \in BOOLEAN

\* The advisory lock is held from LockLedger to the end of the transaction.
HoldsLock(p) == pc[p] \in {"last", "signer", "other"} \cup Writes /\ ~ Registers(p)

LockHeld == \A p \in Procs : lock = p <=> HoldsLock(p)

\* Two open transactions never have locked the same row.
RowsApart == \A p, q \in Procs : p # q => held[p] \cap held[q] = {}

\* Statements are sent in state "write" and nowhere else; nothing is locked or
\* written before all that decides about it is read.
Buffers(p) ==
    /\ pc[p] = "write" <=> todo[p] # <<>>
    /\ pc[p] \notin Writes => pending[p] = <<>> /\ held[p] = {}

\* The statement that is next belongs to the kind of request.
Kinds(p) ==
    /\ pc[p] \in {"lock", "last", "signer", "other", "insert", "check"} => ~ Registers(p)
    /\ pc[p] = "registrant" => Registers(p)
    /\ pc[p] = "other" => req[p].type \in {"transfer", "reclaim_invalid"}

\* A registration writes one row with one statement: the row that it has read gets
\* the key, or one that it has not found is made.
Attaches(p) == read[p] = [leaf |-> 0, id |-> req[p].id]
Creates(p) == read[p] = [leaf |-> 0, id |-> None]

OneWrite(p) ==
    Registers(p) =>
        /\ held[p] \subseteq {req[p].id}
        /\ pc[p] = "write" =>
              /\ Len(todo[p]) = 1 /\ todo[p][1] \in UpsertStmt \cup AttachStmt
              /\ todo[p][1].id = req[p].id /\ todo[p][1].key = req[p].key
              /\ todo[p][1] \in AttachStmt => Attaches(p) /\ req[p].id \in rows
              /\ todo[p][1] \in UpsertStmt =>
                    Creates(p) /\ todo[p][1].nonce = 0 /\ todo[p][1].balance = 0
              /\ pending[p] = <<>>
        /\ pc[p] = "commit" => DOMAIN pending[p] = {req[p].id}

\* What the holder of the lock has read of the log is still so, and what it has
\* decided from its payload was decided in its favour.
Decided(p) ==
    /\ HoldsLock(p) /\ pc[p] # "last" =>
          Len(log) < MaxLog /\ (log = <<>> <=> req[p].type = "genesis")
    /\ pc[p] = "signer" => read[p] = [leaf |-> Len(log) + 1, id |-> None]
    /\ pc[p] = "other" =>
          /\ read[p] \in [leaf : {Len(log) + 1}, id : Ids, key : Keys, balance : Nat]
          /\ req[p].type = "transfer" => /\ read[p].balance >= req[p].amount
                                         /\ read[p].id # req[p].to
          /\ req[p].type = "reclaim_invalid" => read[p].id = L!TreasuryDscID
          /\ WellFormed(req[p])
    /\ HoldsLock(p) /\ pc[p] \in Writes =>
          read[p].leaf = Len(log) + 1 /\ read[p].id \in Ids /\ WellFormed(req[p])

\* A rekey follows the upsert that has written the row with the old key, and only
\* a registration attaches.
Rekeys(p) ==
    \A n \in DOMAIN todo[p] :
        LET s == todo[p][n] IN
        /\ s.op = "attach" => Registers(p)
        /\ s.op = "rekey" =>
              /\ req[p].type = "rotate_key"
              /\ \/ n = 1 /\ \E i \in DOMAIN pending[p] : pending[p][i].pubkey = s.old
                 \/ n = 2 /\ todo[p][1].op = "upsert" /\ todo[p][1].key = s.old

\* The leaf that the commit of p appends.
Leaf(p) == [tx |-> req[p], by |-> read[p].id]

Local(p) == Buffers(p) /\ Kinds(p) /\ OneWrite(p) /\ Decided(p) /\ Rekeys(p)

Inv == Types /\ LockHeld /\ RowsApart /\ \A p \in Procs : Local(p)

-----------------------------------------------------------------------------
(* Facts about requests, statements and rows.                               *)

\* The type of a request tells its fields.
LEMMA RequestKinds ==
    ASSUME NEW r \in Request
    PROVE  /\ r.type = "genesis" => r \in L!GenesisTx
           /\ r.type = "transfer" => r \in L!TransferTx
           /\ r.type = "rotate_key" => r \in L!RotateTx
           /\ r.type = "reclaim_invalid" => r \in L!ReclaimTx
           /\ r.type = "register" => r \in Registration
           /\ r.type # "register" => r \in L!Tx
           /\ r.type \in {"genesis", "transfer", "rotate_key", "reclaim_invalid", "register"}
BY DEF Request, Registration, L!Tx, L!GenesisTx, L!TransferTx, L!RotateTx, L!ReclaimTx

\* The fields that statements are made of have their types.
LEMMA RequestFields ==
    ASSUME NEW r \in Request
    PROVE  /\ r.type \in {"transfer", "rotate_key", "reclaim_invalid"} =>
                 r.nonce \in Nat /\ r.signer \in Keys
           /\ r.type \in {"transfer", "reclaim_invalid"} => r.amount \in Int
           /\ r.type = "transfer" => r.to \in Ids
           /\ r.type = "reclaim_invalid" => r.from \in Ids
           /\ r.type = "rotate_key" => r.oldKey \in Keys /\ r.newKey \in Keys
           /\ r.type = "genesis" => r.to \in Keys
           /\ r.type = "register" => r.id \in Ids /\ r.id > L!TreasuryDscID /\ r.key \in Keys
<1>1. \A n \in L!Nonces : n \in Nat
  BY LedgerAssumption DEF L!Nonces
<1>2. \A a \in Amounts : a \in Int
  BY LedgerAssumption
<1>3. QED
  BY <1>1, <1>2, RequestKinds DEF L!GenesisTx, L!TransferTx, L!RotateTx, L!ReclaimTx,
     Registration, L!UserId

\* The first statement of a transaction, and those that are left after it.
LEMMA FirstStatement ==
    ASSUME NEW s \in Seq(Stmt), s # <<>>
    PROVE  /\ Len(s) \in Nat /\ Len(s) > 0 /\ DOMAIN s = 1 .. Len(s)
           /\ Head(s) = s[1] /\ s[1] \in Stmt
           /\ Tail(s) \in Seq(Stmt) /\ DOMAIN Tail(s) = 1 .. Len(s) - 1
           /\ \A n \in DOMAIN Tail(s) : n + 1 \in DOMAIN s /\ Tail(s)[n] = s[n + 1]
           /\ Tail(s) = <<>> <=> Len(s) = 1
<1>1. Len(s) \in Nat /\ Len(s) > 0 /\ DOMAIN s = 1 .. Len(s)
  BY EmptySeq, LenProperties
<1>2. /\ Head(s) = s[1] /\ s[1] \in Stmt /\ Tail(s) \in Seq(Stmt)
      /\ Len(Tail(s)) = Len(s) - 1
      /\ \A n \in 1 .. Len(Tail(s)) : Tail(s)[n] = s[n + 1]
  BY <1>1, HeadTailProperties
<1>3. DOMAIN Tail(s) = 1 .. Len(s) - 1
  BY <1>2, LenProperties
<1>4. Tail(s) = <<>> <=> Len(Tail(s)) = 0
  BY <1>2, EmptySeq
<1>5. QED
  BY <1>1, <1>2, <1>3, <1>4

\* A row as a transaction sees it has the type of a row, or is absent.
LEMMA RowSeen ==
    ASSUME Types, NEW p \in Procs, NEW i \in Ids
    PROVE  /\ i \in DOMAIN pending[p] => RowOf(p, i) = pending[p][i]
           /\ i \notin DOMAIN pending[p] /\ i \in rows =>
                 RowOf(p, i) = [pubkey |-> pubkey[i], nonce |-> nonce[i], balance |-> balance[i]]
           /\ i \notin DOMAIN pending[p] /\ i \notin rows => RowOf(p, i) = None
           /\ i \in DOMAIN pending[p] \cup rows => RowOf(p, i) \in Row /\ RowOf(p, i) # None
           /\ KeyOf(p, i) \in Keys \cup {NoKey}
<1>1. /\ pending[p] \in [DOMAIN pending[p] -> Row]
      /\ pubkey[i] \in Keys \cup {NoKey} /\ nonce[i] \in Nat /\ balance[i] \in Nat
  BY DEF Types, TypeOK, L!TypeOK
<1>2. [pubkey |-> pubkey[i], nonce |-> nonce[i], balance |-> balance[i]] \in Row
  BY <1>1 DEF Row
<1>3. None \notin Row
  BY NoneAssumption
<1>4. i \in DOMAIN pending[p] => RowOf(p, i) = pending[p][i] /\ pending[p][i] \in Row
  BY <1>1 DEF RowOf
<1>5. i \notin DOMAIN pending[p] /\ i \in rows =>
          RowOf(p, i) = [pubkey |-> pubkey[i], nonce |-> nonce[i], balance |-> balance[i]]
  BY DEF RowOf
<1>6. i \notin DOMAIN pending[p] /\ i \notin rows => RowOf(p, i) = None
  BY DEF RowOf
<1>7. i \in DOMAIN pending[p] \cup rows => RowOf(p, i) \in Row /\ RowOf(p, i) # None
  BY <1>2, <1>3, <1>4, <1>5
<1>8. KeyOf(p, i) \in Keys \cup {NoKey}
  BY <1>6, <1>7 DEF KeyOf, Row
<1>9. QED
  BY <1>4, <1>5, <1>6, <1>7, <1>8

\* The next statement writes one row, of its type: an attach finds its row, and a
\* rekey the row that holds the old key.
LEMMA RowWritten ==
    ASSUME Inv, NEW p \in Procs, pc[p] = "write"
    PROVE  /\ todo[p] \in Seq(Stmt) /\ todo[p] # <<>> /\ Head(todo[p]) \in Stmt
           /\ Target(p, Head(todo[p])) \in Ids
           /\ NewRow(p, Head(todo[p])) \in Row
<1> DEFINE s == Head(todo[p])
           i == Target(p, s)
<1>1. todo[p] \in Seq(Stmt) /\ todo[p] # <<>>
  BY DEF Inv, Types, Local, Buffers
<1>2. s = todo[p][1] /\ 1 \in DOMAIN todo[p] /\ s \in Stmt /\ Len(todo[p]) \in Nat
  BY <1>1, FirstStatement
<1>3. CASE s.op = "upsert"
  <2>1. s \in UpsertStmt
    BY <1>2, <1>3 DEF Stmt, UpsertStmt, RekeyStmt, AttachStmt
  <2>2. i = s.id /\ i \in Ids
    BY <1>3, <2>1 DEF Target, UpsertStmt
  <2>3. KeyOf(p, i) \in Keys \cup {NoKey}
    BY <2>2, RowSeen DEF Inv
  <2>4. NewRow(p, s) = [pubkey |-> Coalesce(s.key, KeyOf(p, i)), nonce |-> s.nonce,
                        balance |-> s.balance]
    BY <1>3 DEF NewRow
  <2>5. Coalesce(s.key, KeyOf(p, i)) \in Keys \cup {NoKey}
    BY <2>1, <2>3 DEF Coalesce, UpsertStmt
  <2>6. s.nonce \in Nat /\ s.balance \in Nat
    BY <2>1 DEF UpsertStmt
  <2>7. QED
    BY <1>1, <1>2, <2>2, <2>4, <2>5, <2>6 DEF Row
<1>4. CASE s.op # "upsert"
  <2>1. i \in Ids /\ i \in DOMAIN pending[p] \cup rows /\ s.key \in Keys
    <3>1. CASE s.op = "rekey"
      <4>1. PICK j \in DOMAIN pending[p] : pending[p][j].pubkey = s.old
        BY <1>2, <3>1 DEF Inv, Local, Rekeys
      <4>2. s \in RekeyStmt /\ s.old \in Keys /\ s.key \in Keys
        BY <1>2, <3>1 DEF Stmt, UpsertStmt, RekeyStmt, AttachStmt
      <4>3. j \in Ids
        BY DEF Inv, Types, TypeOK
      <4>4. RowOf(p, j) = pending[p][j] /\ RowOf(p, j) # None
        BY <4>3, RowSeen DEF Inv
      <4>5. KeyOf(p, j) = s.old
        BY <4>1, <4>4 DEF KeyOf
      <4>6. i \in Ids /\ KeyOf(p, i) = s.old
        BY <3>1, <4>3, <4>5 DEF Target
      <4>7. i \in DOMAIN pending[p] \cup rows
        <5>1. s.old # NoKey
          BY <4>2, LedgerAssumption
        <5>2. RowOf(p, i) # None
          BY <4>6, <5>1 DEF KeyOf
        <5>3. QED
          BY <4>6, <5>2, RowSeen DEF Inv
      <4>8. QED
        BY <4>2, <4>6, <4>7
    <3>2. CASE s.op = "attach"
      <4>1. s \in AttachStmt /\ s.key \in Keys /\ s.id \in Ids
        BY <1>2, <3>2 DEF Stmt, UpsertStmt, RekeyStmt, AttachStmt
      <4>2. Registers(p)
        BY <1>2, <3>2 DEF Inv, Local, Rekeys
      <4>3. s.id = req[p].id /\ req[p].id \in rows
        BY <1>2, <4>1, <4>2 DEF Inv, Local, OneWrite
      <4>4. QED
        BY <3>2, <4>1, <4>3 DEF Target
    <3>3. QED
      BY <1>2, <1>4, <3>1, <3>2 DEF Stmt, UpsertStmt, RekeyStmt, AttachStmt
  <2>2. RowOf(p, i) \in Row
    BY <2>1, RowSeen DEF Inv
  <2>3. NewRow(p, s) = [RowOf(p, i) EXCEPT !.pubkey = s.key]
    BY <1>2, <1>4 DEF NewRow, Stmt, UpsertStmt, RekeyStmt, AttachStmt
  <2>4. QED
    BY <1>1, <1>2, <2>1, <2>2, <2>3 DEF Row
<1>5. QED
  BY <1>3, <1>4

-----------------------------------------------------------------------------
(* What a step of a transaction changes.                                    *)

StepOf(p) ==
    \/ Begin(p) \/ LockLedger(p) \/ TakeRow(p) \/ Write(p) \/ Step(p)
    \/ Abort(p) \/ Victim(p)

\* The end of a transaction, by itself or by a commit, leaves nothing behind.
LEMMA Closing ==
    ASSUME Types, NEW p \in Procs, Close(p)
    PROVE  /\ pc'[p] = "idle" /\ req'[p] = None /\ read'[p] = None
           /\ todo'[p] = <<>> /\ held'[p] = {} /\ pending'[p] = <<>>
           /\ lock' = IF lock = p THEN None ELSE lock
BY DEF Close, ReleaseLock, Types, TypeOK

\* A step of p changes the state of no other transaction.
LEMMA Separate ==
    ASSUME Types, NEW p \in Procs, StepOf(p)
    PROVE  /\ pc' = [pc EXCEPT ![p] = pc'[p]]
           /\ req' = [req EXCEPT ![p] = req'[p]]
           /\ read' = [read EXCEPT ![p] = read'[p]]
           /\ todo' = [todo EXCEPT ![p] = todo'[p]]
           /\ held' = [held EXCEPT ![p] = held'[p]]
           /\ pending' = [pending EXCEPT ![p] = pending'[p]]
<1> DEFINE Goal == /\ pc' = [pc EXCEPT ![p] = pc'[p]]
                   /\ req' = [req EXCEPT ![p] = req'[p]]
                   /\ read' = [read EXCEPT ![p] = read'[p]]
                   /\ todo' = [todo EXCEPT ![p] = todo'[p]]
                   /\ held' = [held EXCEPT ![p] = held'[p]]
                   /\ pending' = [pending EXCEPT ![p] = pending'[p]]
<1>1. /\ DOMAIN pc = Procs /\ pc = [q \in Procs |-> pc[q]]
      /\ DOMAIN req = Procs /\ req = [q \in Procs |-> req[q]]
      /\ DOMAIN read = Procs /\ read = [q \in Procs |-> read[q]]
      /\ DOMAIN todo = Procs /\ todo = [q \in Procs |-> todo[q]]
      /\ DOMAIN held = Procs /\ held = [q \in Procs |-> held[q]]
      /\ DOMAIN pending = Procs /\ pending = [q \in Procs |-> pending[q]]
  BY DEF Types, TypeOK
<1>2. ASSUME Close(p)
      PROVE  Goal
  BY <1>1, <1>2 DEF Close
<1>3. ASSUME Rollback(p)
      PROVE  Goal
  BY <1>2, <1>3 DEF Rollback
<1>4. CASE Begin(p)
  BY <1>1, <1>4 DEF Begin, Goto
<1>5. CASE LockLedger(p)
  BY <1>1, <1>5 DEF LockLedger, Goto
<1>6. CASE LastTx(p)
  BY <1>1, <1>3, <1>6 DEF LastTx, Goto
<1>7. CASE ReadSigner(p)
  BY <1>1, <1>3, <1>7 DEF ReadSigner, Goto
<1>8. CASE ReadOther(p)
  BY <1>1, <1>3, <1>8 DEF ReadOther, Goto
<1>9. CASE ReadRegistrant(p)
  BY <1>1, <1>3, <1>9 DEF ReadRegistrant, Goto
<1>10. CASE Write(p)
  BY <1>1, <1>3, <1>10 DEF Write, Goto
<1>11. CASE InsertTx(p)
  BY <1>1, <1>3, <1>11 DEF InsertTx, Goto
<1>12. CASE CheckSupply(p)
  BY <1>1, <1>3, <1>12 DEF CheckSupply, Goto
<1>13. CASE Commit(p)
  BY <1>2, <1>13 DEF Commit
<1>14. CASE Abort(p) \/ Victim(p)
  BY <1>3, <1>14 DEF Abort, Victim
<1>15. CASE TakeRow(p)
  BY <1>1, <1>15 DEF TakeRow
<1>16. QED
  BY <1>4, <1>5, <1>6, <1>7, <1>8, <1>9, <1>10, <1>11, <1>12, <1>13, <1>14, <1>15
     DEF StepOf, Step

\* For the other transactions this means that all they have is as before.
LEMMA OthersUntouched ==
    ASSUME Types, NEW p \in Procs, StepOf(p), NEW q \in Procs, q # p
    PROVE  /\ pc'[q] = pc[q] /\ req'[q] = req[q] /\ read'[q] = read[q]
           /\ todo'[q] = todo[q] /\ held'[q] = held[q] /\ pending'[q] = pending[q]
BY Separate DEF Types, TypeOK

\* The committed tables change by a commit only.
LEMMA OnlyCommitsWrite ==
    ASSUME NEW p \in Procs, StepOf(p), ~ Commit(p)
    PROVE  UNCHANGED committed
<1>1. Rollback(p) => UNCHANGED committed
  BY DEF Rollback
<1>2. QED
  BY <1>1, Zenon DEF StepOf, Step, Begin, LockLedger, LastTx, ReadSigner, ReadOther,
     ReadRegistrant, TakeRow, Write, InsertTx, CheckSupply, Abort, Victim

-----------------------------------------------------------------------------
(* The transaction that takes a step keeps its part of the invariant.       *)

\* The types of what belongs to one transaction.
LocalTypes(p) ==
    /\ pc[p] \in {"idle"} \cup Reads \cup Writes
    /\ req[p] \in Work[p] \cup {None} /\ (req[p] = None <=> ~ Active(p))
    /\ read[p] \in Reading
    /\ todo[p] \in Seq(Stmt)
    /\ held[p] \subseteq Ids
    /\ DOMAIN pending[p] \subseteq held[p] /\ pending[p] \in [DOMAIN pending[p] -> Row]

\* An open transaction serves one of its requests.
LEMMA Serving ==
    ASSUME Types, NEW p \in Procs, Active(p)
    PROVE  /\ req[p] # None /\ req[p] \in Work[p] /\ req[p] \in Request
           /\ LocalTypes(p)
<1>1. req[p] # None /\ req[p] \in Work[p]
  BY DEF Types, TypeOK
<1>2. req[p] \in Request
  BY <1>1, WorkAssumption
<1>3. LocalTypes(p)
  BY DEF Types, TypeOK, LocalTypes, Reads, Writes
<1>4. QED
  BY <1>1, <1>2, <1>3

\* No statement and no row is left of a transaction that is closed.
LEMMA ClosedIsClean ==
    ASSUME Types, NEW p \in Procs, Close(p)
    PROVE  LocalTypes(p)' /\ Local(p)'
<1>1. /\ pc'[p] = "idle" /\ req'[p] = None /\ read'[p] = None
      /\ todo'[p] = <<>> /\ held'[p] = {} /\ pending'[p] = <<>>
  BY Closing
<1>2. <<>> \in Seq(Stmt) /\ <<>> \in [DOMAIN <<>> -> Row] /\ DOMAIN <<>> = {}
  OBVIOUS
<1>3. LocalTypes(p)'
  BY <1>1, <1>2 DEF LocalTypes, Active, Reading
<1>4. Buffers(p)' /\ Kinds(p)' /\ OneWrite(p)'
  BY <1>1 DEF Buffers, Kinds, OneWrite, Writes, Registers
<1>5. Decided(p)' /\ Rekeys(p)'
  BY <1>1, <1>2 DEF Decided, Rekeys, HoldsLock, Writes
<1>6. QED
  BY <1>3, <1>4, <1>5 DEF Local

\* A transaction that rolls back.
LEMMA RollbackLocal ==
    ASSUME Types, NEW p \in Procs, Rollback(p)
    PROVE  LocalTypes(p)' /\ Local(p)'
BY ClosedIsClean DEF Rollback

\* A request arrives.
LEMMA BeginLocal ==
    ASSUME Inv, NEW p \in Procs, Begin(p)
    PROVE  LocalTypes(p)' /\ Local(p)'
<1>1. PICK r \in Work[p] :
          /\ req' = [req EXCEPT ![p] = r]
          /\ pc' = [pc EXCEPT ![p] = IF r.type = "register" THEN "registrant" ELSE "lock"]
  BY DEF Begin, Goto
<1>2. r \in Request /\ r # None
  BY WorkAssumption, NoneAssumption
<1>3. /\ req'[p] = r /\ pc'[p] = IF r.type = "register" THEN "registrant" ELSE "lock"
      /\ read'[p] = read[p] /\ todo'[p] = todo[p] /\ pending'[p] = pending[p]
      /\ held'[p] = held[p]
  BY <1>1 DEF Inv, Types, TypeOK, Begin
<1>4. pc[p] = "idle" /\ todo[p] = <<>> /\ pending[p] = <<>> /\ held[p] = {}
  BY DEF Inv, Local, Buffers, Begin, Writes
<1>5. <<>> \in Seq(Stmt) /\ <<>> \in [DOMAIN <<>> -> Row] /\ DOMAIN <<>> = {}
  OBVIOUS
<1>6. LocalTypes(p)'
  BY <1>2, <1>3, <1>4, <1>5 DEF LocalTypes, Active, Reads, Inv, Types
<1>7. Buffers(p)' /\ Kinds(p)' /\ OneWrite(p)'
  BY <1>2, <1>3, <1>4 DEF Buffers, Kinds, OneWrite, Writes, Registers
<1>8. Decided(p)' /\ Rekeys(p)'
  BY <1>3, <1>4, <1>5 DEF Decided, Rekeys, HoldsLock, Writes
<1>9. QED
  BY <1>6, <1>7, <1>8 DEF Local

\* The advisory lock is granted.
LEMMA LockLedgerLocal ==
    ASSUME Inv, NEW p \in Procs, LockLedger(p)
    PROVE  LocalTypes(p)' /\ Local(p)'
<1>1. /\ pc'[p] = "last" /\ req'[p] = req[p]
      /\ read'[p] = read[p] /\ todo'[p] = todo[p] /\ pending'[p] = pending[p]
      /\ held'[p] = held[p]
  BY DEF LockLedger, Goto, Inv, Types, TypeOK
<1>2. pc[p] = "lock" /\ Active(p)
  BY DEF LockLedger, Active
<1>3. LocalTypes(p)'
  BY <1>1, <1>2, Serving DEF LocalTypes, Active, Inv, Reads
<1>4. Buffers(p) /\ Kinds(p)
  BY DEF Inv, Local
<1>5. todo[p] = <<>> /\ pending[p] = <<>> /\ held[p] = {} /\ ~ Registers(p)
  BY <1>2, <1>4 DEF Buffers, Kinds, Writes
<1>6. Buffers(p)' /\ Kinds(p)' /\ OneWrite(p)'
  BY <1>1, <1>5 DEF Buffers, Kinds, OneWrite, Writes, Registers
<1>7. DOMAIN <<>> = {}
  OBVIOUS
<1>8. Decided(p)' /\ Rekeys(p)'
  BY <1>1, <1>5, <1>7 DEF Decided, Rekeys, HoldsLock, Writes
<1>9. QED
  BY <1>3, <1>6, <1>8 DEF Local

\* The leaf index is read, or the request is refused.
LEMMA LastTxLocal ==
    ASSUME Inv, NEW p \in Procs, LastTx(p)
    PROVE  LocalTypes(p)' /\ Local(p)'
<1>1. CASE Rollback(p)
  BY <1>1, RollbackLocal DEF Inv
<1>2. CASE ~ Rollback(p)
  <2>1. /\ pc[p] = "last" /\ Active(p)
        /\ Len(log) < MaxLog /\ (log = <<>> <=> req[p].type = "genesis")
        /\ log' = log
    BY <1>2 DEF LastTx, Active, committed
  <2>2. /\ pc'[p] = "signer" /\ req'[p] = req[p]
        /\ read'[p] = [leaf |-> Len(log) + 1, id |-> None]
        /\ todo'[p] = todo[p] /\ pending'[p] = pending[p] /\ held'[p] = held[p]
    BY <1>2 DEF LastTx, Goto, Inv, Types, TypeOK
  <2>3. Len(log) \in Nat
    BY LenProperties DEF Inv, Types, TypeOK, L!TypeOK
  <2>4. read'[p] \in Reading
    BY <2>2, <2>3 DEF Reading
  <2>5. LocalTypes(p)'
    BY <2>1, <2>2, <2>4, Serving DEF LocalTypes, Active, Inv, Reads
  <2>6. Buffers(p) /\ Kinds(p)
    BY DEF Inv, Local
  <2>7. todo[p] = <<>> /\ pending[p] = <<>> /\ held[p] = {} /\ ~ Registers(p)
    BY <2>1, <2>6 DEF Buffers, Kinds, Writes
  <2>8. Buffers(p)' /\ Kinds(p)' /\ OneWrite(p)'
    BY <2>2, <2>7 DEF Buffers, Kinds, OneWrite, Writes, Registers
  <2>9. DOMAIN <<>> = {}
    OBVIOUS
  <2>10. Decided(p)' /\ Rekeys(p)'
    BY <2>1, <2>2, <2>7, <2>9 DEF Decided, Rekeys, HoldsLock, Writes
  <2>11. QED
    BY <2>5, <2>8, <2>10 DEF Local
<1>3. QED
  BY <1>1, <1>2

\* Sequences of one and of two statements.
LEMMA ShortLists ==
    ASSUME NEW s \in Stmt, NEW t \in Stmt
    PROVE  /\ <<s>> \in Seq(Stmt) /\ <<s>> # <<>> /\ Len(<<s>>) = 1
           /\ DOMAIN <<s>> = {1} /\ <<s>>[1] = s
           /\ <<s, t>> \in Seq(Stmt) /\ <<s, t>> # <<>> /\ Len(<<s, t>>) = 2
           /\ DOMAIN <<s, t>> = {1, 2} /\ <<s, t>>[1] = s /\ <<s, t>>[2] = t
OBVIOUS

\* The holder of the lock goes from a read to its writes.
LEMMA StartsWriting ==
    ASSUME Inv, NEW p \in Procs, HoldsLock(p), pc[p] \in {"signer", "other"},
           pc'[p] = "write", req'[p] = req[p], held'[p] = held[p],
           pending'[p] = pending[p], log' = log,
           WellFormed(req[p]),
           read'[p] \in Reading, read'[p].leaf = Len(log) + 1, read'[p].id \in Ids,
           todo'[p] \in Seq(Stmt), todo'[p] # <<>>, Rekeys(p)'
    PROVE  LocalTypes(p)' /\ Local(p)'
<1>1. Active(p) /\ req[p] # None /\ ~ Registers(p)
  BY Serving DEF Active, HoldsLock, Inv
<1>2. LocalTypes(p)'
  BY <1>1, Serving DEF LocalTypes, Active, Inv, Writes
<1>3. pending[p] = <<>>
  BY DEF Inv, Local, Buffers, Writes
<1>4. Buffers(p)' /\ Kinds(p)' /\ OneWrite(p)'
  BY <1>1, <1>3 DEF Buffers, Kinds, OneWrite, Writes, Registers
<1>5. Len(log) < MaxLog /\ (log = <<>> <=> req[p].type = "genesis")
  BY DEF Inv, Local, Decided
<1>6. WellFormed(req[p])'
  BY DEF WellFormed, L!PositiveAmount, L!UserId, L!TreasuryDscID
<1>7. Decided(p)'
  BY <1>1, <1>5, <1>6 DEF Decided, HoldsLock, Registers
<1>8. QED
  BY <1>2, <1>4, <1>7 DEF Local

\* The signer's row is read: the statements follow, or the read of the other row.
LEMMA ReadSignerLocal ==
    ASSUME Inv, NEW p \in Procs, ReadSigner(p)
    PROVE  LocalTypes(p)' /\ Local(p)'
<1> DEFINE tx == req[p]
<1>1. pc[p] = "signer" /\ Active(p) /\ Kinds(p) /\ Decided(p) /\ Buffers(p)
  BY DEF ReadSigner, Active, Inv, Local
<1>2. /\ tx \in Request /\ tx # None /\ LocalTypes(p)
  BY <1>1, Serving DEF Inv
<1>3. HoldsLock(p) /\ ~ Registers(p) /\ tx.type # "register"
  BY <1>1, <1>2 DEF Kinds, HoldsLock, Registers
<1>4. read[p] = [leaf |-> Len(log) + 1, id |-> None] /\ Len(log) \in Nat
  BY <1>1, LenProperties DEF Decided, Inv, Types, TypeOK, L!TypeOK
<1>5. DOMAIN read = Procs /\ DOMAIN todo = Procs /\ DOMAIN pc = Procs
  BY DEF Inv, Types, TypeOK
<1>6. CASE /\ WellFormed(tx) /\ tx.type = "genesis"
           /\ read' = [read EXCEPT ![p].id = L!TreasuryDscID]
           /\ todo' = [todo EXCEPT ![p] = <<Upsert(L!TreasuryDscID, tx.to, 0, SupplyCap)>>]
           /\ Goto(p, "write")
           /\ UNCHANGED <<committed, lock, req, held, pending>>
  <2> DEFINE s == Upsert(L!TreasuryDscID, tx.to, 0, SupplyCap)
  <2>1. tx \in L!GenesisTx
    BY <1>2, <1>6, RequestKinds
  <2>2. s \in UpsertStmt /\ s.op = "upsert"
    BY <2>1, LedgerAssumption DEF Upsert, UpsertStmt, L!GenesisTx
  <2>3. todo'[p] = <<s>> /\ pc'[p] = "write"
    BY <1>5, <1>6 DEF Goto
  <2> HIDE DEF s
  <2>4. /\ todo'[p] \in Seq(Stmt) /\ todo'[p] # <<>>
        /\ DOMAIN todo'[p] = {1} /\ todo'[p][1] = s
    BY <2>2, <2>3, ShortLists DEF Stmt
  <2>5. Rekeys(p)'
    BY <2>2, <2>4 DEF Rekeys
  <2>6. read'[p] = [leaf |-> Len(log) + 1, id |-> L!TreasuryDscID]
    BY <1>4, <1>5, <1>6
  <2>7. read'[p] \in Reading /\ read'[p].leaf = Len(log) + 1 /\ read'[p].id \in Ids
    BY <1>4, <2>6, LedgerAssumption DEF Reading
  <2>8. /\ req'[p] = req[p] /\ held'[p] = held[p] /\ pending'[p] = pending[p]
        /\ log' = log
    BY <1>6 DEF committed
  <2>9. QED
    BY <1>1, <1>3, <1>6, <2>3, <2>4, <2>5, <2>7, <2>8, StartsWriting
<1>7. ASSUME NEW i \in Ids,
             WellFormed(tx), tx.type = "rotate_key", SignerMay(tx, i),
             read' = [read EXCEPT ![p].id = i],
             todo' = [todo EXCEPT ![p] =
                << Upsert(i, pubkey[i], tx.nonce, balance[i]),
                   [op |-> "rekey", old |-> tx.oldKey, key |-> tx.newKey] >>],
             Goto(p, "write"),
             UNCHANGED <<committed, lock, req, held, pending>>
      PROVE  LocalTypes(p)' /\ Local(p)'
  <2> DEFINE s == Upsert(i, pubkey[i], tx.nonce, balance[i])
             t == [op |-> "rekey", old |-> tx.oldKey, key |-> tx.newKey]
  <2>1. tx \in L!RotateTx
    BY <1>2, <1>7, RequestKinds
  <2>2. s \in UpsertStmt /\ s.op = "upsert" /\ s.key = pubkey[i]
    BY <2>1, LedgerAssumption
       DEF Upsert, UpsertStmt, L!RotateTx, L!Nonces, Inv, Types, TypeOK, L!TypeOK
  <2>3. t \in RekeyStmt /\ t.op = "rekey" /\ t.old = tx.oldKey
    BY <2>1 DEF RekeyStmt, L!RotateTx
  <2>4. tx.oldKey = pubkey[i]
    BY <1>7 DEF WellFormed, SignerMay, L!HoldsKey
  <2>5. todo'[p] = <<s, t>> /\ pc'[p] = "write"
    BY <1>5, <1>7 DEF Goto
  <2> HIDE DEF s, t
  <2>6. /\ todo'[p] \in Seq(Stmt) /\ todo'[p] # <<>>
        /\ DOMAIN todo'[p] = {1, 2} /\ todo'[p][1] = s /\ todo'[p][2] = t
    BY <2>2, <2>3, <2>5, ShortLists DEF Stmt
  <2>7. /\ req'[p] = req[p] /\ held'[p] = held[p] /\ pending'[p] = pending[p]
        /\ log' = log
    BY <1>7 DEF committed
  <2>8. Rekeys(p)'
    BY <1>7, <2>2, <2>3, <2>4, <2>6, <2>7 DEF Rekeys
  <2>9. read'[p] = [leaf |-> Len(log) + 1, id |-> i]
    BY <1>4, <1>5, <1>7
  <2>10. read'[p] \in Reading /\ read'[p].leaf = Len(log) + 1 /\ read'[p].id \in Ids
    BY <1>4, <2>9 DEF Reading
  <2>11. QED
    BY <1>1, <1>3, <1>7, <2>5, <2>6, <2>7, <2>8, <2>10, StartsWriting
<1>8. ASSUME NEW i \in Ids,
             WellFormed(tx), tx.type \in {"transfer", "reclaim_invalid"}, SignerMay(tx, i),
             read' = [read EXCEPT ![p] =
                [leaf |-> @.leaf, id |-> i, key |-> pubkey[i], balance |-> balance[i]]],
             Goto(p, "other"),
             UNCHANGED <<committed, lock, req, todo, held, pending>>
      PROVE  LocalTypes(p)' /\ Local(p)'
  <2>1. /\ read'[p] = [leaf |-> Len(log) + 1, id |-> i, key |-> pubkey[i], balance |-> balance[i]]
        /\ pc'[p] = "other" /\ req'[p] = req[p] /\ todo'[p] = todo[p]
        /\ held'[p] = held[p] /\ pending'[p] = pending[p] /\ log' = log
    BY <1>4, <1>5, <1>8 DEF Goto, committed
  <2>2. pubkey[i] = tx.signer /\ tx.signer \in Keys
    BY <1>2, <1>8, RequestKinds DEF SignerMay, L!HoldsKey, L!TransferTx, L!ReclaimTx
  <2>3. balance[i] \in Nat
    BY DEF Inv, Types, TypeOK, L!TypeOK
  <2>4. read'[p] \in [leaf : {Len(log) + 1}, id : Ids, key : Keys, balance : Nat]
    BY <2>1, <2>2, <2>3
  <2>5. read'[p] \in Reading
    BY <1>4, <2>4 DEF Reading
  <2>6. LocalTypes(p)'
    BY <1>2, <2>1, <2>5, Serving, <1>1 DEF LocalTypes, Active, Reads, Inv
  <2>7. todo[p] = <<>> /\ pending[p] = <<>> /\ held[p] = {}
    BY <1>1 DEF Buffers, Writes
  <2>8. Buffers(p)' /\ Kinds(p)' /\ OneWrite(p)'
    BY <1>2, <1>3, <1>8, <2>1, <2>7 DEF Buffers, Kinds, OneWrite, Writes, Registers
  <2>9. Len(log) < MaxLog /\ (log = <<>> <=> tx.type = "genesis")
    BY <1>1, <1>3 DEF Decided
  <2>10. WellFormed(tx)'
    BY <1>8, <2>1 DEF WellFormed, L!PositiveAmount, L!UserId, L!TreasuryDscID
  <2>11. tx.type = "transfer" => i # tx.to /\ balance[i] >= tx.amount
    BY <1>8 DEF SignerMay, L!NotSelf, L!HasFunds
  <2>12. tx.type = "reclaim_invalid" => i = L!TreasuryDscID
    BY <1>8 DEF SignerMay
  <2>13. Decided(p)'
    BY <2>1, <2>4, <2>9, <2>10, <2>11, <2>12 DEF Decided, Writes, HoldsLock
  <2>14. DOMAIN <<>> = {}
    OBVIOUS
  <2>15. Rekeys(p)'
    BY <2>1, <2>7, <2>14 DEF Rekeys
  <2>16. QED
    BY <2>6, <2>8, <2>13, <2>15 DEF Local
<1>9. CASE Rollback(p)
  BY <1>9, RollbackLocal DEF Inv
<1>10. QED
  BY <1>6, <1>7, <1>8, <1>9, Zenon DEF ReadSigner

\* The statements of a transfer, and those of a reclaim, have their types.
LEMMA ReadOtherStatements ==
    ASSUME Inv, NEW p \in Procs, pc[p] = "other",
           req[p].type = "transfer" \/ ReclaimableFrom(req[p]), ReadOther(p), ~ Rollback(p)
    PROVE  \E s \in UpsertStmt, t \in UpsertStmt : todo'[p] = <<s, t>>
<1> DEFINE tx == req[p]
           signer == read[p]
<1>1. Active(p) /\ Kinds(p) /\ Decided(p)
  BY DEF Active, Inv, Local
<1>2. tx \in Request /\ tx.type \in {"transfer", "reclaim_invalid"} /\ WellFormed(tx)
  BY <1>1, Serving DEF Inv, Kinds, Decided
<1>3. signer.id \in Ids /\ signer.key \in Keys /\ signer.balance \in Nat
  BY <1>1 DEF Decided
<1>4. /\ pubkey \in [Ids -> Keys \cup {NoKey}] /\ nonce \in [Ids -> Nat]
      /\ balance \in [Ids -> Nat] /\ DOMAIN todo = Procs
  BY DEF Inv, Types, TypeOK, L!TypeOK
<1>5. CASE tx.type = "transfer"
  <2> DEFINE s == Upsert(signer.id, signer.key, tx.nonce, signer.balance - tx.amount)
             t1 == Upsert(tx.to, pubkey[tx.to], nonce[tx.to], balance[tx.to] + tx.amount)
             t2 == Upsert(tx.to, NoKey, 0, tx.amount)
             t == IF tx.to \in rows THEN t1 ELSE t2
  <2>1. tx \in L!TransferTx
    BY <1>2, <1>5, RequestKinds
  <2>2. tx.to \in Ids /\ tx.amount \in Int /\ tx.nonce \in Nat
    BY <1>2, <1>5, RequestFields
  <2>3. tx.amount > 0 /\ signer.balance >= tx.amount
    BY <1>1, <1>2, <1>5 DEF WellFormed, L!PositiveAmount, Decided
  <2>4. tx.amount \in Nat /\ signer.balance - tx.amount \in Nat
    BY <1>3, <2>2, <2>3
  <2>5. s \in UpsertStmt
    BY <1>3, <2>2, <2>4 DEF Upsert, UpsertStmt
  <2>6. t1 \in UpsertStmt
    BY <1>4, <2>2, <2>4 DEF Upsert, UpsertStmt
  <2>7. t2 \in UpsertStmt
    BY <2>2, <2>4 DEF Upsert, UpsertStmt
  <2>8. todo'[p] = <<s, t>>
    BY <1>4, <1>5 DEF ReadOther
  <2> HIDE DEF s, t1, t2
  <2>9. QED
    BY <2>5, <2>6, <2>7, <2>8
<1>6. CASE tx.type = "reclaim_invalid"
  <2> DEFINE s == Upsert(tx.from, NoKey, nonce[tx.from], balance[tx.from] - tx.amount)
             t == Upsert(signer.id, signer.key, tx.nonce, signer.balance + tx.amount)
  <2>1. tx \in L!ReclaimTx
    BY <1>2, <1>6, RequestKinds
  <2>2. tx.from \in Ids /\ tx.amount \in Int /\ tx.nonce \in Nat
    BY <1>2, <1>6, RequestFields
  <2>3. tx.amount > 0 /\ balance[tx.from] >= tx.amount
    BY <1>2, <1>6 DEF WellFormed, L!PositiveAmount, ReclaimableFrom, L!HasFunds
  <2>4. tx.amount \in Nat /\ balance[tx.from] - tx.amount \in Nat
    BY <1>4, <2>2, <2>3
  <2>5. s \in UpsertStmt
    BY <1>4, <2>2, <2>4 DEF Upsert, UpsertStmt
  <2>6. t \in UpsertStmt
    BY <1>3, <2>2, <2>4 DEF Upsert, UpsertStmt
  <2>7. todo'[p] = <<s, t>>
    BY <1>4, <1>6 DEF ReadOther
  <2> HIDE DEF s, t
  <2>8. QED
    BY <2>5, <2>6, <2>7
<1>7. QED
  BY <1>2, <1>5, <1>6

\* The other row is read, and the statements follow.
LEMMA ReadOtherLocal ==
    ASSUME Inv, NEW p \in Procs, ReadOther(p)
    PROVE  LocalTypes(p)' /\ Local(p)'
<1>1. CASE Rollback(p)
  BY <1>1, RollbackLocal DEF Inv
<1>2. CASE ~ Rollback(p)
  <2>1. pc[p] = "other" /\ Active(p) /\ Kinds(p) /\ Decided(p)
    BY DEF ReadOther, Active, Inv, Local
  <2>2. req[p].type = "transfer" \/ ReclaimableFrom(req[p])
    BY <1>2 DEF ReadOther
  <2>3. PICK s \in UpsertStmt, t \in UpsertStmt : todo'[p] = <<s, t>>
    BY <1>2, <2>1, <2>2, ReadOtherStatements
  <2>4. /\ todo'[p] \in Seq(Stmt) /\ todo'[p] # <<>>
        /\ DOMAIN todo'[p] = {1, 2} /\ todo'[p][1] = s /\ todo'[p][2] = t
    BY <2>3, ShortLists DEF Stmt
  <2>5. Rekeys(p)'
    BY <2>4 DEF Rekeys, UpsertStmt
  <2>6. /\ pc'[p] = "write" /\ req'[p] = req[p] /\ pending'[p] = pending[p] /\ log' = log
        /\ read'[p] = read[p] /\ held'[p] = held[p]
    BY <1>2 DEF ReadOther, Goto, committed, Inv, Types, TypeOK
  <2>7. HoldsLock(p) /\ read[p] \in Reading
    BY <2>1, Serving DEF HoldsLock, Kinds, LocalTypes, Inv
  <2>8. read[p].leaf = Len(log) + 1 /\ read[p].id \in Ids /\ WellFormed(req[p])
    BY <2>1 DEF Decided
  <2>9. QED
    BY <2>1, <2>4, <2>5, <2>6, <2>7, <2>8, StartsWriting
<1>3. QED
  BY <1>1, <1>2

\* The register handler reads the row, and its one statement follows.
LEMMA ReadRegistrantLocal ==
    ASSUME Inv, NEW p \in Procs, ReadRegistrant(p)
    PROVE  LocalTypes(p)' /\ Local(p)'
<1> DEFINE r == req[p]
           s == IF r.id \in rows THEN [op |-> "attach", id |-> r.id, key |-> r.key]
                ELSE Upsert(r.id, r.key, 0, 0)
<1>1. CASE Rollback(p)
  BY <1>1, RollbackLocal DEF Inv
<1>2. CASE ~ Rollback(p)
  <2>1. pc[p] = "registrant" /\ Active(p) /\ Kinds(p) /\ Buffers(p)
    BY DEF ReadRegistrant, Active, Inv, Local
  <2>2. Registers(p) /\ r \in Request /\ LocalTypes(p)
    BY <2>1, Serving DEF Kinds, Inv
  <2>3. r.id \in Ids /\ r.key \in Keys
    BY <2>2, RequestKinds DEF Registers, Registration
  <2>4. /\ pc'[p] = "write" /\ req'[p] = req[p] /\ pending'[p] = pending[p] /\ log' = log
        /\ read'[p] = [leaf |-> 0, id |-> IF r.id \in rows THEN r.id ELSE None]
        /\ held'[p] = held[p] /\ rows' = rows
    BY <1>2 DEF ReadRegistrant, Goto, committed, Inv, Types, TypeOK
  <2>5. todo'[p] = <<s>>
    BY <1>2 DEF ReadRegistrant, Inv, Types
  <2>6. /\ s \in UpsertStmt \cup AttachStmt /\ s.id = r.id /\ s.key = r.key
        /\ s \in AttachStmt => r.id \in rows
        /\ s \in UpsertStmt => r.id \notin rows /\ s.nonce = 0 /\ s.balance = 0
        /\ s.op \in {"upsert", "attach"}
    BY <2>3 DEF UpsertStmt, AttachStmt, Upsert
  <2> HIDE DEF s
  <2>7. /\ todo'[p] \in Seq(Stmt) /\ todo'[p] # <<>> /\ Len(todo'[p]) = 1
        /\ DOMAIN todo'[p] = {1} /\ todo'[p][1] = s
    BY <2>5, <2>6, ShortLists DEF Stmt
  <2>8. LocalTypes(p)'
    <3>1. read'[p] \in Reading
      BY <2>3, <2>4 DEF Reading
    <3>2. QED
      BY <2>1, <2>2, <2>4, <2>7, <3>1 DEF LocalTypes, Active, Writes
  <2>9. pending[p] = <<>> /\ held[p] = {}
    BY <2>1 DEF Buffers, Writes
  <2>10. Buffers(p)' /\ Kinds(p)'
    BY <2>4, <2>7, <2>9 DEF Buffers, Kinds, Writes
  <2>11. OneWrite(p)'
    BY <2>4, <2>6, <2>7, <2>9 DEF OneWrite, Attaches, Creates
  <2>12. Registers(p)'
    BY <2>2, <2>4 DEF Registers
  <2>13. Decided(p)' /\ Rekeys(p)'
    BY <2>4, <2>6, <2>7, <2>12 DEF Decided, HoldsLock, Rekeys
  <2>14. QED
    BY <2>8, <2>10, <2>11, <2>13 DEF Local
<1>3. QED
  BY <1>1, <1>2

\* A statement is sent; the rest of the statements stay well formed.
LEMMA WriteLocal ==
    ASSUME Inv, NEW p \in Procs, Write(p)
    PROVE  LocalTypes(p)' /\ Local(p)'
<1> DEFINE s == Head(todo[p])
           i == Target(p, s)
           row == NewRow(p, s)
<1>1. CASE Rollback(p)
  BY <1>1, RollbackLocal DEF Inv
<1>2. CASE ~ Rollback(p)
  <2>1. pc[p] = "write" /\ Active(p) /\ Local(p)
    BY DEF Write, Active, Inv
  <2>2. req[p] # None /\ LocalTypes(p)
    BY <2>1, Serving DEF Inv
  <2>3. /\ todo[p] \in Seq(Stmt) /\ todo[p] # <<>> /\ s \in Stmt
        /\ i \in Ids /\ row \in Row /\ i \in held[p]
    BY <2>1, RowWritten DEF Write
  <2>4. /\ Len(todo[p]) \in Nat /\ Len(todo[p]) > 0 /\ DOMAIN todo[p] = 1 .. Len(todo[p])
        /\ s = todo[p][1] /\ Tail(todo[p]) \in Seq(Stmt)
        /\ DOMAIN Tail(todo[p]) = 1 .. Len(todo[p]) - 1
        /\ \A n \in DOMAIN Tail(todo[p]) :
              n + 1 \in DOMAIN todo[p] /\ Tail(todo[p])[n] = todo[p][n + 1]
        /\ Tail(todo[p]) = <<>> <=> Len(todo[p]) = 1
    BY <2>3, FirstStatement
  <2>5. /\ todo'[p] = Tail(todo[p]) /\ req'[p] = req[p] /\ read'[p] = read[p]
        /\ pc'[p] = IF Len(todo[p]) > 1 THEN "write"
                    ELSE IF req[p].type = "register" THEN "commit" ELSE "insert"
        /\ log' = log /\ rows' = rows /\ held'[p] = held[p]
    BY <1>2 DEF Write, Goto, committed, Inv, Types, TypeOK
  <2>6. pending'[p] = [j \in DOMAIN pending[p] \cup {i} |-> IF j = i THEN row ELSE pending[p][j]]
    BY <1>2 DEF Write, Inv, Types
  <2> HIDE DEF i, row, s
  <2>7. /\ DOMAIN pending'[p] = DOMAIN pending[p] \cup {i}
        /\ pending'[p] \in [DOMAIN pending'[p] -> Row] /\ pending'[p][i] = row
        /\ \A j \in DOMAIN pending[p] : j # i => pending'[p][j] = pending[p][j]
    BY <2>2, <2>3, <2>6 DEF LocalTypes
  <2>8. LocalTypes(p)'
    BY <2>2, <2>3, <2>4, <2>5, <2>7 DEF LocalTypes, Active, Writes
  <2>9. Buffers(p)' /\ Kinds(p)'
    <3>1. pc'[p] \in {"write", "commit", "insert"} /\ (pc'[p] = "write" <=> Len(todo[p]) # 1)
      <4>1. PICK n : n = Len(todo[p]) /\ n \in Nat /\ n > 0
        BY <2>4
      <4>2. n > 1 <=> n # 1
        <5>1. \A m \in Nat : m > 0 => (m > 1 <=> m # 1)
          OBVIOUS
        <5>2. QED
          BY <4>1, <5>1
      <4>3. pc'[p] = IF n > 1 THEN "write" ELSE IF req[p].type = "register" THEN "commit" ELSE "insert"
        BY <2>5, <4>1
      <4>4. QED
        BY <4>1, <4>2, <4>3, Zenon
    <3>2. Buffers(p)'
      BY <2>4, <2>5, <3>1 DEF Buffers, Writes
    <3>3. pc'[p] = "insert" => req'[p].type # "register"
      BY <2>5
    <3>4. Kinds(p)'
      BY <3>1, <3>3 DEF Kinds, Registers
    <3>5. QED
      BY <3>2, <3>4
  <2>10. OneWrite(p)'
    <3>1. CASE Registers(p)
      <4>1. /\ Len(todo[p]) = 1 /\ s \in UpsertStmt \cup AttachStmt /\ s.id = req[p].id
            /\ pending[p] = <<>>
        BY <2>1, <2>4, <3>1 DEF Local, OneWrite
      <4>2. i = req[p].id
        BY <4>1 DEF i, Target, UpsertStmt, AttachStmt
      <4>3. DOMAIN pending'[p] = {req[p].id}
        BY <2>7, <4>1, <4>2
      <4>4. QED
        BY <2>1, <2>5, <3>1, <4>1, <4>3 DEF Local, OneWrite, Registers
    <3>2. CASE ~ Registers(p)
      BY <2>5, <3>2 DEF OneWrite, Registers
    <3>3. QED
      BY <3>1, <3>2
  <2>11. Decided(p)'
    <3>1. CASE Registers(p)
      BY <2>5, <3>1 DEF Decided, HoldsLock, Registers
    <3>2. CASE ~ Registers(p)
      <4>1. HoldsLock(p) /\ pc[p] \in Writes
        BY <2>1, <3>2 DEF HoldsLock, Writes
      <4>2. /\ Len(log) < MaxLog /\ (log = <<>> <=> req[p].type = "genesis")
            /\ read[p].leaf = Len(log) + 1 /\ read[p].id \in Ids /\ WellFormed(req[p])
        BY <2>1, <4>1 DEF Local, Decided
      <4>3. WellFormed(req[p])'
        BY <2>5, <4>2 DEF WellFormed, L!PositiveAmount, L!UserId, L!TreasuryDscID
      <4>4. QED
        BY <2>5, <4>2, <4>3 DEF Decided
    <3>3. QED
      BY <3>1, <3>2
  <2>12. Rekeys(p)'
    <3> SUFFICES ASSUME NEW n \in DOMAIN todo'[p]
                 PROVE  LET t == todo'[p][n] IN
                        /\ t.op = "attach" => Registers(p)'
                        /\ t.op = "rekey" =>
                              /\ req'[p].type = "rotate_key"
                              /\ \/ n = 1 /\ \E j \in DOMAIN pending'[p] :
                                                pending'[p][j].pubkey = t.old
                                 \/ n = 2 /\ todo'[p][1].op = "upsert" /\ todo'[p][1].key = t.old
      BY DEF Rekeys
    <3> DEFINE t == todo'[p][n]
    <3>1. n + 1 \in DOMAIN todo[p] /\ t = todo[p][n + 1] /\ n \in Nat /\ n >= 1
      BY <2>4, <2>5
    <3>2. t.op = "attach" => Registers(p)'
      BY <2>1, <2>5, <3>1 DEF Local, Rekeys, Registers
    <3>3. ASSUME t.op = "rekey"
          PROVE  /\ req'[p].type = "rotate_key" /\ n = 1
                 /\ \E j \in DOMAIN pending'[p] : pending'[p][j].pubkey = t.old
      <4>1. /\ req[p].type = "rotate_key" /\ n + 1 = 2
            /\ todo[p][1].op = "upsert" /\ todo[p][1].key = t.old
        BY <2>1, <3>1, <3>3 DEF Local, Rekeys
      <4>2. t \in RekeyStmt
        BY <2>3, <3>1, <3>3 DEF Stmt, UpsertStmt, RekeyStmt, AttachStmt
      <4>3. t.old # NoKey
        BY <4>2, LedgerAssumption DEF RekeyStmt
      <4>4. row.pubkey = t.old
        BY <2>4, <4>1, <4>3 DEF row, NewRow, Coalesce
      <4>5. QED
        BY <2>5, <2>7, <4>1, <4>4
    <3>4. QED
      BY <3>2, <3>3
  <2>13. QED
    BY <2>8, <2>9, <2>10, <2>11, <2>12 DEF Local
<1>3. QED
  BY <1>1, <1>2

\* A row is locked; nothing else changes.
LEMMA TakeRowLocal ==
    ASSUME Inv, NEW p \in Procs, TakeRow(p)
    PROVE  LocalTypes(p)' /\ Local(p)'
<1> DEFINE i == Target(p, Head(todo[p]))
<1>1. pc[p] = "write" /\ Active(p) /\ Local(p)
  BY DEF TakeRow, Active, Inv
<1>2. req[p] # None /\ LocalTypes(p)
  BY <1>1, Serving DEF Inv
<1>3. i \in Ids
  BY <1>1, RowWritten
<1>4. /\ pc' = pc /\ req' = req /\ read' = read /\ todo' = todo /\ pending' = pending
      /\ rows' = rows /\ log' = log
  BY DEF TakeRow, committed
<1>5. held'[p] = held[p] \cup {i}
  BY DEF TakeRow, Inv, Types
<1> HIDE DEF i
<1>6. LocalTypes(p)'
  BY <1>2, <1>3, <1>4, <1>5 DEF LocalTypes, Active
<1>7. Buffers(p)' /\ Kinds(p)' /\ Rekeys(p)'
  BY <1>1, <1>4 DEF Local, Buffers, Kinds, Rekeys, Registers, Writes
<1>8. OneWrite(p)'
  <2>1. CASE Registers(p)
    <3>1. /\ todo[p] \in Seq(Stmt) /\ todo[p] # <<>>
          /\ todo[p][1] \in UpsertStmt \cup AttachStmt /\ todo[p][1].id = req[p].id
      BY <1>1, <1>2, <2>1 DEF Local, Buffers, OneWrite, LocalTypes
    <3>2. Head(todo[p]) = todo[p][1]
      BY <3>1, FirstStatement
    <3>3. i = req[p].id
      BY <3>1, <3>2 DEF i, Target, UpsertStmt, AttachStmt
    <3>4. QED
      BY <1>1, <1>4, <1>5, <2>1, <3>3 DEF Local, OneWrite, Attaches, Creates, Registers
  <2>2. CASE ~ Registers(p)
    BY <1>4, <2>2 DEF OneWrite, Registers
  <2>3. QED
    BY <2>1, <2>2
<1>9. WellFormed(req[p])' <=> WellFormed(req[p])
  BY <1>4 DEF WellFormed, L!PositiveAmount, L!UserId, L!TreasuryDscID
<1>10. Decided(p)'
  BY <1>1, <1>4, <1>9 DEF Local, Decided, HoldsLock, Registers
<1>11. QED
  BY <1>6, <1>7, <1>8, <1>10 DEF Local

\* A statement of the holder of the lock that only moves it on.
LEMMA MovesOn ==
    ASSUME Inv, NEW p \in Procs, NEW l \in {"check", "commit"}, pc[p] \in {"insert", "check"},
           Goto(p, l), UNCHANGED <<committed, lock, req, read, todo, held, pending>>
    PROVE  LocalTypes(p)' /\ Local(p)'
<1>1. Active(p) /\ Local(p)
  BY DEF Active, Inv
<1>2. LocalTypes(p) /\ req[p] # None
  BY <1>1, Serving DEF Inv
<1>3. pc'[p] = l /\ log' = log /\ rows' = rows
  BY DEF Goto, committed, Inv, Types, TypeOK
<1>4. LocalTypes(p)'
  BY <1>2, <1>3 DEF LocalTypes, Active, Writes
<1>5. ~ Registers(p) /\ ~ Registers(p)' /\ todo[p] = <<>>
  BY <1>1 DEF Local, Kinds, Buffers, Registers
<1>6. Buffers(p)' /\ Kinds(p)' /\ OneWrite(p)'
  BY <1>3, <1>5 DEF Buffers, Kinds, OneWrite, Writes
<1>7. HoldsLock(p) /\ pc[p] \in Writes
  BY <1>5 DEF HoldsLock, Writes
<1>8. /\ Len(log) < MaxLog /\ (log = <<>> <=> req[p].type = "genesis")
      /\ read[p].leaf = Len(log) + 1 /\ read[p].id \in Ids /\ WellFormed(req[p])
  BY <1>1, <1>7 DEF Local, Decided
<1>9. WellFormed(req[p])'
  BY <1>8 DEF WellFormed, L!PositiveAmount, L!UserId, L!TreasuryDscID
<1>10. Decided(p)'
  BY <1>3, <1>8, <1>9 DEF Decided
<1>11. DOMAIN <<>> = {}
  OBVIOUS
<1>12. Rekeys(p)'
  BY <1>5, <1>11 DEF Rekeys
<1>13. QED
  BY <1>4, <1>6, <1>10, <1>12 DEF Local

\* Every step of p keeps what is p's.
LEMMA LocalStep ==
    ASSUME Inv, NEW p \in Procs, StepOf(p)
    PROVE  LocalTypes(p)' /\ Local(p)'
<1>1. CASE Rollback(p)
  BY <1>1, RollbackLocal DEF Inv
<1>2. CASE Begin(p)
  BY <1>2, BeginLocal
<1>3. CASE LockLedger(p)
  BY <1>3, LockLedgerLocal
<1>4. CASE LastTx(p)
  BY <1>4, LastTxLocal
<1>5. CASE ReadSigner(p)
  BY <1>5, ReadSignerLocal
<1>6. CASE ReadOther(p)
  BY <1>6, ReadOtherLocal
<1>7. CASE ReadRegistrant(p)
  BY <1>7, ReadRegistrantLocal
<1>8. CASE Write(p)
  BY <1>8, WriteLocal
<1>9. CASE InsertTx(p)
  BY <1>1, <1>9, MovesOn DEF InsertTx
<1>10. CASE CheckSupply(p)
  BY <1>1, <1>10, MovesOn DEF CheckSupply
<1>11. CASE Commit(p)
  BY <1>11, ClosedIsClean DEF Commit, Inv
<1>12. CASE Abort(p) \/ Victim(p)
  BY <1>1, <1>12 DEF Abort, Victim
<1>13. CASE TakeRow(p)
  BY <1>13, TakeRowLocal
<1>14. QED
  BY <1>2, <1>3, <1>4, <1>5, <1>6, <1>7, <1>8, <1>9, <1>10, <1>11, <1>12, <1>13
     DEF StepOf, Step

-----------------------------------------------------------------------------
(* What the step leaves of the rest of the invariant.                       *)

\* A commit merges the rows that were written into the tables, and adds the leaf.
LEMMA Committing ==
    ASSUME Inv, NEW p \in Procs, Commit(p)
    PROVE  /\ pc[p] = "commit" /\ Active(p) /\ Close(p)
           /\ rows' = rows \cup DOMAIN pending[p] /\ rows' \subseteq Ids
           /\ pubkey' \in [Ids -> Keys \cup {NoKey}]
           /\ nonce' \in [Ids -> Nat] /\ balance' \in [Ids -> Nat]
           /\ \A i \in DOMAIN pending[p] :
                 /\ pubkey'[i] = pending[p][i].pubkey /\ nonce'[i] = pending[p][i].nonce
                 /\ balance'[i] = pending[p][i].balance
           /\ \A i \in Ids \ DOMAIN pending[p] :
                 /\ pubkey'[i] = pubkey[i] /\ nonce'[i] = nonce[i] /\ balance'[i] = balance[i]
           /\ Registers(p) => log' = log
           /\ ~ Registers(p) => log' = Append(log, Leaf(p)) /\ Leaf(p) \in L!Entry
<1>1. pc[p] = "commit" /\ Active(p) /\ Close(p)
  BY DEF Commit, Active
<1>2. /\ DOMAIN pending[p] \subseteq Ids /\ pending[p] \in [DOMAIN pending[p] -> Row]
      /\ req[p] \in Request /\ req[p] # None
  BY <1>1, Serving DEF LocalTypes, Inv
<1>3. \A i \in DOMAIN pending[p] :
          /\ pending[p][i].pubkey \in Keys \cup {NoKey}
          /\ pending[p][i].nonce \in Nat /\ pending[p][i].balance \in Nat
  BY <1>2 DEF Row
<1>4. /\ rows \subseteq Ids /\ pubkey \in [Ids -> Keys \cup {NoKey}]
      /\ nonce \in [Ids -> Nat] /\ balance \in [Ids -> Nat]
  BY DEF Inv, Types, TypeOK, L!TypeOK
<1>5. /\ pubkey' = [i \in Ids |-> IF i \in DOMAIN pending[p] THEN pending[p][i].pubkey ELSE pubkey[i]]
      /\ nonce' = [i \in Ids |-> IF i \in DOMAIN pending[p] THEN pending[p][i].nonce ELSE nonce[i]]
      /\ balance' = [i \in Ids |-> IF i \in DOMAIN pending[p] THEN pending[p][i].balance
                                   ELSE balance[i]]
      /\ rows' = rows \cup DOMAIN pending[p]
      /\ log' = IF req[p].type = "register" THEN log ELSE Append(log, Leaf(p))
  BY DEF Commit, Leaf
<1>6. /\ pubkey' \in [Ids -> Keys \cup {NoKey}] /\ nonce' \in [Ids -> Nat]
      /\ balance' \in [Ids -> Nat] /\ rows' \subseteq Ids
  BY <1>2, <1>3, <1>4, <1>5
<1>7. ~ Registers(p) => req[p] \in L!Tx /\ read[p].id \in Ids
  <2>1. ~ Registers(p) => req[p] \in L!Tx
    BY <1>2, RequestKinds DEF Registers
  <2>2. ~ Registers(p) => read[p].id \in Ids
    BY <1>1 DEF Inv, Local, Decided, HoldsLock, Writes
  <2>3. QED
    BY <2>1, <2>2
<1>8. ~ Registers(p) => Leaf(p) \in L!Entry
  BY <1>7 DEF Leaf, L!Entry
<1>9. QED
  BY <1>1, <1>2, <1>5, <1>6, <1>8 DEF Registers

\* The committed tables keep their types.
LEMMA TablesTyped ==
    ASSUME Inv, NEW p \in Procs, StepOf(p)
    PROVE  L!TypeOK'
<1>1. CASE Commit(p)
  <2>1. log \in Seq(L!Entry)
    BY DEF Inv, Types, TypeOK, L!TypeOK
  <2>2. log' \in Seq(L!Entry)
    <3>1. CASE Registers(p)
      BY <1>1, <2>1, <3>1, Committing
    <3>2. CASE ~ Registers(p)
      <4>1. log' = Append(log, Leaf(p)) /\ Leaf(p) \in L!Entry
        BY <1>1, <3>2, Committing
      <4>2. QED
        BY <2>1, <4>1, AppendProperties
    <3>3. QED
      BY <3>1, <3>2
  <2>3. QED
    BY <1>1, <2>2, Committing DEF L!TypeOK
<1>2. CASE ~ Commit(p)
  BY <1>2, OnlyCommitsWrite DEF committed, Inv, Types, TypeOK, L!TypeOK
<1>3. QED
  BY <1>1, <1>2

\* The lock passes from nobody to p, or from p to nobody, or stays.
LEMMA LockPasses ==
    ASSUME Inv, NEW p \in Procs, StepOf(p)
    PROVE  /\ lock' \in Procs \cup {None}
           /\ lock' = p <=> HoldsLock(p)'
           /\ \A q \in Procs \ {p} : lock' = q <=> lock = q
<1>1. lock \in Procs \cup {None} /\ None \notin Procs /\ (lock = p <=> HoldsLock(p))
  BY NoneAssumption DEF Inv, Types, TypeOK, LockHeld
<1>2. ASSUME Close(p)
      PROVE  /\ lock' = IF lock = p THEN None ELSE lock
             /\ ~ HoldsLock(p)'
  BY <1>2, Closing DEF Inv, HoldsLock, Writes
<1>3. CASE LockLedger(p)
  <2>1. lock = None /\ lock' = p /\ pc'[p] = "last" /\ req'[p] = req[p] /\ pc[p] = "lock"
    BY <1>3 DEF LockLedger, LockFree, Goto, Inv, Types, TypeOK
  <2>2. ~ Registers(p)
    BY <2>1 DEF Inv, Local, Kinds
  <2>3. HoldsLock(p)'
    BY <2>1, <2>2 DEF HoldsLock, Registers
  <2>4. QED
    BY <1>1, <2>1, <2>3
<1>4. CASE ~ LockLedger(p) /\ ~ Close(p)
  <2>1. lock' = lock
    BY <1>4 DEF StepOf, Step, Begin, LastTx, ReadSigner, ReadOther, ReadRegistrant, TakeRow,
       Write, InsertTx, CheckSupply, Commit, Abort, Victim, Rollback
  <2>2. HoldsLock(p)' <=> HoldsLock(p)
    <3>1. DOMAIN pc = Procs /\ DOMAIN req = Procs
      BY DEF Inv, Types, TypeOK
    <3>2. CASE Begin(p)
      <4>1. PICK r \in Work[p] :
                pc'[p] = (IF r.type = "register" THEN "registrant" ELSE "lock") /\ pc[p] = "idle"
        BY <3>1, <3>2 DEF Begin, Goto
      <4>2. QED
        BY <4>1 DEF HoldsLock, Writes
    <3>3. CASE ReadRegistrant(p) \/ Write(p)
      <4>1. /\ pc[p] \in {"registrant", "write"} /\ pc'[p] \in Writes /\ req'[p] = req[p]
            /\ pc[p] = "registrant" => Registers(p)
        BY <1>4, <3>1, <3>3 DEF ReadRegistrant, Write, Goto, Rollback, Writes, Inv, Local, Kinds
      <4>2. QED
        BY <4>1 DEF HoldsLock, Registers, Writes
    <3>4. CASE LastTx(p) \/ ReadSigner(p) \/ ReadOther(p) \/ InsertTx(p) \/ CheckSupply(p)
      <4>1. /\ pc[p] \in {"last", "signer", "other"} \cup Writes
            /\ pc'[p] \in {"last", "signer", "other"} \cup Writes /\ req'[p] = req[p]
        BY <1>4, <3>1, <3>4 DEF LastTx, ReadSigner, ReadOther, InsertTx, CheckSupply, Goto,
           Rollback, Writes
      <4>2. QED
        BY <4>1 DEF HoldsLock, Registers
    <3>5. CASE TakeRow(p)
      BY <3>5 DEF TakeRow, HoldsLock, Registers
    <3>6. QED
      BY <1>4, <3>2, <3>3, <3>4, <3>5 DEF StepOf, Step, Commit, Abort, Victim, Rollback
  <2>3. QED
    BY <1>1, <2>1, <2>2
<1>5. QED
  BY <1>1, <1>2, <1>3, <1>4

\* All that is typed stays typed.
LEMMA TypesStep ==
    ASSUME Inv, NEW p \in Procs, StepOf(p)
    PROVE  Types'
<1>1. Types
  BY DEF Inv
<1>2. LocalTypes(p)'
  BY LocalStep
<1>3. /\ pc' = [pc EXCEPT ![p] = pc'[p]]
      /\ req' = [req EXCEPT ![p] = req'[p]]
      /\ read' = [read EXCEPT ![p] = read'[p]]
      /\ todo' = [todo EXCEPT ![p] = todo'[p]]
      /\ held' = [held EXCEPT ![p] = held'[p]]
      /\ pending' = [pending EXCEPT ![p] = pending'[p]]
  BY <1>1, Separate
<1>4. \A q \in Procs \ {p} :
          /\ pc'[q] = pc[q] /\ req'[q] = req[q] /\ held'[q] = held[q]
          /\ pending'[q] = pending[q]
  BY <1>1, OthersUntouched
<1>5. pc' \in [Procs -> {"idle"} \cup Reads \cup Writes]
  <2>1. pc \in [Procs -> {"idle"} \cup Reads \cup Writes]
    BY <1>1 DEF Types, TypeOK, Reads, Writes
  <2>2. QED
    BY <1>2, <1>3, <2>1 DEF LocalTypes
<1>6. req'[p] \in Request \cup {None}
  BY <1>2, WorkAssumption DEF LocalTypes
<1>7. req' \in [Procs -> Request \cup {None}]
  BY <1>1, <1>3, <1>6 DEF Types
<1>8. /\ read' \in [Procs -> Reading] /\ todo' \in [Procs -> Seq(Stmt)]
      /\ held' \in [Procs -> SUBSET Ids]
  BY <1>1, <1>2, <1>3 DEF Types, LocalTypes
<1>9. pending' = [q \in Procs |-> pending'[q]]
  BY <1>1, <1>3 DEF Types
<1>10. \A q \in Procs :
          /\ req'[q] \in Work[q] \cup {None} /\ (req'[q] = None <=> pc'[q] = "idle")
          /\ DOMAIN pending'[q] \subseteq held'[q] /\ held'[q] \subseteq Ids
          /\ pending'[q] \in [DOMAIN pending'[q] -> Row]
  BY <1>1, <1>2, <1>4 DEF Types, TypeOK, LocalTypes, Active
<1>11. L!TypeOK' /\ lock' \in Procs \cup {None}
  BY TablesTyped, LockPasses
<1>12. TypeOK'
  BY <1>5, <1>10, <1>11 DEF TypeOK, Active, Reads, Writes
<1>13. overtaken' \in BOOLEAN
  <2>1. CASE Commit(p)
    <3>1. overtaken' = (overtaken \/ Overtaken(p))
      BY <2>1 DEF Commit
    <3>2. Overtaken(p) \in BOOLEAN
      BY DEF Overtaken
    <3>3. QED
      BY <1>1, <3>1, <3>2 DEF Types
  <2>2. CASE ~ Commit(p)
    BY <1>1, <2>2, OnlyCommitsWrite DEF Types, committed
  <2>3. QED
    BY <2>1, <2>2
<1>14. QED
  BY <1>7, <1>8, <1>9, <1>10, <1>12, <1>13 DEF Types

\* The lock stays with the transaction that has passed LockLedger.
LEMMA LockHeldStep ==
    ASSUME Inv, NEW p \in Procs, StepOf(p)
    PROVE  LockHeld'
<1> SUFFICES ASSUME NEW q \in Procs
             PROVE  lock' = q <=> HoldsLock(q)'
  BY DEF LockHeld
<1>1. CASE q = p
  BY <1>1, LockPasses
<1>2. CASE q # p
  <2>1. lock' = q <=> lock = q
    BY <1>2, LockPasses
  <2>2. pc'[q] = pc[q] /\ req'[q] = req[q]
    BY <1>2, OthersUntouched DEF Inv
  <2>3. HoldsLock(q)' <=> HoldsLock(q)
    BY <2>2 DEF HoldsLock, Registers
  <2>4. QED
    BY <2>1, <2>3 DEF Inv, LockHeld
<1>3. QED
  BY <1>1, <1>2

\* A row is locked only while no other open transaction has it locked.
LEMMA RowsTaken ==
    ASSUME Inv, NEW p \in Procs, StepOf(p)
    PROVE  \/ held'[p] = held[p]
           \/ held'[p] = {}
           \/ \E i \in Ids : /\ held'[p] = held[p] \cup {i}
                             /\ \A q \in Procs \ {p} : i \notin held[q]
<1>1. DOMAIN held = Procs
  BY DEF Inv, Types
<1>2. CASE Close(p)
  BY <1>2, Closing DEF Inv
<1>3. CASE ~ Close(p) /\ TakeRow(p)
  <2> DEFINE i == Target(p, Head(todo[p]))
  <2>1. i \in Ids /\ i \notin held[p] /\ pc[p] = "write"
    BY <1>3, RowWritten DEF TakeRow
  <2>2. held'[p] = held[p] \cup {i}
    BY <1>1, <1>3 DEF TakeRow
  <2>3. \A q \in Procs \ {p} : i \notin held[q]
    BY <1>3, <2>1 DEF TakeRow, RowWait
  <2>4. QED
    BY <2>1, <2>2, <2>3
<1>4. CASE ~ Close(p) /\ ~ TakeRow(p)
  BY <1>4 DEF StepOf, Step, Begin, LockLedger, LastTx, ReadSigner, ReadOther, ReadRegistrant,
     Write, InsertTx, CheckSupply, Commit, Abort, Victim, Rollback
<1>5. QED
  BY <1>2, <1>3, <1>4

\* So the rows that transactions have locked stay apart.
LEMMA RowsApartStep ==
    ASSUME Inv, NEW p \in Procs, StepOf(p)
    PROVE  RowsApart'
<1>1. \A q \in Procs \ {p} : held'[q] = held[q]
  BY OthersUntouched DEF Inv
<1>2. ASSUME NEW q \in Procs \ {p}
      PROVE  held'[p] \cap held[q] = {}
  <2>1. held[p] \cap held[q] = {}
    BY DEF Inv, RowsApart
  <2>2. QED
    BY <2>1, RowsTaken
<1>3. QED
  BY <1>1, <1>2 DEF RowsApart, Inv

\* Nor have they written the same row.
LEMMA WritesApart ==
    ASSUME Inv, NEW p \in Procs, NEW q \in Procs \ {p}
    PROVE  /\ DOMAIN pending[p] \cap held[q] = {}
           /\ DOMAIN pending[p] \cap DOMAIN pending[q] = {}
BY DEF Inv, RowsApart, Types, TypeOK

\* The log, which the holder of the lock has read, changes by the holder only.
LEMMA LogMoves ==
    ASSUME Inv, NEW p \in Procs, StepOf(p)
    PROVE  /\ rows \subseteq rows'
           /\ log' # log => lock = p
<1>1. CASE Commit(p)
  <2>1. pc[p] = "commit" /\ rows' = rows \cup DOMAIN pending[p] /\ (Registers(p) => log' = log)
    BY <1>1, Committing
  <2>2. log' # log => HoldsLock(p)
    BY <2>1 DEF HoldsLock, Writes
  <2>3. QED
    BY <2>1, <2>2 DEF Inv, LockHeld
<1>2. CASE ~ Commit(p)
  BY <1>2, OnlyCommitsWrite DEF committed
<1>3. QED
  BY <1>1, <1>2

\* The other transactions keep their part of the invariant.
LEMMA OthersStep ==
    ASSUME Inv, NEW p \in Procs, StepOf(p), NEW q \in Procs, q # p
    PROVE  Local(q)'
<1>1. /\ pc'[q] = pc[q] /\ req'[q] = req[q] /\ read'[q] = read[q]
      /\ todo'[q] = todo[q] /\ held'[q] = held[q] /\ pending'[q] = pending[q]
  BY OthersUntouched DEF Inv
<1>2. Local(q)
  BY DEF Inv
<1>3. Buffers(q)' /\ Kinds(q)'
  BY <1>1, <1>2 DEF Local, Buffers, Kinds, Registers
<1>4. OneWrite(q)'
  BY <1>1, <1>2, LogMoves DEF Local, OneWrite, Attaches, Creates, Registers
<1>5. Decided(q)'
  <2>1. HoldsLock(q) => log' = log
    BY LogMoves DEF Inv, LockHeld
  <2>2. HoldsLock(q)' <=> HoldsLock(q)
    BY <1>1 DEF HoldsLock, Registers
  <2>3. pc[q] \in {"signer", "other"} => HoldsLock(q)
    BY <1>2 DEF Local, Kinds, HoldsLock
  <2>4. WellFormed(req[q])' <=> WellFormed(req[q])
    BY <1>1 DEF WellFormed, L!PositiveAmount, L!UserId, L!TreasuryDscID
  <2>5. CASE HoldsLock(q)
    BY <1>1, <1>2, <2>1, <2>2, <2>4, <2>5 DEF Local, Decided
  <2>6. CASE ~ HoldsLock(q)
    BY <1>1, <2>2, <2>3, <2>6 DEF Decided
  <2>7. QED
    BY <2>5, <2>6
<1>6. Rekeys(q)'
  BY <1>1, <1>2 DEF Local, Rekeys, Registers
<1>7. QED
  BY <1>3, <1>4, <1>5, <1>6 DEF Local

\* The invariant is inductive.
LEMMA InvStep ==
    ASSUME Inv, [Next]_vars
    PROVE  Inv'
<1>1. CASE UNCHANGED vars
  <2>1. Types' /\ LockHeld' /\ RowsApart'
    BY <1>1 DEF vars, Inv, Types, TypeOK, L!TypeOK, Active, LockHeld, HoldsLock, Registers,
       RowsApart
  <2>2. ASSUME NEW q \in Procs
        PROVE  Local(q)'
    <3>1. Local(q)
      BY DEF Inv
    <3>2. Buffers(q)' /\ Kinds(q)' /\ OneWrite(q)' /\ Rekeys(q)'
      BY <1>1, <3>1 DEF vars, Local, Buffers, Kinds, OneWrite, Attaches, Creates, Rekeys, Registers
    <3>3. WellFormed(req[q])' <=> WellFormed(req[q])
      BY <1>1 DEF vars, WellFormed, L!PositiveAmount, L!UserId, L!TreasuryDscID
    <3>4. Decided(q)'
      BY <1>1, <3>1, <3>3 DEF vars, Local, Decided, HoldsLock, Registers
    <3>5. QED
      BY <3>2, <3>4 DEF Local
  <2>3. QED
    BY <2>1, <2>2 DEF Inv
<1>2. CASE Next
  <2>1. PICK p \in Procs : StepOf(p)
    BY <1>2 DEF Next, StepOf
  <2>2. \A q \in Procs : Local(q)'
    BY <2>1, LocalStep, OthersStep
  <2>3. QED
    BY <2>1, <2>2, TypesStep, LockHeldStep, RowsApartStep DEF Inv
<1>3. QED
  BY <1>1, <1>2

\* It holds at the start, with or without the points of an older release.
LEMMA InvInit ==
    ASSUME Init
    PROVE  Inv
<1>1. L!TypeOK
  <2>1. CASE L!InitEmpty
    BY <2>1 DEF L!InitEmpty, L!TypeOK
  <2>2. CASE L!InitLegacy
    <3>1. PICK k \in Keys, v \in Ids, a \in Amounts \cap (1 .. SupplyCap) :
              /\ rows = {L!TreasuryDscID, v}
              /\ pubkey = [i \in Ids |-> IF i = L!TreasuryDscID THEN k ELSE NoKey]
              /\ nonce = [i \in Ids |-> IF i = L!TreasuryDscID THEN 1 ELSE 0]
              /\ balance = [i \in Ids |-> CASE i = L!TreasuryDscID -> SupplyCap - a
                                            [] i = v -> a
                                            [] OTHER -> 0]
              /\ log = << [tx |-> [type |-> "genesis", signer |-> k, to |-> k,
                                   amount |-> SupplyCap], by |-> L!TreasuryDscID],
                          [tx |-> [type |-> "transfer", signer |-> k, from |-> k, to |-> v,
                                   amount |-> a, nonce |-> 1], by |-> L!TreasuryDscID] >>
      BY <2>2 DEF L!InitLegacy
    <3> DEFINE e1 == [tx |-> [type |-> "genesis", signer |-> k, to |-> k,
                              amount |-> SupplyCap], by |-> L!TreasuryDscID]
               e2 == [tx |-> [type |-> "transfer", signer |-> k, from |-> k, to |-> v,
                              amount |-> a, nonce |-> 1], by |-> L!TreasuryDscID]
    <3>2. a \in Nat /\ SupplyCap - a \in Nat /\ 1 \in L!Nonces
      BY LedgerAssumption DEF L!Nonces
    <3>3. e1 \in L!Entry
      BY LedgerAssumption DEF L!Entry, L!Tx, L!GenesisTx
    <3>4. e2 \in L!Entry
      BY <3>2, LedgerAssumption DEF L!Entry, L!Tx, L!TransferTx
    <3>5. log = <<e1, e2>>
      BY <3>1
    <3> HIDE DEF e1, e2
    <3>6. log \in Seq(L!Entry)
      BY <3>3, <3>4, <3>5
    <3>7. /\ rows \subseteq Ids /\ pubkey \in [Ids -> Keys \cup {NoKey}]
          /\ nonce \in [Ids -> Nat] /\ balance \in [Ids -> Nat]
      BY <3>1, <3>2, LedgerAssumption
    <3>8. QED
      BY <3>6, <3>7 DEF L!TypeOK
  <2>3. QED
    BY <2>1, <2>2 DEF Init, L!Init
<1>2. <<>> \in Seq(Stmt) /\ <<>> \in [DOMAIN <<>> -> Row] /\ DOMAIN <<>> = {}
  OBVIOUS
<1>3. lock = None /\ None \notin Procs
  BY NoneAssumption DEF Init
<1>4. \A p \in Procs : /\ pc[p] = "idle" /\ req[p] = None /\ read[p] = None
                       /\ todo[p] = <<>> /\ held[p] = {} /\ pending[p] = <<>>
  BY DEF Init
<1>5. TypeOK
  BY <1>1, <1>2, <1>3, <1>4 DEF TypeOK, Active, Init
<1>6. Types
  BY <1>2, <1>4, <1>5 DEF Types, Init, Reading
<1>7. LockHeld /\ RowsApart
  BY <1>2, <1>3, <1>4 DEF LockHeld, HoldsLock, Writes, RowsApart
<1>8. ASSUME NEW p \in Procs
      PROVE  Local(p)
  BY <1>2, <1>4 DEF Local, Buffers, Kinds, OneWrite, Decided, Rekeys, Registers, HoldsLock, Writes
<1>9. QED
  BY <1>6, <1>7, <1>8 DEF Inv

\* The invariant holds in every state of the interleaved transactions.
THEOREM Invariance == Spec => []Inv
<1>1. Init => Inv
  BY InvInit
<1>2. Inv /\ [Next]_vars => Inv'
  BY InvStep
<1>3. QED
  BY <1>1, <1>2, PTL DEF Spec

\* The committed tables have their types whatever statements of Apply and of the
\* register handler interleave, a transaction is open exactly while it serves a
\* request, and the rows it has written fit the columns and CHECKs of accounts.
THEOREM TypeCorrect == Spec => []TypeOK
<1>1. Inv => TypeOK
  BY DEF Inv, Types
<1>2. QED
  BY <1>1, Invariance, PTL

\* Apply's transactions exclude each other: the advisory lock is held by the one
\* transaction that is past LockLedger.
OneApplier == \A p, q \in Procs : HoldsLock(p) /\ HoldsLock(q) => p = q

THEOREM AppliesExclude == Spec => []OneApplier
<1>1. Inv => OneApplier
  BY DEF Inv, LockHeld, OneApplier
<1>2. QED
  BY <1>1, Invariance, PTL

\* Who is waited for holds the advisory lock, or registers and has locked a row.
LEMMA WaitedFor ==
    ASSUME Inv, NEW p \in Procs, NEW q \in Procs, WaitsFor(p, q)
    PROVE  /\ HoldsLock(q) \/ (Registers(q) /\ held[q] # {})
           /\ pc[p] # "lock" => q # p
<1>1. Local(q)
  BY DEF Inv
<1>2. CASE pc[p] = "lock" /\ ~ LockFree(p) /\ q = lock
  BY <1>2 DEF Inv, LockHeld
<1>3. ASSUME q # p, held[q] # {}
      PROVE  HoldsLock(q) \/ Registers(q)
  BY <1>1, <1>3 DEF Local, Buffers, HoldsLock
<1>4. CASE RowWait(p, q)
  BY <1>3, <1>4 DEF RowWait
<1>5. CASE KeyWait(p, q)
  <2>1. q # p /\ HeldKeys(q) # {}
    BY <1>5 DEF KeyWait
  <2>2. held[q] # {}
    BY <2>1 DEF HeldKeys, Inv, Types, TypeOK
  <2>3. QED
    BY <1>3, <2>1, <2>2
<1>6. CASE LeafWait(p, q)
  <2>1. q # p /\ pc[q] \in {"check", "commit"} /\ ~ Registers(q)
    BY <1>6 DEF LeafWait, Registers
  <2>2. QED
    BY <2>1 DEF HoldsLock, Writes
<1>7. QED
  BY <1>2, <1>4, <1>5, <1>6 DEF WaitsFor, RowWait, KeyWait, LeafWait

\* A registration that has locked its row waits for nothing but a key.
LEMMA RegistrationWaits ==
    ASSUME Inv, NEW p \in Procs, NEW q \in Procs, WaitsFor(p, q), Registers(p), held[p] # {}
    PROVE  KeyWaiting(p)
<1>1. Local(p) /\ pc[p] = "write"
  BY DEF Inv, Local, Kinds, WaitsFor, RowWait, KeyWait, LeafWait
<1>2. /\ todo[p] \in Seq(Stmt) /\ todo[p] # <<>>
      /\ todo[p][1] \in UpsertStmt \cup AttachStmt /\ todo[p][1].id = req[p].id
      /\ held[p] \subseteq {req[p].id}
  BY <1>1 DEF Inv, Types, Local, Buffers, OneWrite
<1>3. Head(todo[p]) = todo[p][1]
  BY <1>2, FirstStatement
<1>4. Target(p, Head(todo[p])) = req[p].id
  BY <1>2, <1>3 DEF Target, UpsertStmt, AttachStmt
<1>5. ~ RowWait(p, q)
  BY <1>2, <1>4 DEF RowWait
<1>6. KeyWait(p, q)
  BY <1>1, <1>5 DEF WaitsFor, LeafWait
<1>7. QED
  BY <1>6 DEF KeyWaiting, Registers

\* Only the transaction of a registration that has locked its row and waits for a
\* key can close a circle of transactions that wait for each other: without one,
\* whoever is waited for is the holder of the advisory lock, and it waits for
\* nobody.  Transfers, reclaims and rotations alone never deadlock.
THEOREM CirclesAreRegistrations == Spec => []CirclesNeedRegistration
<1>1. ASSUME Inv, NEW C \in (SUBSET Procs) \ {{}}, Stuck(C), \A p \in C : ~ KeyWaiting(p)
      PROVE  FALSE
  <2>1. ASSUME NEW p \in C, NEW q \in C, WaitsFor(p, q)
        PROVE  HoldsLock(q)
    <3>1. PICK r \in C : WaitsFor(q, r)
      BY <1>1 DEF Stuck
    <3>2. ~ (Registers(q) /\ held[q] # {})
      BY <1>1, <3>1, RegistrationWaits
    <3>3. QED
      BY <1>1, <2>1, <3>2, WaitedFor
  <2>2. PICK p \in C, q \in C : WaitsFor(p, q)
    BY <1>1 DEF Stuck
  <2>3. PICK r \in C : WaitsFor(q, r)
    BY <1>1 DEF Stuck
  <2>4. HoldsLock(q) /\ HoldsLock(r)
    BY <2>1, <2>2, <2>3
  <2>5. r = q
    BY <1>1, <2>4 DEF Inv, LockHeld
  <2>6. pc[q] # "lock"
    BY <2>4 DEF HoldsLock, Writes
  <2>7. QED
    BY <1>1, <2>3, <2>5, <2>6, WaitedFor
<1>2. Inv => CirclesNeedRegistration
  BY <1>1 DEF CirclesNeedRegistration
<1>3. QED
  BY <1>2, Invariance, PTL

-----------------------------------------------------------------------------
(* Balances, when registrations overlap.                                    *)

\* What the log gives to account i.
Replayed(i) == Total([n \in DOMAIN log |-> L!CreditOf(log[n], i)])
               - Total([n \in DOMAIN log |-> L!DebitOf(log[n], i)])

\* What the commit of p adds to that.
Delta(p, i) == IF Registers(p) THEN 0 ELSE L!CreditOf(Leaf(p), i) - L!DebitOf(Leaf(p), i)

\* Balance b is not more than what the log gives to account i and d more, and
\* exactly that if nobody registers the account.
AtMost(i, d, b) ==
    /\ b <= Replayed(i) + d
    /\ i \notin Registrants => b = Replayed(i) + d

\* Every row that the leaf of p touches is written by p.
Covers(p) ==
    HoldsLock(p) /\ pc[p] \in Writes =>
        \A i \in Ids : L!CreditOf(Leaf(p), i) # 0 \/ L!DebitOf(Leaf(p), i) # 0 =>
            \/ i \in DOMAIN pending[p]
            \/ \E n \in DOMAIN todo[p] : todo[p][n].op = "upsert" /\ todo[p][n].id = i

\* The balances that p has read, will write and has written.
BalancesFit(p) ==
    /\ pc[p] = "other" => AtMost(read[p].id, 0, read[p].balance)
    /\ \A n \in DOMAIN todo[p] : todo[p][n].op = "upsert" =>
          AtMost(todo[p][n].id, Delta(p, todo[p][n].id), todo[p][n].balance)
    /\ \A i \in DOMAIN pending[p] : AtMost(i, Delta(p, i), pending[p][i].balance)

LeavesNatural ==
    \A n \in DOMAIN log : log[n].tx.type # "rotate_key" => log[n].tx.amount \in Nat

NoRowNoPoints == \A i \in Ids \ rows : balance[i] = 0

RaceInv ==
    /\ Inv /\ LeavesNatural /\ NoRowNoPoints
    /\ \A i \in Ids : AtMost(i, 0, balance[i])
    /\ \A p \in Procs : Covers(p) /\ BalancesFit(p)

-----------------------------------------------------------------------------
(* What the log replays to.                                                 *)

\* The facts about the log of the atomic ledger hold of the committed log.
LP == INSTANCE LedgerProofs

\* The constants are as module Ledger assumes them, and the sums are the same.
LEMMA LedgerConstants ==
    /\ LP!IdsAssumption /\ LP!KeysAssumption /\ LP!SupplyCapAssumption
    /\ LP!AmountsAssumption /\ LP!MaxLogAssumption
BY LedgerAssumption DEF LP!IdsAssumption, LP!KeysAssumption, LP!SupplyCapAssumption,
   LP!AmountsAssumption, LP!MaxLogAssumption, L!TreasuryDscID, LP!TreasuryDscID,
   LP!IsFiniteSet, IsFiniteSet

\* The sum that module Ledger uses is the same operator.
LEMMA SameTotal ==
    ASSUME NEW f
    PROVE  LP!Total(f) = Total(f)
<1>1. \A S : LP!Cardinality(S) = Cardinality(S)
  BY DEF LP!Cardinality, Cardinality
<1>2. LP!Units(f) = Units(f)
  BY DEF LP!Units, Units
<1>3. QED
  BY <1>1, <1>2 DEF LP!Total, Total

\* The leaves of module Ledger are the same sets, and credit and debit the same.
LEMMA SameLeaves ==
    /\ LP!Tx = L!Tx
    /\ LP!Entry = L!Entry
    /\ LP!TypeOK <=> L!TypeOK
    /\ LP!NaturalAmounts <=> LeavesNatural
    /\ LP!NaturalAmounts' <=> LeavesNatural'
    /\ \A e, i : LP!CreditOf(e, i) = L!CreditOf(e, i) /\ LP!DebitOf(e, i) = L!DebitOf(e, i)
<1>1. LP!Tx = L!Tx
  BY DEF LP!Tx, L!Tx, LP!GenesisTx, L!GenesisTx, LP!TransferTx, L!TransferTx, LP!RotateTx,
     L!RotateTx, LP!ReclaimTx, L!ReclaimTx, LP!Nonces, L!Nonces
<1>2. LP!Entry = L!Entry
  BY <1>1 DEF LP!Entry, L!Entry
<1>3. LP!TypeOK <=> L!TypeOK
  BY <1>2 DEF LP!TypeOK, L!TypeOK
<1>4. (LP!NaturalAmounts <=> LeavesNatural) /\ (LP!NaturalAmounts' <=> LeavesNatural')
  BY DEF LP!NaturalAmounts, LeavesNatural
<1>5. \A e, i : LP!CreditOf(e, i) = L!CreditOf(e, i) /\ LP!DebitOf(e, i) = L!DebitOf(e, i)
  BY DEF LP!CreditOf, L!CreditOf, LP!DebitOf, L!DebitOf, LP!TreasuryDscID, L!TreasuryDscID
<1>6. QED
  BY <1>1, <1>2, <1>3, <1>4, <1>5

\* What the log gives to an account is what module LedgerProofs counts.
LEMMA SameReplay ==
    ASSUME NEW i
    PROVE  /\ Replayed(i) = LP!Total(LP!Credits(i)) - LP!Total(LP!Debits(i))
           /\ Replayed(i)' = LP!Total(LP!Credits(i)') - LP!Total(LP!Debits(i)')
<1>1. /\ LP!Credits(i) = [n \in DOMAIN log |-> L!CreditOf(log[n], i)]
      /\ LP!Debits(i) = [n \in DOMAIN log |-> L!DebitOf(log[n], i)]
      /\ LP!Credits(i)' = [n \in DOMAIN log' |-> L!CreditOf(log'[n], i)]
      /\ LP!Debits(i)' = [n \in DOMAIN log' |-> L!DebitOf(log'[n], i)]
  BY SameLeaves DEF LP!Credits, LP!Debits
<1>2. QED
  BY <1>1, SameTotal DEF Replayed

\* It is a number, and a number of points is in a leaf.
LEMMA ReplayedInt ==
    ASSUME Inv, LeavesNatural
    PROVE  \A i \in Ids : Replayed(i) \in Int
<1>1. LP!TypeOK /\ LP!NaturalAmounts
  BY SameLeaves DEF Inv, Types, TypeOK
<1>2. \A i \in Ids : LP!Total(LP!Credits(i)) \in Nat /\ LP!Total(LP!Debits(i)) \in Nat
  BY <1>1, LedgerConstants, LP!ReplayTypes
<1>3. QED
  BY <1>2, SameReplay

\* The amounts of a well-formed payload are natural numbers.
LEMMA LeafAmounts ==
    ASSUME Inv, NEW p \in Procs, Active(p), ~ Registers(p), WellFormed(req[p])
    PROVE  /\ req[p] \in L!Tx /\ Leaf(p).tx = req[p] /\ Leaf(p).by = read[p].id
           /\ req[p].type # "rotate_key" => req[p].amount \in Nat
           /\ \A i \in Ids : L!CreditOf(Leaf(p), i) \in Nat /\ L!DebitOf(Leaf(p), i) \in Nat
<1>1. req[p] \in Request /\ req[p].type # "register"
  BY Serving DEF Inv, Registers
<1>2. req[p] \in L!Tx
  BY <1>1, RequestKinds
<1>3. req[p].type # "rotate_key" => req[p].amount \in Nat
  <2>1. req[p].type \in {"transfer", "reclaim_invalid"} => req[p].amount \in Int
    BY <1>1, RequestFields
  <2>2. req[p].type \in {"transfer", "reclaim_invalid"} => req[p].amount > 0
    BY DEF WellFormed, L!PositiveAmount
  <2>3. req[p].type = "genesis" => req[p].amount = SupplyCap
    BY DEF WellFormed
  <2>4. QED
    BY <1>1, <2>1, <2>2, <2>3, RequestKinds, LedgerAssumption
<1>4. Leaf(p).tx = req[p] /\ Leaf(p).by = read[p].id
  BY DEF Leaf
<1>5. \A i \in Ids : L!CreditOf(Leaf(p), i) \in Nat /\ L!DebitOf(Leaf(p), i) \in Nat
  BY <1>3, <1>4 DEF L!CreditOf, L!DebitOf
<1>6. QED
  BY <1>2, <1>3, <1>4, <1>5

\* What the commit of a transaction adds to a balance is an integer.
LEMMA DeltaInt ==
    ASSUME Inv, NEW p \in Procs, pc[p] \in Writes
    PROVE  \A i \in Ids : Delta(p, i) \in Int
<1>1. CASE Registers(p)
  BY <1>1 DEF Delta
<1>2. CASE ~ Registers(p)
  <2>1. Active(p) /\ WellFormed(req[p])
    BY <1>2 DEF Active, Writes, HoldsLock, Inv, Local, Decided
  <2>2. QED
    BY <1>2, <2>1, LeafAmounts DEF Delta
<1>3. QED
  BY <1>1, <1>2

\* The commit of p adds its delta.
LEMMA CommitReplays ==
    ASSUME Inv, LeavesNatural, NEW p \in Procs, Commit(p)
    PROVE  /\ LeavesNatural'
           /\ \A i \in Ids : Replayed(i)' = Replayed(i) + Delta(p, i)
<1>1. CASE Registers(p)
  <2>1. log' = log
    BY <1>1, Committing
  <2>2. \A i \in Ids : Replayed(i)' = Replayed(i) /\ Delta(p, i) = 0
    BY <1>1, <2>1 DEF Replayed, Delta
  <2>3. QED
    BY <2>1, <2>2, ReplayedInt DEF LeavesNatural
<1>2. CASE ~ Registers(p)
  <2>1. /\ pc[p] = "commit" /\ Active(p) /\ HoldsLock(p)
        /\ log' = Append(log, Leaf(p))
    BY <1>2, Committing DEF HoldsLock, Writes
  <2>2. /\ Len(log) < MaxLog /\ (log = <<>> <=> req[p].type = "genesis")
        /\ read[p].id \in Ids /\ WellFormed(req[p])
    BY <2>1 DEF Inv, Local, Decided, Writes
  <2>3. /\ req[p] \in LP!Tx
        /\ req[p].type # "rotate_key" => req[p].amount \in Nat
    BY <1>2, <2>1, <2>2, LeafAmounts, SameLeaves
  <2>4. LP!AppendLeaf(req[p], read[p].id)
    BY <2>1, <2>2 DEF LP!AppendLeaf, Leaf
  <2>5. LP!TypeOK /\ LP!NaturalAmounts
    BY SameLeaves DEF Inv, Types, TypeOK
  <2>6. ASSUME NEW i \in Ids
        PROVE  /\ LP!NaturalAmounts'
               /\ LP!Total(LP!Credits(i)') = LP!Total(LP!Credits(i)) + L!CreditOf(Leaf(p), i)
               /\ LP!Total(LP!Debits(i)') = LP!Total(LP!Debits(i)) + L!DebitOf(Leaf(p), i)
               /\ LP!Total(LP!Credits(i)) \in Nat /\ LP!Total(LP!Debits(i)) \in Nat
    <3>1. /\ LP!NaturalAmounts'
          /\ LP!Total(LP!Credits(i)') = LP!Total(LP!Credits(i)) + LP!CreditOf(Leaf(p), i)
          /\ LP!Total(LP!Debits(i)') = LP!Total(LP!Debits(i)) + LP!DebitOf(Leaf(p), i)
      BY <2>2, <2>3, <2>4, <2>5, LedgerConstants, LP!ReplayGrows DEF Leaf
    <3>2. LP!Total(LP!Credits(i)) \in Nat /\ LP!Total(LP!Debits(i)) \in Nat
      BY <2>5, LedgerConstants, LP!ReplayTypes
    <3>3. QED
      BY <3>1, <3>2, SameLeaves
  <2>7. \A i \in Ids : L!CreditOf(Leaf(p), i) \in Nat /\ L!DebitOf(Leaf(p), i) \in Nat
    BY <1>2, <2>1, <2>2, LeafAmounts
  <2>8. \A i \in Ids : Replayed(i)' = Replayed(i) + Delta(p, i)
    BY <1>2, <2>6, <2>7, SameReplay DEF Delta
  <2>9. LeavesNatural'
    BY <2>6, SameLeaves, LedgerAssumption
  <2>10. QED
    BY <2>8, <2>9
<1>3. QED
  BY <1>1, <1>2

-----------------------------------------------------------------------------
(* Steps before the commit: what p has read, and its statements, fit the log. *)

Fits(p) == Covers(p) /\ BalancesFit(p)

\* Nothing to write and nothing read.
LEMMA NothingToFit ==
    ASSUME NEW p \in Procs, todo'[p] = <<>>, pending'[p] = <<>>,
           pc'[p] \notin {"other"} \cup Writes
    PROVE  Fits(p)'
<1>1. DOMAIN <<>> = {}
  OBVIOUS
<1>2. QED
  BY <1>1 DEF Fits, Covers, BalancesFit

\* The log and what p has and plans are the same, and so they still fit.
LEMMA SameFits ==
    ASSUME NEW p \in Procs, Fits(p), log' = log, req'[p] = req[p], read'[p] = read[p],
           todo'[p] = todo[p], pending'[p] = pending[p],
           pc'[p] = pc[p] \/ (pc[p] \in Writes /\ pc'[p] \in Writes)
    PROVE  Fits(p)'
<1>1. \A i : Replayed(i)' = Replayed(i)
  BY DEF Replayed
<1>2. \A i : Delta(p, i)' = Delta(p, i)
  BY DEF Delta, Registers, Leaf
<1>3. Leaf(p)' = Leaf(p)
  BY DEF Leaf
<1>4. Covers(p)'
  <2>1. HoldsLock(p)' /\ pc'[p] \in Writes => HoldsLock(p) /\ pc[p] \in Writes
    BY DEF HoldsLock, Registers, Writes
  <2>2. QED
    BY <1>3, <2>1 DEF Fits, Covers
<1>5. pc'[p] = "other" => pc[p] = "other"
  BY DEF Writes
<1>6. BalancesFit(p)'
  BY <1>1, <1>2, <1>5 DEF Fits, BalancesFit, AtMost
<1>7. QED
  BY <1>4, <1>6 DEF Fits

\* What the leaf of a well-formed transaction adds to account i.
LEMMA DeltaOf ==
    ASSUME NEW tx \in L!Tx, NEW by \in Ids, NEW i \in Ids, NEW e, e = [tx |-> tx, by |-> by],
           WellFormed(tx), tx.type = "transfer" => by # tx.to
    PROVE  /\ tx.type = "genesis" =>
                /\ L!CreditOf(e, i) = IF i = L!TreasuryDscID THEN SupplyCap ELSE 0
                /\ L!DebitOf(e, i) = 0
           /\ tx.type = "transfer" =>
                /\ L!CreditOf(e, i) = IF i = tx.to THEN tx.amount ELSE 0
                /\ L!DebitOf(e, i) = IF i = by THEN tx.amount ELSE 0
           /\ tx.type = "reclaim_invalid" =>
                /\ L!CreditOf(e, i) = IF i = L!TreasuryDscID THEN tx.amount ELSE 0
                /\ L!DebitOf(e, i) = IF i = tx.from THEN tx.amount ELSE 0
           /\ tx.type = "rotate_key" => L!CreditOf(e, i) = 0 /\ L!DebitOf(e, i) = 0
<1>1. e.tx = tx /\ e.by = by
  OBVIOUS
<1>2. QED
  BY <1>1 DEF L!CreditOf, L!DebitOf, WellFormed

\* The signer's row is read.
LEMMA ReadSignerFits ==
    ASSUME RaceInv, NEW p \in Procs, ReadSigner(p)
    PROVE  Fits(p)'
<1> DEFINE tx == req[p]
<1>1. Inv /\ LeavesNatural /\ \A i \in Ids : AtMost(i, 0, balance[i])
  BY DEF RaceInv
<1>2. pc[p] = "signer" /\ Active(p) /\ Kinds(p) /\ Decided(p) /\ Buffers(p)
  BY <1>1 DEF ReadSigner, Active, Inv, Local
<1>3. tx \in Request /\ tx # None /\ ~ Registers(p) /\ HoldsLock(p) /\ tx \in L!Tx
  BY <1>1, <1>2, Serving, RequestKinds DEF Kinds, HoldsLock, Registers, Inv
<1>4. read[p] = [leaf |-> Len(log) + 1, id |-> None]
  BY <1>2 DEF Decided
<1>5. /\ DOMAIN read = Procs /\ DOMAIN todo = Procs /\ DOMAIN pc = Procs
      /\ \A i \in Ids : Replayed(i) \in Int /\ balance[i] \in Nat
  BY <1>1, ReplayedInt DEF Inv, Types, TypeOK, L!TypeOK
<1>6. todo[p] = <<>> /\ pending[p] = <<>> /\ DOMAIN <<>> = {}
  BY <1>2 DEF Buffers, Writes
<1>7. CASE /\ WellFormed(tx) /\ tx.type = "genesis"
           /\ read' = [read EXCEPT ![p].id = L!TreasuryDscID]
           /\ todo' = [todo EXCEPT ![p] = <<Upsert(L!TreasuryDscID, tx.to, 0, SupplyCap)>>]
           /\ Goto(p, "write")
           /\ UNCHANGED <<committed, lock, req, held, pending>>
  <2> PICK s : s = Upsert(L!TreasuryDscID, tx.to, 0, SupplyCap)
    OBVIOUS
  <2>1. /\ pc'[p] = "write" /\ req'[p] = tx /\ pending'[p] = <<>> /\ log' = log
        /\ read'[p].id = L!TreasuryDscID /\ todo'[p] = <<s>>
    BY <1>4, <1>5, <1>6, <1>7 DEF Goto, committed
  <2>2. s.op = "upsert" /\ s.id = L!TreasuryDscID /\ s.balance = SupplyCap
    BY DEF Upsert
  <2>3. DOMAIN todo'[p] = {1} /\ todo'[p][1] = s
    BY <2>1
  <2>4. \A i \in Ids : /\ L!CreditOf(Leaf(p)', i) = IF i = L!TreasuryDscID THEN SupplyCap ELSE 0
                       /\ L!DebitOf(Leaf(p)', i) = 0
    BY <1>3, <1>7, <2>1, DeltaOf, LedgerAssumption DEF Leaf
  <2>5. Covers(p)'
    BY <2>2, <2>3, <2>4 DEF Covers
  <2>6. Replayed(L!TreasuryDscID) = 0
    <3>1. log = <<>>
      BY <1>2, <1>3, <1>7 DEF Decided
    <3>2. DOMAIN log = {}
      BY <3>1
    <3> DEFINE credits == [n \in DOMAIN log |-> L!CreditOf(log[n], L!TreasuryDscID)]
               debits == [n \in DOMAIN log |-> L!DebitOf(log[n], L!TreasuryDscID)]
    <3>3. credits \in [{} -> Nat] /\ debits \in [{} -> Nat]
      BY <3>2
    <3> HIDE DEF credits, debits
    <3>4. Total(credits) = 0 /\ Total(debits) = 0
      BY <3>3, TotalZero
    <3>5. QED
      BY <3>4 DEF Replayed, credits, debits
  <2>7. Replayed(L!TreasuryDscID)' = 0
    BY <2>1, <2>6 DEF Replayed
  <2>8. Delta(p, L!TreasuryDscID)' = SupplyCap
    BY <1>3, <2>1, <2>4, LedgerAssumption DEF Delta, Registers
  <2>9. AtMost(s.id, Delta(p, s.id), s.balance)'
    BY <2>2, <2>7, <2>8, LedgerAssumption DEF AtMost
  <2>10. BalancesFit(p)'
    BY <1>6, <2>1, <2>3, <2>9 DEF BalancesFit
  <2>11. QED
    BY <2>5, <2>10 DEF Fits
<1>8. ASSUME NEW i \in Ids,
             WellFormed(tx), tx.type = "rotate_key", SignerMay(tx, i),
             read' = [read EXCEPT ![p].id = i],
             todo' = [todo EXCEPT ![p] =
                << Upsert(i, pubkey[i], tx.nonce, balance[i]),
                   [op |-> "rekey", old |-> tx.oldKey, key |-> tx.newKey] >>],
             Goto(p, "write"),
             UNCHANGED <<committed, lock, req, held, pending>>
      PROVE  Fits(p)'
  <2> PICK s, t : /\ s = Upsert(i, pubkey[i], tx.nonce, balance[i])
                  /\ t = [op |-> "rekey", old |-> tx.oldKey, key |-> tx.newKey]
    OBVIOUS
  <2>1. /\ pc'[p] = "write" /\ req'[p] = tx /\ pending'[p] = <<>> /\ log' = log
        /\ read'[p].id = i /\ todo'[p] = <<s, t>>
    BY <1>4, <1>5, <1>6, <1>8 DEF Goto, committed
  <2>2. s.op = "upsert" /\ s.id = i /\ s.balance = balance[i] /\ t.op = "rekey"
    BY DEF Upsert
  <2>3. DOMAIN todo'[p] = {1, 2} /\ todo'[p][1] = s /\ todo'[p][2] = t
    BY <2>1
  <2>4. \A j \in Ids : L!CreditOf(Leaf(p)', j) = 0 /\ L!DebitOf(Leaf(p)', j) = 0
    BY <1>3, <1>8, <2>1, DeltaOf DEF Leaf
  <2>5. Covers(p)'
    BY <2>4 DEF Covers
  <2>6. Delta(p, i)' = 0 /\ Replayed(i)' = Replayed(i)
    BY <2>1, <2>4 DEF Delta, Replayed
  <2>7. AtMost(i, 0, balance[i])
    BY <1>1
  <2>8. AtMost(s.id, Delta(p, s.id), s.balance)'
    BY <2>2, <2>6, <2>7 DEF AtMost
  <2>9. BalancesFit(p)'
    BY <1>6, <2>1, <2>2, <2>3, <2>8 DEF BalancesFit
  <2>10. QED
    BY <2>5, <2>9 DEF Fits
<1>9. ASSUME NEW i \in Ids,
             read' = [read EXCEPT ![p] =
                [leaf |-> @.leaf, id |-> i, key |-> pubkey[i], balance |-> balance[i]]],
             Goto(p, "other"),
             UNCHANGED <<committed, lock, req, todo, held, pending>>
      PROVE  Fits(p)'
  <2>1. /\ pc'[p] = "other" /\ pending'[p] = <<>> /\ todo'[p] = <<>> /\ log' = log
        /\ read'[p].id = i /\ read'[p].balance = balance[i]
    BY <1>5, <1>6, <1>9 DEF Goto, committed
  <2>2. Covers(p)'
    BY <2>1 DEF Covers, Writes
  <2>3. AtMost(i, 0, balance[i]) /\ Replayed(i)' = Replayed(i)
    BY <1>1, <2>1 DEF Replayed
  <2>4. BalancesFit(p)'
    BY <1>6, <2>1, <2>3 DEF BalancesFit, AtMost
  <2>5. QED
    BY <2>2, <2>4 DEF Fits
<1>10. CASE Rollback(p)
  BY <1>1, <1>10, Closing, NothingToFit DEF Rollback, Inv, Writes
<1>11. QED
  BY <1>7, <1>8, <1>9, <1>10, Zenon DEF ReadSigner

\* The other row is read, and both rows are written as they were read.
LEMMA ReadOtherFits ==
    ASSUME RaceInv, NEW p \in Procs, ReadOther(p)
    PROVE  Fits(p)'
<1> DEFINE tx == req[p]
           signer == read[p]
<1>1. /\ Inv /\ LeavesNatural /\ NoRowNoPoints /\ \A i \in Ids : AtMost(i, 0, balance[i])
      /\ BalancesFit(p)
  BY DEF RaceInv
<1>2. pc[p] = "other" /\ Active(p) /\ Kinds(p) /\ Decided(p) /\ Buffers(p)
  BY <1>1 DEF ReadOther, Active, Inv, Local
<1>3. /\ tx \in Request /\ tx # None /\ ~ Registers(p) /\ tx \in L!Tx
      /\ tx.type \in {"transfer", "reclaim_invalid"}
  BY <1>1, <1>2, Serving, RequestKinds DEF Kinds, Registers, Inv
<1>4. /\ signer.id \in Ids /\ signer.balance \in Nat /\ WellFormed(tx)
      /\ tx.type = "transfer" => signer.id # tx.to
      /\ tx.type = "reclaim_invalid" => signer.id = L!TreasuryDscID
  BY <1>2 DEF Decided
<1>5. /\ DOMAIN read = Procs /\ DOMAIN todo = Procs /\ DOMAIN pc = Procs
      /\ \A i \in Ids : Replayed(i) \in Int /\ balance[i] \in Nat
  BY <1>1, ReplayedInt DEF Inv, Types, TypeOK, L!TypeOK
<1>6. pending[p] = <<>> /\ DOMAIN <<>> = {}
  BY <1>2 DEF Buffers, Writes
<1>7. tx.amount \in Nat
  BY <1>1, <1>2, <1>3, <1>4, LeafAmounts
<1>8. AtMost(signer.id, 0, signer.balance)
  BY <1>1, <1>2 DEF BalancesFit
<1>9. ASSUME NEW s, NEW t, s.op = "upsert", t.op = "upsert", todo'[p] = <<s, t>>,
             pc'[p] = "write", req'[p] = tx, read'[p] = signer, pending'[p] = pending[p],
             log' = log,
             \A i \in Ids : L!CreditOf(Leaf(p), i) # 0 \/ L!DebitOf(Leaf(p), i) # 0 =>
                 i \in {s.id, t.id},
             AtMost(s.id, Delta(p, s.id), s.balance), AtMost(t.id, Delta(p, t.id), t.balance)
      PROVE  Fits(p)'
  <2>1. DOMAIN todo'[p] = {1, 2} /\ todo'[p][1] = s /\ todo'[p][2] = t
    BY <1>9
  <2>2. Leaf(p)' = Leaf(p) /\ \A i : Replayed(i)' = Replayed(i) /\ Delta(p, i)' = Delta(p, i)
    BY <1>9 DEF Leaf, Delta, Registers, Replayed
  <2>3. Covers(p)'
    BY <1>9, <2>1, <2>2 DEF Covers
  <2>4. /\ AtMost(s.id, Delta(p, s.id), s.balance)'
        /\ AtMost(t.id, Delta(p, t.id), t.balance)'
    BY <1>9, <2>2 DEF AtMost
  <2>5. BalancesFit(p)'
    BY <1>6, <1>9, <2>1, <2>4 DEF BalancesFit
  <2>6. QED
    BY <2>3, <2>5 DEF Fits
<1>10. CASE tx.type = "transfer"
  <2> PICK s, t :
        /\ s = Upsert(signer.id, signer.key, tx.nonce, signer.balance - tx.amount)
        /\ t = IF tx.to \in rows
               THEN Upsert(tx.to, pubkey[tx.to], nonce[tx.to], balance[tx.to] + tx.amount)
               ELSE Upsert(tx.to, NoKey, 0, tx.amount)
    OBVIOUS
  <2>1. /\ pc'[p] = "write" /\ req'[p] = tx /\ pending'[p] = pending[p] /\ log' = log
        /\ read'[p] = signer /\ todo'[p] = <<s, t>>
    BY <1>5, <1>10 DEF ReadOther, Goto, committed
  <2>2. tx.to \in Ids
    BY <1>3, <1>10, RequestFields
  <2>3. /\ s.op = "upsert" /\ s.id = signer.id /\ s.balance = signer.balance - tx.amount
        /\ t.op = "upsert" /\ t.id = tx.to
    BY DEF Upsert
  <2>4. t.balance = balance[tx.to] + tx.amount
    BY <1>1, <1>5, <1>7, <2>2 DEF Upsert, NoRowNoPoints
  <2>5. \A i \in Ids : /\ L!CreditOf(Leaf(p), i) = IF i = tx.to THEN tx.amount ELSE 0
                       /\ L!DebitOf(Leaf(p), i) = IF i = signer.id THEN tx.amount ELSE 0
    BY <1>3, <1>4, <1>10, DeltaOf DEF Leaf
  <2>6. Delta(p, signer.id) = 0 - tx.amount /\ Delta(p, tx.to) = tx.amount
    BY <1>3, <1>4, <1>7, <1>10, <2>2, <2>5 DEF Delta
  <2>7. AtMost(tx.to, 0, balance[tx.to])
    BY <1>1, <2>2
  <2>8. AtMost(s.id, Delta(p, s.id), s.balance)
    BY <1>4, <1>5, <1>7, <1>8, <2>3, <2>6 DEF AtMost
  <2>9. AtMost(t.id, Delta(p, t.id), t.balance)
    BY <1>5, <1>7, <2>2, <2>3, <2>4, <2>6, <2>7 DEF AtMost
  <2>10. \A i \in Ids : L!CreditOf(Leaf(p), i) # 0 \/ L!DebitOf(Leaf(p), i) # 0 =>
            i \in {s.id, t.id}
    BY <2>3, <2>5
  <2>11. s.op = "upsert" /\ t.op = "upsert"
    BY <2>3
  <2> HIDE DEF tx, signer
  <2>12. QED
    BY <1>9, <2>1, <2>8, <2>9, <2>10, <2>11
<1>11. CASE tx.type = "reclaim_invalid" /\ ReclaimableFrom(tx)
  <2> PICK s, t :
        /\ s = Upsert(tx.from, NoKey, nonce[tx.from], balance[tx.from] - tx.amount)
        /\ t = Upsert(signer.id, signer.key, tx.nonce, signer.balance + tx.amount)
    OBVIOUS
  <2>1. /\ pc'[p] = "write" /\ req'[p] = tx /\ pending'[p] = pending[p] /\ log' = log
        /\ read'[p] = signer /\ todo'[p] = <<s, t>>
    BY <1>5, <1>11 DEF ReadOther, Goto, committed
  <2>2. tx.from \in Ids /\ tx.from < L!TreasuryDscID
    BY <1>3, <1>4, <1>11, RequestFields DEF WellFormed
  <2>3. tx.from # L!TreasuryDscID
    BY <2>2, LedgerAssumption DEF L!TreasuryDscID
  <2>4. /\ s.op = "upsert" /\ s.id = tx.from /\ s.balance = balance[tx.from] - tx.amount
        /\ t.op = "upsert" /\ t.id = L!TreasuryDscID /\ t.balance = signer.balance + tx.amount
    BY <1>4, <1>11 DEF Upsert
  <2>5. \A i \in Ids : /\ L!CreditOf(Leaf(p), i) = IF i = L!TreasuryDscID THEN tx.amount ELSE 0
                       /\ L!DebitOf(Leaf(p), i) = IF i = tx.from THEN tx.amount ELSE 0
    BY <1>3, <1>4, <1>11, DeltaOf DEF Leaf
  <2>6. Delta(p, tx.from) = 0 - tx.amount /\ Delta(p, L!TreasuryDscID) = tx.amount
    BY <1>3, <1>7, <2>2, <2>3, <2>5, LedgerAssumption DEF Delta
  <2>7. AtMost(tx.from, 0, balance[tx.from]) /\ AtMost(L!TreasuryDscID, 0, signer.balance)
    BY <1>1, <1>4, <1>8, <1>11, <2>2
  <2>8. AtMost(s.id, Delta(p, s.id), s.balance)
    BY <1>5, <1>7, <2>2, <2>4, <2>6, <2>7 DEF AtMost
  <2>9. AtMost(t.id, Delta(p, t.id), t.balance)
    BY <1>4, <1>5, <1>7, <2>4, <2>6, <2>7, LedgerAssumption DEF AtMost
  <2>10. QED
    BY <1>9, <2>1, <2>4, <2>5, <2>8, <2>9
<1>12. CASE Rollback(p)
  BY <1>1, <1>12, Closing, NothingToFit DEF Rollback, Inv, Writes
<1>13. QED
  BY <1>10, <1>11, <1>12 DEF ReadOther

\* A registration writes no points: the row it creates has none.
LEMMA ReadRegistrantFits ==
    ASSUME RaceInv, NEW p \in Procs, ReadRegistrant(p)
    PROVE  Fits(p)'
<1> DEFINE r == req[p]
<1>1. Inv /\ LeavesNatural /\ \A i \in Ids : AtMost(i, 0, balance[i])
  BY DEF RaceInv
<1>2. pc[p] = "registrant" /\ Active(p) /\ Kinds(p) /\ Buffers(p)
  BY <1>1 DEF ReadRegistrant, Active, Inv, Local
<1>3. Registers(p) /\ r \in Request /\ r \in Work[p] /\ r \in Registration
  BY <1>1, <1>2, Serving, RequestKinds DEF Kinds, Inv, Registers
<1>4. r.id \in Ids /\ r.id \in Registrants
  BY <1>3 DEF Registration, Registrants
<1>5. Replayed(r.id) \in Int /\ 0 <= Replayed(r.id)
  <2>1. Replayed(r.id) \in Int /\ balance[r.id] \in Nat /\ AtMost(r.id, 0, balance[r.id])
    BY <1>1, <1>4, ReplayedInt DEF Inv, Types, TypeOK, L!TypeOK
  <2>2. QED
    BY <2>1 DEF AtMost
<1>6. CASE Rollback(p)
  BY <1>1, <1>6, Closing, NothingToFit DEF Rollback, Inv, Writes
<1>7. CASE ~ Rollback(p)
  <2> PICK s : s = IF r.id \in rows THEN [op |-> "attach", id |-> r.id, key |-> r.key]
                   ELSE Upsert(r.id, r.key, 0, 0)
    OBVIOUS
  <2>1. /\ pc'[p] = "write" /\ req'[p] = r /\ pending'[p] = pending[p] /\ log' = log
        /\ todo'[p] = <<s>>
    BY <1>1, <1>7 DEF ReadRegistrant, Goto, committed, Inv, Types, TypeOK
  <2>2. s.op = "upsert" => s.id = r.id /\ s.balance = 0
    BY DEF Upsert
  <2>3. DOMAIN todo'[p] = {1} /\ todo'[p][1] = s /\ pending[p] = <<>> /\ DOMAIN <<>> = {}
    BY <1>2, <2>1 DEF Buffers, Writes
  <2>4. Registers(p)' /\ Replayed(r.id)' = Replayed(r.id) /\ req'[p].id = r.id
    BY <1>3, <2>1 DEF Registers, Replayed
  <2>5. Covers(p)'
    BY <2>4 DEF Covers, HoldsLock
  <2>6. \A i : Delta(p, i)' = 0
    BY <2>4 DEF Delta
  <2>7. PICK i \in Ids : i = r.id
    BY <1>4
  <2>8. Replayed(i)' = Replayed(i)
    BY <2>1 DEF Replayed
  <2>9. AtMost(i, Delta(p, i), 0)'
    BY <1>4, <1>5, <2>6, <2>7, <2>8 DEF AtMost
  <2>10. BalancesFit(p)'
    BY <2>1, <2>2, <2>3, <2>7, <2>9 DEF BalancesFit
  <2>11. QED
    BY <2>5, <2>10 DEF Fits
<1>8. QED
  BY <1>6, <1>7

\* A statement is sent: its balance goes to the rows written; a statement that
\* sets a key leaves the balance that the row has.
LEMMA WriteFits ==
    ASSUME RaceInv, NEW p \in Procs, Write(p)
    PROVE  Fits(p)'
<1>1. Inv /\ LeavesNatural /\ Covers(p) /\ BalancesFit(p) /\ \A i \in Ids : AtMost(i, 0, balance[i])
  BY DEF RaceInv
<1>2. CASE Rollback(p)
  BY <1>1, <1>2, Closing, NothingToFit DEF Rollback, Inv, Writes
<1>3. CASE ~ Rollback(p)
  <2>1. pc[p] = "write" /\ Active(p) /\ Local(p)
    BY <1>1 DEF Write, Active, Inv
  <2> PICK s, i, row : s = Head(todo[p]) /\ i = Target(p, s) /\ row = NewRow(p, s)
    OBVIOUS
  <2>2. /\ todo[p] \in Seq(Stmt) /\ todo[p] # <<>> /\ s \in Stmt
        /\ i \in Ids /\ row \in Row /\ DOMAIN pending[p] \subseteq Ids
    BY <1>1, <2>1, RowWritten DEF Inv, Types, TypeOK
  <2>3. /\ Len(todo[p]) \in Nat /\ DOMAIN todo[p] = 1 .. Len(todo[p]) /\ 1 \in DOMAIN todo[p]
        /\ s = todo[p][1] /\ DOMAIN Tail(todo[p]) = 1 .. Len(todo[p]) - 1
        /\ \A n \in DOMAIN Tail(todo[p]) :
              n + 1 \in DOMAIN todo[p] /\ Tail(todo[p])[n] = todo[p][n + 1]
    BY <2>2, FirstStatement
  <2>4. /\ todo'[p] = Tail(todo[p]) /\ req'[p] = req[p] /\ read'[p] = read[p]
        /\ pc'[p] \in Writes /\ pc'[p] # "other" /\ pc[p] \in Writes /\ log' = log
        /\ pending'[p] = [j \in DOMAIN pending[p] \cup {i} |-> IF j = i THEN row ELSE pending[p][j]]
    <3>1. /\ todo'[p] = Tail(todo[p]) /\ req'[p] = req[p] /\ read'[p] = read[p] /\ log' = log
          /\ pc'[p] = IF Len(todo[p]) > 1 THEN "write"
                      ELSE IF req[p].type = "register" THEN "commit" ELSE "insert"
      BY <1>1, <1>3 DEF Write, Goto, committed, Inv, Types, TypeOK
    <3>2. pending'[p] = [j \in DOMAIN pending[p] \cup {i} |-> IF j = i THEN row ELSE pending[p][j]]
      <4>1. pending' = [pending EXCEPT ![p] =
                [j \in DOMAIN pending[p] \cup {i} |-> IF j = i THEN row ELSE pending[p][j]]]
        BY <1>3 DEF Write
      <4>2. DOMAIN pending = Procs
        BY <1>1 DEF Inv, Types
      <4>3. QED
        BY <4>1, <4>2
    <3>3. QED
      BY <2>1, <3>1, <3>2 DEF Writes
  <2>5. /\ DOMAIN pending'[p] = DOMAIN pending[p] \cup {i} /\ pending'[p][i] = row
        /\ \A j \in DOMAIN pending[p] : j # i => pending'[p][j] = pending[p][j]
    BY <2>4
  <2>6. Leaf(p)' = Leaf(p) /\ \A j : Replayed(j)' = Replayed(j) /\ Delta(p, j)' = Delta(p, j)
    BY <2>4 DEF Leaf, Delta, Registers, Replayed
  <2>7. Covers(p)'
    <3>1. HoldsLock(p)' => HoldsLock(p)
      BY <2>4 DEF HoldsLock, Registers, Writes
    <3>2. ASSUME NEW j \in Ids, NEW n \in DOMAIN todo[p],
                 todo[p][n].op = "upsert", todo[p][n].id = j
          PROVE  \/ j \in DOMAIN pending'[p]
                 \/ \E m \in DOMAIN todo'[p] : todo'[p][m].op = "upsert" /\ todo'[p][m].id = j
      <4>1. CASE n = 1
        <5>1. i = j
          BY <2>3, <3>2, <4>1 DEF Target
        <5>2. QED
          BY <2>5, <5>1
      <4>2. CASE n # 1
        <5>1. n - 1 \in DOMAIN todo'[p] /\ n - 1 + 1 = n
          BY <2>3, <2>4, <4>2
        <5>2. todo'[p][n - 1] = todo[p][n]
          BY <2>3, <2>4, <5>1
        <5>3. QED
          BY <3>2, <5>1, <5>2
      <4>3. QED
        BY <4>1, <4>2
    <3>3. QED
      BY <1>1, <2>4, <2>5, <2>6, <3>1, <3>2 DEF Covers
  <2>8. AtMost(i, Delta(p, i), row.balance)
    <3>1. CASE s.op = "upsert"
      <4>1. i = s.id /\ row.balance = s.balance
        BY <3>1 DEF Target, NewRow
      <4>2. QED
        BY <1>1, <2>3, <3>1, <4>1 DEF BalancesFit
    <3>2. CASE s.op # "upsert"
      <4>1. s.op \in {"rekey", "attach"} /\ row = [RowOf(p, i) EXCEPT !.pubkey = s.key]
        BY <2>2, <3>2 DEF NewRow, Stmt, UpsertStmt, RekeyStmt, AttachStmt
      <4>2. i \in DOMAIN pending[p] \cup rows /\ RowOf(p, i) \in Row
        <5>1. RowOf(p, i) # None
          <6>1. CASE s.op = "attach"
            <7>1. Registers(p) /\ s \in AttachStmt
              BY <2>1, <2>2, <2>3, <6>1 DEF Local, Rekeys, Stmt, UpsertStmt, RekeyStmt, AttachStmt
            <7>2. s.id = req[p].id /\ req[p].id \in rows /\ i = s.id
              BY <2>1, <2>3, <6>1, <7>1 DEF Local, OneWrite, Target
            <7>3. QED
              BY <1>1, <2>2, <7>2, RowSeen DEF Inv
          <6>2. CASE s.op = "rekey"
            <7>1. s \in RekeyStmt /\ s.old # NoKey
              BY <2>2, <6>2, LedgerAssumption DEF Stmt, UpsertStmt, RekeyStmt, AttachStmt
            <7>2. PICK j \in DOMAIN pending[p] : pending[p][j].pubkey = s.old
              BY <2>1, <2>3, <6>2 DEF Local, Rekeys
            <7>3. j \in Ids /\ KeyOf(p, j) = s.old
              BY <1>1, <2>2, <7>2, RowSeen DEF Inv, KeyOf
            <7>4. KeyOf(p, i) = s.old
              BY <6>2, <7>3 DEF Target
            <7>5. QED
              BY <7>1, <7>4 DEF KeyOf
          <6>3. QED
            BY <4>1, <6>1, <6>2
        <5>2. QED
          BY <1>1, <2>2, <5>1, RowSeen DEF Inv
      <4>3. row.balance = RowOf(p, i).balance
        BY <4>1, <4>2 DEF Row
      <4>4. CASE i \in DOMAIN pending[p]
        BY <1>1, <2>2, <4>3, <4>4, RowSeen DEF BalancesFit, Inv
      <4>5. CASE i \notin DOMAIN pending[p]
        <5>1. row.balance = balance[i]
          BY <1>1, <2>2, <4>2, <4>3, <4>5, RowSeen DEF Inv
        <5>2. Delta(p, i) = 0
          <6>1. CASE Registers(p)
            BY <6>1 DEF Delta
          <6>2. CASE ~ Registers(p)
            <7>1. s.op = "rekey" /\ req[p].type = "rotate_key"
              BY <2>1, <2>3, <4>1, <6>2 DEF Local, Rekeys
            <7>2. WellFormed(req[p]) /\ read[p].id \in Ids
              BY <2>1, <2>4, <6>2 DEF Local, Decided, HoldsLock
            <7>3. L!CreditOf(Leaf(p), i) = 0 /\ L!DebitOf(Leaf(p), i) = 0
              BY <7>1 DEF Leaf, L!CreditOf, L!DebitOf
            <7>4. QED
              BY <6>2, <7>3 DEF Delta
          <6>3. QED
            BY <6>1, <6>2
        <5>3. QED
          BY <1>1, <2>2, <5>1, <5>2
      <4>6. QED
        BY <4>4, <4>5
    <3>3. QED
      BY <3>1, <3>2
  <2>9. \A j \in DOMAIN pending'[p] : AtMost(j, Delta(p, j), pending'[p][j].balance)
    BY <1>1, <2>5, <2>8 DEF BalancesFit
  <2>10. \A n \in DOMAIN todo'[p] : todo'[p][n].op = "upsert" =>
            AtMost(todo'[p][n].id, Delta(p, todo'[p][n].id), todo'[p][n].balance)
    BY <1>1, <2>3, <2>4 DEF BalancesFit
  <2>11. \A j, b : AtMost(j, Delta(p, j), b)' <=> AtMost(j, Delta(p, j), b)
    BY <2>6 DEF AtMost
  <2>12. BalancesFit(p)'
    BY <2>4, <2>9, <2>10, <2>11 DEF BalancesFit
  <2>13. QED
    BY <2>7, <2>12 DEF Fits
<1>4. QED
  BY <1>2, <1>3

\* Every step of p that is no commit leaves what p has read and plans in step
\* with the log.
LEMMA StepFits ==
    ASSUME RaceInv, NEW p \in Procs, StepOf(p)
    PROVE  Fits(p)'
<1>1. Inv /\ Fits(p) /\ Buffers(p) /\ DOMAIN pc = Procs
  BY DEF RaceInv, Fits, Inv, Local, Types, TypeOK
<1>2. ASSUME Close(p)
      PROVE  Fits(p)'
  BY <1>1, <1>2, Closing, NothingToFit DEF Inv, Writes
<1>3. CASE Begin(p)
  <2>1. todo'[p] = <<>> /\ pending'[p] = <<>> /\ pc'[p] \in {"registrant", "lock"}
    BY <1>1, <1>3 DEF Begin, Goto, Buffers, Writes
  <2>2. QED
    BY <2>1, NothingToFit DEF Writes
<1>4. CASE LockLedger(p)
  <2>1. todo'[p] = <<>> /\ pending'[p] = <<>> /\ pc'[p] = "last"
    BY <1>1, <1>4 DEF LockLedger, Goto, Buffers, Writes
  <2>2. QED
    BY <2>1, NothingToFit DEF Writes
<1>5. CASE LastTx(p) /\ ~ Close(p)
  <2>1. todo'[p] = <<>> /\ pending'[p] = <<>> /\ pc'[p] = "signer"
    BY <1>1, <1>5 DEF LastTx, Rollback, Goto, Buffers, Writes
  <2>2. QED
    BY <2>1, NothingToFit DEF Writes
<1>6. CASE (InsertTx(p) \/ CheckSupply(p)) /\ ~ Close(p)
  <2>1. /\ log' = log /\ req' = req /\ read' = read /\ todo' = todo /\ pending' = pending
        /\ pc[p] \in Writes /\ pc'[p] \in Writes
    BY <1>1, <1>6 DEF InsertTx, CheckSupply, Rollback, Goto, committed, Writes
  <2>2. QED
    BY <1>1, <2>1, SameFits
<1>7. CASE TakeRow(p)
  BY <1>1, <1>7, SameFits DEF TakeRow, committed
<1>8. QED
  BY <1>2, <1>3, <1>4, <1>5, <1>6, <1>7, ReadSignerFits, ReadOtherFits, ReadRegistrantFits,
     WriteFits
     DEF StepOf, Step, Commit, Abort, Victim, Rollback

\* A step that is no commit keeps the invariant.
LEMMA QuietRace ==
    ASSUME RaceInv, NEW p \in Procs, StepOf(p), ~ Commit(p)
    PROVE  RaceInv'
<1>1. rows' = rows /\ balance' = balance /\ log' = log
  BY OnlyCommitsWrite DEF committed
<1>2. Inv'
  BY InvStep DEF RaceInv, Next, StepOf
<1>3. \A i : Replayed(i)' = Replayed(i)
  BY <1>1 DEF Replayed
<1>4. LeavesNatural' /\ NoRowNoPoints' /\ \A i \in Ids : AtMost(i, 0, balance[i])'
  BY <1>1, <1>3 DEF RaceInv, LeavesNatural, NoRowNoPoints, AtMost
<1>5. ASSUME NEW q \in Procs
      PROVE  Fits(q)'
  <2>1. CASE q = p
    BY <2>1, StepFits
  <2>2. CASE q # p
    <3>1. Fits(q)
      BY DEF RaceInv, Fits
    <3>2. /\ pc'[q] = pc[q] /\ req'[q] = req[q] /\ read'[q] = read[q]
          /\ todo'[q] = todo[q] /\ pending'[q] = pending[q]
      BY <2>2, OthersUntouched DEF RaceInv, Inv
    <3>3. QED
      BY <1>1, <3>1, <3>2, SameFits
  <2>3. QED
    BY <2>1, <2>2
<1>6. QED
  BY <1>2, <1>4, <1>5 DEF RaceInv, Fits

\* A commit changes the balances of the rows it has written to what the log then
\* gives, or less if they register, and no other balance is touched by its leaf.
LEMMA CommitRace ==
    ASSUME RaceInv, NEW p \in Procs, Commit(p)
    PROVE  RaceInv'
<1>1. Inv /\ LeavesNatural /\ NoRowNoPoints /\ Covers(p) /\ BalancesFit(p)
  BY DEF RaceInv
<1>2. StepOf(p)
  BY DEF StepOf, Step
<1>3. Inv'
  BY <1>1, <1>2, InvStep DEF Next, StepOf
<1>4. pc[p] = "commit" /\ pc[p] \in Writes
  BY DEF Commit, Writes
<1>5. LeavesNatural' /\ \A i \in Ids : Replayed(i)' = Replayed(i) + Delta(p, i)
  BY <1>1, CommitReplays
<1>6. \A i \in Ids : /\ Replayed(i) \in Int /\ Delta(p, i) \in Int /\ Replayed(i)' \in Int
                     /\ balance[i] \in Nat /\ balance'[i] \in Nat
  <2>1. \A i \in Ids : Replayed(i) \in Int /\ Delta(p, i) \in Int
    BY <1>1, <1>4, ReplayedInt, DeltaInt
  <2>2. \A i \in Ids : Replayed(i)' \in Int
    BY <1>5, <2>1
  <2>3. balance \in [Ids -> Nat] /\ balance' \in [Ids -> Nat]
    BY <1>1, <1>3 DEF Inv, Types, TypeOK, L!TypeOK
  <2>4. QED
    BY <2>1, <2>2, <2>3
<1>7. \A i \in Ids \ DOMAIN pending[p] : Delta(p, i) = 0
  <2>1. CASE Registers(p)
    BY <2>1 DEF Delta
  <2>2. CASE ~ Registers(p)
    <3>1. HoldsLock(p) /\ todo[p] = <<>> /\ DOMAIN <<>> = {}
      BY <1>1, <1>4, <2>2 DEF HoldsLock, Writes, Inv, Local, Buffers
    <3>2. \A i \in Ids \ DOMAIN pending[p] : L!CreditOf(Leaf(p), i) = 0 /\ L!DebitOf(Leaf(p), i) = 0
      BY <1>1, <1>4, <3>1 DEF Covers
    <3>3. QED
      BY <2>2, <3>2 DEF Delta
  <2>3. QED
    BY <2>1, <2>2
<1>8. \A i \in Ids : AtMost(i, 0, balance[i])'
  <2> SUFFICES ASSUME NEW i \in Ids
               PROVE  AtMost(i, 0, balance[i])'
    OBVIOUS
  <2>1. CASE i \in DOMAIN pending[p]
    <3>1. AtMost(i, Delta(p, i), pending[p][i].balance) /\ balance'[i] = pending[p][i].balance
      BY <1>1, <2>1, Committing DEF BalancesFit
    <3>2. QED
      BY <1>5, <1>6, <3>1 DEF AtMost
  <2>2. CASE i \notin DOMAIN pending[p]
    <3>1. AtMost(i, 0, balance[i]) /\ balance'[i] = balance[i] /\ Delta(p, i) = 0
      BY <1>1, <1>7, <2>2, Committing DEF RaceInv
    <3>2. QED
      BY <1>5, <1>6, <3>1 DEF AtMost
  <2>3. QED
    BY <2>1, <2>2
<1>9. NoRowNoPoints'
  BY <1>1, Committing DEF NoRowNoPoints
<1>10. ASSUME NEW q \in Procs
       PROVE  Fits(q)'
  <2>1. CASE q = p
    BY <1>2, <2>1, StepFits
  <2>2. CASE q # p
    <3>1. /\ pc'[q] = pc[q] /\ req'[q] = req[q] /\ read'[q] = read[q]
          /\ todo'[q] = todo[q] /\ pending'[q] = pending[q]
      BY <1>1, <1>2, <2>2, OthersUntouched DEF Inv
    <3>2. Fits(q) /\ Local(q)
      BY DEF RaceInv, Fits, Inv
    <3>3. CASE Registers(p)
      <4>1. log' = log
        BY <1>1, <3>3, Committing
      <4>2. QED
        BY <3>1, <3>2, <4>1, SameFits
    <3>4. CASE ~ Registers(p) /\ ~ Registers(q)
      \* The lock is p's: q has not read anything yet.
      <4>1. ~ HoldsLock(q)
        BY <1>1, <1>4, <2>2, <3>4 DEF HoldsLock, Inv, LockHeld
      <4>2. pc[q] \notin {"other"} \cup Writes
        BY <3>4, <4>1 DEF HoldsLock
      <4>3. todo[q] = <<>> /\ pending[q] = <<>>
        BY <3>2, <4>2 DEF Local, Buffers, Writes
      <4>4. QED
        BY <3>1, <4>2, <4>3, NothingToFit
    <3>5. CASE ~ Registers(p) /\ Registers(q)
      <4>1. Registers(q)' /\ \A i : Delta(q, i) = 0 /\ Delta(q, i)' = 0
        BY <3>1, <3>5 DEF Registers, Delta
      <4>2. Covers(q)'
        BY <4>1 DEF Covers, HoldsLock
      <4>3. pc[q] # "other"
        BY <3>2, <3>5 DEF Local, Kinds
      <4>4. ASSUME NEW i \in DOMAIN pending[q]
            PROVE  AtMost(i, Delta(q, i), pending[q][i].balance)'
        <5>1. i \in Ids \ DOMAIN pending[p]
          BY <1>1, <2>2, WritesApart DEF Inv, Types, TypeOK
        <5>2. Replayed(i)' = Replayed(i)
          BY <1>5, <1>6, <1>7, <5>1
        <5>3. AtMost(i, Delta(q, i), pending[q][i].balance)
          BY <3>2 DEF Fits, BalancesFit
        <5>4. QED
          BY <3>1, <4>1, <5>2, <5>3 DEF AtMost
      <4>5. ASSUME NEW n \in DOMAIN todo[q], todo[q][n].op = "upsert"
            PROVE  AtMost(todo[q][n].id, Delta(q, todo[q][n].id), todo[q][n].balance)'
        <5>1. PICK i : i = req[q].id
          OBVIOUS
        <5>2. req[q] \in Registration /\ req[q] \in Work[q]
          BY <1>1, <3>5, Serving, RequestKinds DEF Registers, Inv, Types, TypeOK
        <5>3. i \in Ids /\ i \in Registrants
          BY <5>1, <5>2 DEF Registration, Registrants
        <5>4. /\ pc[q] = "write" /\ todo[q] \in Seq(Stmt) /\ Len(todo[q]) = 1
              /\ todo[q][1] \in UpsertStmt \cup AttachStmt /\ todo[q][1].id = i
              /\ todo[q][1] \in UpsertStmt => todo[q][1].balance = 0
          <6>1. todo[q] # <<>> /\ todo[q] \in Seq(Stmt)
            BY <1>1 DEF Inv, Types
          <6>2. pc[q] = "write"
            BY <3>2, <6>1 DEF Local, Buffers
          <6>3. QED
            BY <3>2, <3>5, <5>1, <6>1, <6>2 DEF Local, OneWrite
        <5>5. n = 1
          BY <5>4, LenProperties
        <5>6. todo[q][n].id = i /\ todo[q][n].balance = 0
          BY <4>5, <5>4, <5>5 DEF UpsertStmt, AttachStmt
        <5>7. 0 <= Replayed(i)'
          <6>1. AtMost(i, 0, balance[i])'
            BY <1>8, <5>3
          <6>2. QED
            BY <1>6, <5>3, <6>1 DEF AtMost
        <5>8. QED
          BY <1>6, <3>1, <4>1, <5>3, <5>6, <5>7 DEF AtMost
      <4>6. BalancesFit(q)'
        BY <3>1, <4>3, <4>4, <4>5 DEF BalancesFit
      <4>7. QED
        BY <4>2, <4>6 DEF Fits
    <3>6. QED
      BY <3>3, <3>4, <3>5
  <2>3. QED
    BY <2>1, <2>2
<1>11. QED
  BY <1>3, <1>5, <1>8, <1>9, <1>10 DEF RaceInv, Fits

\* The invariant at the start: the balances are what the log replays to.
LEMMA RaceInit ==
    ASSUME Init
    PROVE  RaceInv
<1>1. Inv
  BY InvInit
<1>2. LP!Init
  BY DEF Init, LP!Init, L!Init, LP!InitEmpty, L!InitEmpty, LP!InitLegacy, L!InitLegacy,
     LP!TreasuryDscID, L!TreasuryDscID
<1>3. LP!NaturalAmounts /\ LP!BalancesReplayLog
  BY <1>2, LedgerConstants, LP!InitReplays DEF LP!Replays
<1>4. LeavesNatural
  BY <1>3, SameLeaves
<1>5. \A i \in Ids : balance[i] = LP!Total(LP!Credits(i)) - LP!Total(LP!Debits(i))
  BY <1>3, LedgerConstants, LP!ReplayMeaning
<1>6. \A i \in Ids : balance[i] = Replayed(i)
  BY <1>5, SameReplay
<1>7. \A i \in Ids : AtMost(i, 0, balance[i])
  BY <1>1, <1>4, <1>6, ReplayedInt DEF AtMost
<1>8. NoRowNoPoints
  <2>1. CASE L!InitEmpty
    BY <2>1 DEF L!InitEmpty, NoRowNoPoints
  <2>2. CASE L!InitLegacy
    <3>1. PICK v \in Ids, a \in Amounts \cap (1 .. SupplyCap) :
              /\ rows = {L!TreasuryDscID, v}
              /\ balance = [i \in Ids |-> CASE i = L!TreasuryDscID -> SupplyCap - a
                                            [] i = v -> a
                                            [] OTHER -> 0]
      BY <2>2 DEF L!InitLegacy
    <3>2. QED
      BY <3>1 DEF NoRowNoPoints
  <2>3. QED
    BY <2>1, <2>2 DEF Init, L!Init
<1>9. ASSUME NEW p \in Procs
      PROVE  Covers(p) /\ BalancesFit(p)
  <2>1. pc[p] = "idle" /\ todo[p] = <<>> /\ pending[p] = <<>> /\ DOMAIN <<>> = {}
    BY DEF Init
  <2>2. QED
    BY <2>1 DEF Covers, BalancesFit, Writes
<1>10. QED
  BY <1>1, <1>4, <1>7, <1>8, <1>9 DEF RaceInv

\* A step that changes nothing keeps the invariant.
LEMMA RaceStutters ==
    ASSUME RaceInv, UNCHANGED vars
    PROVE  RaceInv'
<1>1. Inv'
  BY InvStep DEF RaceInv
<1>2. \A i : Replayed(i)' = Replayed(i)
  BY DEF vars, Replayed
<1>3. LeavesNatural' /\ NoRowNoPoints' /\ \A i \in Ids : AtMost(i, 0, balance[i])'
  BY <1>2 DEF RaceInv, vars, LeavesNatural, NoRowNoPoints, AtMost
<1>4. ASSUME NEW q \in Procs
      PROVE  Fits(q)'
  <2>1. Fits(q)
    BY DEF RaceInv, Fits
  <2>2. /\ pc'[q] = pc[q] /\ req'[q] = req[q] /\ read'[q] = read[q]
        /\ todo'[q] = todo[q] /\ pending'[q] = pending[q] /\ log' = log
    BY DEF vars
  <2>3. QED
    BY <2>1, <2>2, SameFits
<1>5. QED
  BY <1>1, <1>3, <1>4 DEF RaceInv, Fits

\* Whatever registrations overlap with each other and with the transactions of
\* Apply, an account that never registers has the balance that the log gives it,
\* and a registrant never more: the upsert of a late registration may reset a
\* balance to zero (pgstore.go, UpsertAccount), but no points appear.
THEOREM OverlapsOnlyLose == Spec => []RacesOnlyLose
<1>1. Init => RaceInv
  BY RaceInit
<1>2. RaceInv /\ [Next]_vars => RaceInv'
  <2> SUFFICES ASSUME RaceInv, [Next]_vars
               PROVE  RaceInv'
    OBVIOUS
  <2>1. CASE UNCHANGED vars
    BY <2>1, RaceStutters
  <2>2. CASE Next
    BY <2>2, QuietRace, CommitRace DEF Next, StepOf
  <2>3. QED
    BY <2>1, <2>2
<1>3. RaceInv => RacesOnlyLose
  <2> SUFFICES ASSUME RaceInv, NEW i \in Ids
               PROVE  /\ balance[i] <= Replayed(i)
                      /\ i \notin Registrants => balance[i] = Replayed(i)
    BY DEF RacesOnlyLose, Replayed
  <2>1. AtMost(i, 0, balance[i]) /\ Replayed(i) \in Int
    BY ReplayedInt DEF RaceInv
  <2>2. QED
    BY <2>1 DEF AtMost
<1>4. QED
  BY <1>1, <1>2, <1>3, PTL DEF Spec

-----------------------------------------------------------------------------
(* The atomic ledger: an invariant of the runs in which no registration was  *)
(* committed over a row that it had not seen.                               *)

\* An id without a row has none of the columns' values, and the treasury has no row
\* before the genesis.
Absent ==
    /\ \A i \in Ids \ rows : pubkey[i] = NoKey /\ nonce[i] = 0 /\ balance[i] = 0
    /\ log = <<>> => L!TreasuryDscID \notin rows

\* A registration has written its key into the row that it has locked, or into a new
\* one, with nothing else in it.
Enrolled(p) ==
    Registers(p) /\ pc[p] \in Writes =>
        /\ Attaches(p) \/ Creates(p)
        /\ Attaches(p) => req[p].id \in rows
        /\ \A i \in DOMAIN pending[p] :
              /\ i = req[p].id
              /\ pending[p][i] = [pubkey |-> req[p].key,
                                  nonce |-> IF Attaches(p) THEN nonce[i] ELSE 0,
                                  balance |-> IF Attaches(p) THEN balance[i] ELSE 0]

\* What the holder of the lock has read of the accounts is still so.
StillMay(p) ==
    /\ pc[p] = "other" => /\ SignerMay(req[p], read[p].id)
                          /\ read[p].key = pubkey[read[p].id]
                          /\ read[p].balance = balance[read[p].id]
    /\ HoldsLock(p) /\ pc[p] \in Writes =>
          /\ req[p].type = "genesis" => read[p].id = L!TreasuryDscID
          /\ req[p].type # "genesis" => SignerMay(req[p], read[p].id)
          /\ req[p].type = "reclaim_invalid" => ReclaimableFrom(req[p])

\* The rows that p writes, and what the atomic action would make of row i.
Written(p) ==
    CASE req[p].type = "transfer" -> {read[p].id, req[p].to}
      [] req[p].type = "reclaim_invalid" -> {req[p].from, read[p].id}
      [] OTHER -> {read[p].id}

NewKey(p, i) ==
    CASE req[p].type = "genesis" -> req[p].to
      [] req[p].type = "rotate_key" -> req[p].newKey
      [] OTHER -> pubkey[i]

NewNonce(p, i) ==
    IF req[p].type \in {"transfer", "rotate_key", "reclaim_invalid"} /\ i = read[p].id
    THEN req[p].nonce ELSE nonce[i]

NewBalance(p, i) == balance[i] + Delta(p, i)

\* The statement that sets the new key is still to be sent.
RekeyAhead(p) == \E n \in DOMAIN todo[p] : todo[p][n].op = "rekey"

\* Statement s is one of the atomic action.
Planned(p, s) ==
    /\ s.op = "upsert" =>
          /\ s.nonce = NewNonce(p, s.id) /\ s.balance = NewBalance(p, s.id)
          /\ req[p].type = "genesis" => s.key = req[p].to
          /\ req[p].type = "rotate_key" => s.key = pubkey[s.id] /\ RekeyAhead(p)
          /\ s.key \in {NoKey, pubkey[s.id]} \/ req[p].type = "genesis"
    /\ s.op = "rekey" => s.old = req[p].oldKey /\ s.key = req[p].newKey

RowPlanned(p, i) == [pubkey |-> IF RekeyAhead(p) THEN pubkey[i] ELSE NewKey(p, i),
                     nonce |-> NewNonce(p, i), balance |-> NewBalance(p, i)]

\* The rows that p still has to write are those of the atomic action that it has
\* not written yet.
Upserted(p) == {todo[p][n].id : n \in {m \in DOMAIN todo[p] : todo[p][m].op # "rekey"}}

\* A rotation sets the new key last.
RekeyLast(p) ==
    req[p].type = "rotate_key" =>
        \A n \in DOMAIN todo[p] : todo[p][n].op = "upsert" => n = 1

\* The statements still to send and the rows written are those of the atomic
\* action.
AsPlanned(p) ==
    HoldsLock(p) /\ pc[p] \in Writes =>
        /\ RekeyLast(p)
        /\ Written(p) = DOMAIN pending[p] \cup Upserted(p)
        /\ \A n \in DOMAIN todo[p] : Planned(p, todo[p][n])
        /\ \A i \in DOMAIN pending[p] : pending[p][i] = RowPlanned(p, i)

\* The sum that a genesis or a reclaim has checked is still the sum.
SupplySeen(p) ==
    pc[p] = "commit" /\ requiresFullSupplyCheck(req[p]) => TotalSeenBy(p) = SupplyCap

\* A key that a transaction has written is on no other row, committed or not.
KeyAlone(p, i, k) ==
    k # NoKey =>
        /\ \A j \in Ids \ {i} : pubkey[j] # k
        /\ \A q \in Procs \ {p} : \A j \in DOMAIN pending[q] : pending[q][j].pubkey # k

KeysApart == \A p \in Procs : \A i \in DOMAIN pending[p] : KeyAlone(p, i, pending[p][i].pubkey)

Own(p) == Enrolled(p) /\ StillMay(p) /\ AsPlanned(p) /\ SupplySeen(p)

OrderlyInv ==
    /\ Inv /\ L!OneHolderPerKey /\ Absent /\ KeysApart
    /\ \A p \in Procs : Own(p)

-----------------------------------------------------------------------------
(* Facts about the parts of the invariant.                                  *)

\* What concerns p is as before if neither p nor the tables change.
LEMMA SameOwn ==
    ASSUME NEW p \in Procs, Own(p), UNCHANGED committed,
           req'[p] = req[p], read'[p] = read[p], todo'[p] = todo[p], pending'[p] = pending[p],
           \/ pc'[p] = pc[p]
           \/ pc[p] \in Writes /\ pc'[p] \in Writes /\ pc'[p] # "commit"
    PROVE  Own(p)'
<1>1. /\ rows' = rows /\ pubkey' = pubkey /\ nonce' = nonce /\ balance' = balance /\ log' = log
  BY DEF committed
<1>2. Registers(p)' <=> Registers(p)
  BY DEF Registers
<1>3. Enrolled(p)'
  <2>1. (Attaches(p)' <=> Attaches(p)) /\ (Creates(p)' <=> Creates(p))
    BY DEF Attaches, Creates
  <2>2. pc'[p] \in Writes => pc[p] \in Writes
    BY DEF Writes
  <2>3. QED
    BY <1>1, <1>2, <2>1, <2>2 DEF Own, Enrolled
<1>4. StillMay(p)'
  <2>1. \A tx, i : SignerMay(tx, i)' <=> SignerMay(tx, i)
    BY <1>1 DEF SignerMay, L!HoldsKey, L!NextNonce, L!NotSelf, L!HasFunds, L!TreasuryDscID
  <2>2. \A tx : ReclaimableFrom(tx)' <=> ReclaimableFrom(tx)
    BY <1>1 DEF ReclaimableFrom, L!NotActivated, L!HasFunds
  <2>3. pc'[p] = "other" => pc[p] = "other"
    BY DEF Writes
  <2>4. HoldsLock(p)' /\ pc'[p] \in Writes => HoldsLock(p) /\ pc[p] \in Writes
    BY <1>2 DEF HoldsLock
  <2>5. QED
    BY <1>1, <2>1, <2>2, <2>3, <2>4 DEF Own, StillMay, L!TreasuryDscID
<1>5. AsPlanned(p)'
  <2>1. Written(p)' = Written(p) /\ Upserted(p)' = Upserted(p)
    BY DEF Written, Upserted
  <2>2. \A i : Delta(p, i)' = Delta(p, i)
    BY <1>2 DEF Delta, Leaf
  <2>3. \A i : /\ NewKey(p, i)' = NewKey(p, i) /\ NewNonce(p, i)' = NewNonce(p, i)
               /\ NewBalance(p, i)' = NewBalance(p, i)
    BY <1>1, <2>2 DEF NewKey, NewNonce, NewBalance
  <2>4. RekeyAhead(p)' <=> RekeyAhead(p)
    BY DEF RekeyAhead
  <2>5. \A s : Planned(p, s)' <=> Planned(p, s)
    BY <1>1, <1>2, <2>3, <2>4 DEF Planned
  <2>6. \A i : RowPlanned(p, i)' = RowPlanned(p, i)
    BY <1>1, <2>3, <2>4 DEF RowPlanned
  <2>7. RekeyLast(p)' <=> RekeyLast(p)
    BY DEF RekeyLast
  <2>8. HoldsLock(p)' /\ pc'[p] \in Writes => HoldsLock(p) /\ pc[p] \in Writes
    BY <1>2 DEF HoldsLock, Writes
  <2>9. QED
    BY <2>1, <2>5, <2>6, <2>7, <2>8 DEF Own, AsPlanned
<1>6. SupplySeen(p)'
  <2>1. \A i : RowOf(p, i)' = RowOf(p, i)
    BY <1>1 DEF RowOf
  <2>2. TotalSeenBy(p)' = TotalSeenBy(p)
    BY <2>1 DEF TotalSeenBy
  <2>3. pc'[p] = "commit" => pc[p] = "commit"
    OBVIOUS
  <2>4. QED
    BY <2>2, <2>3 DEF Own, SupplySeen, requiresFullSupplyCheck
<1>7. QED
  BY <1>3, <1>4, <1>5, <1>6 DEF Own

\* Nothing is required of a transaction that is closed.
LEMMA ClosedOwn ==
    ASSUME Types, NEW p \in Procs, Close(p)
    PROVE  Own(p)'
<1>1. pc'[p] = "idle" /\ req'[p] = None
  BY Closing
<1>2. QED
  BY <1>1 DEF Own, Enrolled, StillMay, AsPlanned, SupplySeen, Registers, HoldsLock, Writes

\* Before it writes, a transaction has only to have read the signer's row.
LEMMA ReadingOwn ==
    ASSUME NEW p \in Procs, pc'[p] \notin {"other"} \cup Writes
    PROVE  Own(p)'
BY DEF Own, Enrolled, StillMay, AsPlanned, SupplySeen, Writes

\* The first reads of a transaction.
LEMMA BeginsOwn ==
    ASSUME OrderlyInv, NEW p \in Procs,
           Begin(p) \/ LockLedger(p) \/ (LastTx(p) /\ ~ Close(p))
    PROVE  Own(p)'
<1>1. DOMAIN pc = Procs
  BY DEF OrderlyInv, Inv, Types, TypeOK
<1>2. pc'[p] \in {"registrant", "lock", "last", "signer"}
  BY <1>1 DEF Begin, LockLedger, LastTx, Rollback, Goto
<1>3. QED
  BY <1>2, ReadingOwn DEF Writes

\* The parts of the invariant, and the types that they need.
LEMMA OrderlyParts ==
    ASSUME OrderlyInv, NEW p \in Procs
    PROVE  /\ Inv /\ Types /\ Local(p) /\ Own(p) /\ Absent
           /\ rows \subseteq Ids /\ pubkey \in [Ids -> Keys \cup {NoKey}]
           /\ nonce \in [Ids -> Nat] /\ balance \in [Ids -> Nat] /\ log \in Seq(L!Entry)
           /\ DOMAIN pc = Procs /\ DOMAIN req = Procs /\ DOMAIN read = Procs
           /\ DOMAIN todo = Procs /\ DOMAIN held = Procs /\ DOMAIN pending = Procs
           /\ DOMAIN pending[p] \subseteq held[p] /\ DOMAIN pending[p] \subseteq Ids /\ pending[p] \in [DOMAIN pending[p] -> Row]
           /\ Active(p) => req[p] \in Request /\ req[p] # None
<1>1. Inv /\ Types /\ Local(p) /\ Own(p) /\ Absent
  BY DEF OrderlyInv, Inv
<1>2. /\ rows \subseteq Ids /\ pubkey \in [Ids -> Keys \cup {NoKey}]
      /\ nonce \in [Ids -> Nat] /\ balance \in [Ids -> Nat] /\ log \in Seq(L!Entry)
      /\ DOMAIN pc = Procs /\ DOMAIN req = Procs /\ DOMAIN read = Procs
      /\ DOMAIN todo = Procs /\ DOMAIN held = Procs /\ DOMAIN pending = Procs
      /\ DOMAIN pending[p] \subseteq held[p] /\ DOMAIN pending[p] \subseteq Ids /\ pending[p] \in [DOMAIN pending[p] -> Row]
  BY <1>1 DEF Types, TypeOK, L!TypeOK
<1>3. Active(p) => req[p] \in Request /\ req[p] # None
  BY <1>1, Serving
<1>4. QED
  BY <1>1, <1>2, <1>3

-----------------------------------------------------------------------------
(* The reads: what is read is what the atomic action sees.                  *)

\* The holder of the lock goes from a read to its writes.
LEMMA PlansOwn ==
    ASSUME NEW p \in Procs, pc'[p] = "write", ~ Registers(p)', pending'[p] = <<>>,
           StillMay(p)', Written(p)' = Upserted(p)', RekeyLast(p)',
           \A n \in DOMAIN todo'[p] : Planned(p, todo[p][n])'
    PROVE  Own(p)'
<1>1. DOMAIN <<>> = {}
  OBVIOUS
<1>2. Enrolled(p)' /\ SupplySeen(p)'
  BY DEF Enrolled, SupplySeen
<1>3. AsPlanned(p)'
  BY <1>1 DEF AsPlanned
<1>4. QED
  BY <1>2, <1>3 DEF Own

\* The row ids of one and of two statements.
LEMMA UpsertedShort ==
    ASSUME NEW p \in Procs, NEW s, NEW t
    PROVE  /\ todo'[p] = <<s>> /\ s.op # "rekey" => Upserted(p)' = {s.id}
           /\ todo'[p] = <<s, t>> /\ s.op # "rekey" /\ t.op # "rekey" =>
                 Upserted(p)' = {s.id, t.id}
           /\ todo'[p] = <<s, t>> /\ s.op # "rekey" /\ t.op = "rekey" => Upserted(p)' = {s.id}
<1>1. todo'[p] = <<s>> => DOMAIN todo'[p] = {1} /\ todo'[p][1] = s
  OBVIOUS
<1>2. todo'[p] = <<s, t>> => DOMAIN todo'[p] = {1, 2} /\ todo'[p][1] = s /\ todo'[p][2] = t
  OBVIOUS
<1>3. Upserted(p)' = {todo'[p][n].id : n \in {m \in DOMAIN todo'[p] : todo'[p][m].op # "rekey"}}
  BY DEF Upserted
<1>4. QED
  BY <1>1, <1>2, <1>3

\* The signer's row is read.
LEMMA ReadSignerOwn ==
    ASSUME OrderlyInv, NEW p \in Procs, ReadSigner(p)
    PROVE  Own(p)'
<1> DEFINE tx == req[p]
<1>1. pc[p] = "signer" /\ Active(p) /\ Kinds(p) /\ Decided(p) /\ Buffers(p)
  BY OrderlyParts DEF ReadSigner, Active, Local
<1>2. tx \in Request /\ tx # None /\ ~ Registers(p) /\ HoldsLock(p) /\ tx \in L!Tx
  BY <1>1, OrderlyParts, RequestKinds DEF Kinds, HoldsLock, Registers
<1>3. read[p] = [leaf |-> Len(log) + 1, id |-> None] /\ pending[p] = <<>>
  BY <1>1 DEF Decided, Buffers, Writes
<1>4. /\ DOMAIN read = Procs /\ DOMAIN todo = Procs /\ DOMAIN pc = Procs
      /\ \A i \in Ids : pubkey[i] \in Keys \cup {NoKey} /\ balance[i] \in Nat
  BY OrderlyParts
<1>5. CASE /\ WellFormed(tx) /\ tx.type = "genesis"
           /\ read' = [read EXCEPT ![p].id = L!TreasuryDscID]
           /\ todo' = [todo EXCEPT ![p] = <<Upsert(L!TreasuryDscID, tx.to, 0, SupplyCap)>>]
           /\ Goto(p, "write")
           /\ UNCHANGED <<committed, lock, req, held, pending>>
  <2> PICK s : s = Upsert(L!TreasuryDscID, tx.to, 0, SupplyCap)
    OBVIOUS
  <2>1. /\ pc'[p] = "write" /\ req'[p] = tx /\ pending'[p] = <<>>
        /\ read'[p].id = L!TreasuryDscID /\ todo'[p] = <<s>> /\ ~ Registers(p)'
        /\ nonce' = nonce /\ balance' = balance
    BY <1>2, <1>3, <1>4, <1>5 DEF Goto, committed, Registers
  <2>2. /\ s.op = "upsert" /\ s.id = L!TreasuryDscID /\ s.key = tx.to
        /\ s.nonce = 0 /\ s.balance = SupplyCap
    BY DEF Upsert
  <2>3. DOMAIN todo'[p] = {1} /\ todo'[p][1] = s /\ Upserted(p)' = {s.id}
    BY <2>1, <2>2, UpsertedShort
  <2>4. L!TreasuryDscID \in Ids
    BY LedgerAssumption
  <2>5. /\ L!CreditOf(Leaf(p)', L!TreasuryDscID) = SupplyCap
        /\ L!DebitOf(Leaf(p)', L!TreasuryDscID) = 0
    BY <1>2, <1>5, <2>1, <2>4, DeltaOf DEF Leaf
  <2>6. Delta(p, L!TreasuryDscID)' = SupplyCap
    BY <2>1, <2>5, LedgerAssumption DEF Delta
  <2>7. nonce[L!TreasuryDscID] = 0 /\ balance[L!TreasuryDscID] = 0
    <3>1. log = <<>> /\ L!TreasuryDscID \notin rows
      BY <1>1, <1>2, <1>5, OrderlyParts DEF Decided, Absent
    <3>2. QED
      BY <2>4, <3>1, OrderlyParts DEF Absent
  <2>8. NewNonce(p, L!TreasuryDscID)' = 0 /\ NewBalance(p, L!TreasuryDscID)' = SupplyCap
    BY <1>5, <2>1, <2>6, <2>7, LedgerAssumption DEF NewNonce, NewBalance
  <2>9. Planned(p, s)'
    BY <1>5, <2>1, <2>2, <2>8 DEF Planned
  <2>10. StillMay(p)'
    BY <1>5, <2>1 DEF StillMay, L!TreasuryDscID
  <2>11. Written(p)' = {L!TreasuryDscID}
    BY <1>5, <2>1 DEF Written
  <2>12. QED
    BY <1>5, <2>1, <2>2, <2>3, <2>9, <2>10, <2>11, PlansOwn DEF RekeyLast
<1>6. ASSUME NEW i \in Ids,
             WellFormed(tx), tx.type = "rotate_key", SignerMay(tx, i),
             read' = [read EXCEPT ![p].id = i],
             todo' = [todo EXCEPT ![p] =
                << Upsert(i, pubkey[i], tx.nonce, balance[i]),
                   [op |-> "rekey", old |-> tx.oldKey, key |-> tx.newKey] >>],
             Goto(p, "write"),
             UNCHANGED <<committed, lock, req, held, pending>>
      PROVE  Own(p)'
  <2> PICK s, t : /\ s = Upsert(i, pubkey[i], tx.nonce, balance[i])
                  /\ t = [op |-> "rekey", old |-> tx.oldKey, key |-> tx.newKey]
    OBVIOUS
  <2>1. /\ pc'[p] = "write" /\ req'[p] = tx /\ pending'[p] = <<>>
        /\ read'[p].id = i /\ todo'[p] = <<s, t>> /\ ~ Registers(p)'
        /\ rows' = rows /\ pubkey' = pubkey /\ nonce' = nonce /\ balance' = balance
    BY <1>2, <1>3, <1>4, <1>6 DEF Goto, committed, Registers
  <2>2. /\ s.op = "upsert" /\ s.id = i /\ s.key = pubkey[i] /\ s.nonce = tx.nonce
        /\ s.balance = balance[i]
        /\ t.op = "rekey" /\ t.old = tx.oldKey /\ t.key = tx.newKey
    BY DEF Upsert
  <2>3. /\ DOMAIN todo'[p] = {1, 2} /\ todo'[p][1] = s /\ todo'[p][2] = t
        /\ Upserted(p)' = {s.id}
    BY <2>1, <2>2, UpsertedShort
  <2>4. L!CreditOf(Leaf(p)', i) = 0 /\ L!DebitOf(Leaf(p)', i) = 0
    BY <1>2, <1>6, <2>1, DeltaOf DEF Leaf
  <2>5. Delta(p, i)' = 0
    BY <2>1, <2>4 DEF Delta
  <2>6. NewNonce(p, i)' = tx.nonce /\ NewBalance(p, i)' = balance[i]
    BY <1>4, <1>6, <2>1, <2>5 DEF NewNonce, NewBalance
  <2>7. RekeyAhead(p)'
    BY <2>2, <2>3 DEF RekeyAhead
  <2>8. Planned(p, s)' /\ Planned(p, t)'
    BY <1>6, <2>1, <2>2, <2>6, <2>7 DEF Planned
  <2>9. StillMay(p)'
    <3>1. SignerMay(tx, i)'
      BY <1>6, <2>1
      DEF SignerMay, L!HoldsKey, L!NextNonce, L!NotSelf, L!HasFunds, L!TreasuryDscID
    <3>2. QED
      BY <1>6, <2>1, <3>1 DEF StillMay
  <2>10. Written(p)' = {i}
    BY <1>6, <2>1 DEF Written
  <2>11. QED
    BY <2>1, <2>2, <2>3, <2>8, <2>9, <2>10, PlansOwn DEF RekeyLast
<1>7. ASSUME NEW i \in Ids, SignerMay(tx, i),
             read' = [read EXCEPT ![p] =
                [leaf |-> @.leaf, id |-> i, key |-> pubkey[i], balance |-> balance[i]]],
             Goto(p, "other"),
             UNCHANGED <<committed, lock, req, todo, held, pending>>
      PROVE  Own(p)'
  <2>1. /\ pc'[p] = "other" /\ req'[p] = tx /\ ~ Registers(p)'
        /\ read'[p].id = i /\ read'[p].key = pubkey[i] /\ read'[p].balance = balance[i]
        /\ rows' = rows /\ pubkey' = pubkey /\ nonce' = nonce /\ balance' = balance
    BY <1>2, <1>4, <1>7 DEF Goto, committed, Registers
  <2>2. SignerMay(tx, i)'
    BY <1>7, <2>1 DEF SignerMay, L!HoldsKey, L!NextNonce, L!NotSelf, L!HasFunds, L!TreasuryDscID
  <2>3. StillMay(p)'
    BY <2>1, <2>2 DEF StillMay, Writes
  <2>4. QED
    BY <2>1, <2>3 DEF Own, Enrolled, AsPlanned, SupplySeen, Writes
<1>8. CASE Rollback(p)
  BY <1>8, OrderlyParts, ClosedOwn DEF Rollback
<1>9. QED
  BY <1>5, <1>6, <1>7, <1>8, Zenon DEF ReadSigner

\* The other row is read.
LEMMA ReadOtherOwn ==
    ASSUME OrderlyInv, NEW p \in Procs, ReadOther(p)
    PROVE  Own(p)'
<1> DEFINE tx == req[p]
           signer == read[p]
<1>1. pc[p] = "other" /\ Active(p) /\ Kinds(p) /\ Decided(p) /\ Buffers(p) /\ StillMay(p) /\ Inv
  BY OrderlyParts DEF ReadOther, Active, Local, Own
<1>2. /\ tx \in Request /\ tx # None /\ ~ Registers(p) /\ HoldsLock(p) /\ tx \in L!Tx
      /\ tx.type \in {"transfer", "reclaim_invalid"}
  BY <1>1, OrderlyParts, RequestKinds DEF Kinds, HoldsLock, Registers
<1>3. pending[p] = <<>>
  BY <1>1 DEF Buffers, Writes
<1>4. /\ DOMAIN read = Procs /\ DOMAIN todo = Procs /\ DOMAIN pc = Procs
      /\ \A i \in Ids : /\ pubkey[i] \in Keys \cup {NoKey} /\ balance[i] \in Nat
                        /\ nonce[i] \in Nat
  BY OrderlyParts
<1>5. /\ signer.id \in Ids /\ signer.key \in Keys /\ WellFormed(tx)
      /\ tx.type = "transfer" => signer.id # tx.to
      /\ tx.type = "reclaim_invalid" => signer.id = L!TreasuryDscID
  BY <1>1 DEF Decided
<1>6. /\ SignerMay(tx, signer.id) /\ signer.key = pubkey[signer.id]
      /\ signer.balance = balance[signer.id]
  BY <1>1 DEF StillMay
<1>7. tx.amount \in Nat
  BY <1>1, <1>2, <1>5, LeafAmounts
<1>8. ASSUME UNCHANGED <<committed, lock, req, read, held, pending>>, Goto(p, "write"),
             tx.type = "reclaim_invalid" => ReclaimableFrom(tx)
      PROVE  /\ pc'[p] = "write" /\ req'[p] = tx /\ read'[p] = signer /\ pending'[p] = <<>>
             /\ ~ Registers(p)' /\ StillMay(p)' /\ Leaf(p)' = Leaf(p)
             /\ \A i : Delta(p, i)' = Delta(p, i)
             /\ rows' = rows /\ pubkey' = pubkey /\ nonce' = nonce /\ balance' = balance
  <2>1. /\ pc'[p] = "write" /\ req'[p] = tx /\ read'[p] = signer /\ pending'[p] = <<>>
        /\ ~ Registers(p)'
        /\ rows' = rows /\ pubkey' = pubkey /\ nonce' = nonce /\ balance' = balance
    BY <1>2, <1>3, <1>4, <1>8 DEF Goto, committed, Registers
  <2>2. SignerMay(tx, signer.id)'
    BY <1>6, <1>8, <2>1
    DEF SignerMay, L!HoldsKey, L!NextNonce, L!NotSelf, L!HasFunds, L!TreasuryDscID
  <2>3. ReclaimableFrom(tx)' <=> ReclaimableFrom(tx)
    BY <1>8, <2>1 DEF ReclaimableFrom, L!NotActivated, L!HasFunds
  <2>4. StillMay(p)'
    BY <1>2, <1>8, <2>1, <2>2, <2>3 DEF StillMay
  <2>5. Leaf(p)' = Leaf(p) /\ \A i : Delta(p, i)' = Delta(p, i)
    BY <1>2, <2>1 DEF Leaf, Delta
  <2>6. QED
    BY <2>1, <2>4, <2>5
<1>9. CASE tx.type = "transfer"
  <2> PICK s, t, to :
        /\ s = Upsert(signer.id, signer.key, tx.nonce, signer.balance - tx.amount)
        /\ t = IF tx.to \in rows
               THEN Upsert(tx.to, pubkey[tx.to], nonce[tx.to], balance[tx.to] + tx.amount)
               ELSE Upsert(tx.to, NoKey, 0, tx.amount)
        /\ to = tx.to
    OBVIOUS
  <2> PICK i : i = signer.id
    OBVIOUS
  <2>1. /\ pc'[p] = "write" /\ req'[p] = tx /\ read'[p] = signer /\ pending'[p] = <<>>
        /\ ~ Registers(p)' /\ StillMay(p)' /\ \A j : Delta(p, j)' = Delta(p, j)
        /\ rows' = rows /\ pubkey' = pubkey /\ nonce' = nonce /\ balance' = balance
    BY <1>8, <1>9 DEF ReadOther
  <2>2. todo'[p] = <<s, t>>
    BY <1>4, <1>9 DEF ReadOther
  <2>3. to \in Ids /\ i \in Ids /\ i # to
    BY <1>2, <1>5, <1>9, RequestFields
  <2>4. /\ s.op = "upsert" /\ s.id = i /\ s.key = pubkey[i] /\ s.nonce = tx.nonce
        /\ s.balance = balance[i] - tx.amount
        /\ t.op = "upsert" /\ t.id = to
    BY <1>6 DEF Upsert
  <2>5. t.nonce = nonce[to] /\ t.balance = balance[to] + tx.amount /\ t.key \in {NoKey, pubkey[to]}
    <3>1. to \notin rows => nonce[to] = 0 /\ balance[to] = 0
      BY <2>3, OrderlyParts DEF Absent
    <3>2. CASE to \in rows
      BY <3>2 DEF Upsert
    <3>3. CASE to \notin rows
      BY <1>7, <3>1, <3>3 DEF Upsert
    <3>4. QED
      BY <3>2, <3>3
  <2>6. \A j \in Ids : /\ L!CreditOf(Leaf(p), j) = IF j = to THEN tx.amount ELSE 0
                       /\ L!DebitOf(Leaf(p), j) = IF j = i THEN tx.amount ELSE 0
    BY <1>2, <1>5, <1>9, DeltaOf DEF Leaf
  <2>7. Delta(p, i) = 0 - tx.amount /\ Delta(p, to) = tx.amount
    BY <1>2, <1>7, <2>3, <2>6 DEF Delta
  <2>8. /\ NewNonce(p, i)' = tx.nonce /\ NewBalance(p, i)' = balance[i] - tx.amount
        /\ NewNonce(p, to)' = nonce[to] /\ NewBalance(p, to)' = balance[to] + tx.amount
    BY <1>4, <1>7, <1>9, <2>1, <2>3, <2>7 DEF NewNonce, NewBalance
  <2>9. Planned(p, s)' /\ Planned(p, t)'
    BY <1>9, <2>1, <2>3, <2>4, <2>5, <2>8 DEF Planned
  <2>10. /\ DOMAIN todo'[p] = {1, 2} /\ todo'[p][1] = s /\ todo'[p][2] = t
         /\ Upserted(p)' = {i, to}
    BY <2>2, <2>4, UpsertedShort
  <2>11. Written(p)' = {i, to}
    BY <1>9, <2>1 DEF Written
  <2>12. QED
    BY <1>9, <2>1, <2>9, <2>10, <2>11, PlansOwn DEF RekeyLast
<1>10. CASE tx.type = "reclaim_invalid" /\ ReclaimableFrom(tx)
  <2> PICK s, t, from :
        /\ s = Upsert(tx.from, NoKey, nonce[tx.from], balance[tx.from] - tx.amount)
        /\ t = Upsert(signer.id, signer.key, tx.nonce, signer.balance + tx.amount)
        /\ from = tx.from
    OBVIOUS
  <2> PICK i : i = L!TreasuryDscID
    OBVIOUS
  <2>1. /\ pc'[p] = "write" /\ req'[p] = tx /\ read'[p] = signer /\ pending'[p] = <<>>
        /\ ~ Registers(p)' /\ StillMay(p)' /\ \A j : Delta(p, j)' = Delta(p, j)
        /\ rows' = rows /\ pubkey' = pubkey /\ nonce' = nonce /\ balance' = balance
    BY <1>8, <1>10 DEF ReadOther
  <2>2. todo'[p] = <<s, t>>
    BY <1>4, <1>10 DEF ReadOther
  <2>3. from \in Ids /\ i \in Ids /\ i # from
    <3>1. tx.from \in Ids /\ tx.from < L!TreasuryDscID
      BY <1>2, <1>5, <1>10, RequestFields DEF WellFormed
    <3>2. QED
      BY <3>1, LedgerAssumption DEF L!TreasuryDscID
  <2>4. /\ s.op = "upsert" /\ s.id = from /\ s.key = NoKey /\ s.nonce = nonce[from]
        /\ s.balance = balance[from] - tx.amount
        /\ t.op = "upsert" /\ t.id = i /\ t.key = pubkey[i] /\ t.nonce = tx.nonce
        /\ t.balance = balance[i] + tx.amount
    BY <1>5, <1>6, <1>10 DEF Upsert
  <2>5. \A j \in Ids : /\ L!CreditOf(Leaf(p), j) = IF j = i THEN tx.amount ELSE 0
                       /\ L!DebitOf(Leaf(p), j) = IF j = from THEN tx.amount ELSE 0
    BY <1>2, <1>5, <1>10, DeltaOf DEF Leaf
  <2>6. Delta(p, from) = 0 - tx.amount /\ Delta(p, i) = tx.amount
    BY <1>2, <1>7, <2>3, <2>5 DEF Delta
  <2>7. /\ NewNonce(p, i)' = tx.nonce /\ NewBalance(p, i)' = balance[i] + tx.amount
        /\ NewNonce(p, from)' = nonce[from] /\ NewBalance(p, from)' = balance[from] - tx.amount
    BY <1>4, <1>5, <1>7, <1>10, <2>1, <2>3, <2>6 DEF NewNonce, NewBalance
  <2>8. Planned(p, s)' /\ Planned(p, t)'
    BY <1>10, <2>1, <2>3, <2>4, <2>7 DEF Planned
  <2>9. /\ DOMAIN todo'[p] = {1, 2} /\ todo'[p][1] = s /\ todo'[p][2] = t
        /\ Upserted(p)' = {from, i}
    BY <2>2, <2>4, UpsertedShort
  <2>10. Written(p)' = {from, i}
    BY <1>5, <1>10, <2>1 DEF Written
  <2>11. QED
    BY <1>10, <2>1, <2>8, <2>9, <2>10, PlansOwn DEF RekeyLast
<1>11. CASE Rollback(p)
  BY <1>11, OrderlyParts, ClosedOwn DEF Rollback
<1>12. QED
  BY <1>9, <1>10, <1>11 DEF ReadOther

\* A registration attaches its key to the row that it has read, or creates one.
LEMMA ReadRegistrantOwn ==
    ASSUME OrderlyInv, NEW p \in Procs, ReadRegistrant(p)
    PROVE  Own(p)'
<1> DEFINE r == req[p]
<1>1. pc[p] = "registrant" /\ Active(p) /\ Registers(p) /\ Buffers(p)
  BY OrderlyParts DEF ReadRegistrant, Active, Local, Kinds
<1>2. pending[p] = <<>> /\ DOMAIN <<>> = {}
  BY <1>1 DEF Buffers, Writes
<1>3. CASE Rollback(p)
  BY <1>3, OrderlyParts, ClosedOwn DEF Rollback
<1>4. CASE ~ Rollback(p)
  <2>1. /\ pc'[p] = "write" /\ req'[p] = r /\ pending'[p] = <<>> /\ rows' = rows
        /\ read'[p] = [leaf |-> 0, id |-> IF r.id \in rows THEN r.id ELSE None]
    BY <1>2, <1>4, OrderlyParts DEF ReadRegistrant, Goto, committed
  <2>2. Registers(p)' /\ ~ HoldsLock(p)'
    BY <1>1, <2>1 DEF Registers, HoldsLock
  <2>3. Enrolled(p)'
    <3>1. r.id \in rows => Attaches(p)'
      BY <2>1 DEF Attaches
    <3>2. r.id \notin rows => Creates(p)'
      BY <2>1 DEF Creates
    <3>3. r.id \notin rows => ~ Attaches(p)'
      <4>1. r \in Request /\ r.type = "register"
        BY <1>1, OrderlyParts DEF Registers
      <4>2. r.id # None
        BY <4>1, RequestFields, NoneAssumption
      <4>3. QED
        BY <2>1, <4>2 DEF Attaches
    <3>4. QED
      BY <1>2, <2>1, <3>1, <3>2, <3>3 DEF Enrolled
  <2>4. StillMay(p)' /\ SupplySeen(p)' /\ AsPlanned(p)'
    BY <2>1, <2>2 DEF StillMay, SupplySeen, AsPlanned
  <2>5. QED
    BY <2>3, <2>4 DEF Own
<1>5. QED
  BY <1>3, <1>4

-----------------------------------------------------------------------------
(* The writes.                                                              *)

\* The rows that a transaction has written when it sends its next statement, and
\* what that statement makes of its row, are those of the atomic action.
LEMMA WriteTarget ==
    ASSUME OrderlyInv, NEW p \in Procs, pc[p] = "write", ~ Registers(p),
           NEW s, NEW i, NEW row, s = Head(todo[p]), i = Target(p, s), row = NewRow(p, s)
    PROVE  /\ s.op \in {"upsert", "rekey"} /\ i \in Written(p) /\ i \in Ids
           /\ s.op = "upsert" => i = s.id
           /\ s.op = "rekey" => /\ i = read[p].id /\ i \in DOMAIN pending[p]
                                /\ req[p].type = "rotate_key"
           /\ row.nonce = NewNonce(p, i) /\ row.balance = NewBalance(p, i)
           /\ s.op = "upsert" => row.pubkey = IF req[p].type = "genesis" THEN req[p].to ELSE pubkey[i]
           /\ s.op = "rekey" => row.pubkey = req[p].newKey
<1>1. /\ pc[p] \in Writes /\ Active(p) /\ Local(p) /\ Own(p) /\ Inv /\ Types
      /\ HoldsLock(p)
  BY OrderlyParts DEF Writes, Active, HoldsLock
<1>2. /\ Written(p) = DOMAIN pending[p] \cup Upserted(p)
      /\ \A n \in DOMAIN todo[p] : Planned(p, todo[p][n])
      /\ \A j \in DOMAIN pending[p] : pending[p][j] = RowPlanned(p, j)
  BY <1>1 DEF Own, AsPlanned
<1>3. /\ todo[p] \in Seq(Stmt) /\ todo[p] # <<>> /\ s \in Stmt /\ i \in Ids
      /\ row \in Row
  BY <1>1, RowWritten
<1>4. s = todo[p][1] /\ 1 \in DOMAIN todo[p]
  BY <1>3, FirstStatement
<1>5. Planned(p, s) /\ (s.op # "rekey" => s.id \in Upserted(p))
  BY <1>2, <1>4 DEF Upserted
<1>6. CASE s.op = "upsert"
  <2>1. i = s.id /\ s \in UpsertStmt
    BY <1>3, <1>6 DEF Target, Stmt, UpsertStmt, RekeyStmt, AttachStmt
  <2>2. row = [pubkey |-> Coalesce(s.key, KeyOf(p, i)), nonce |-> s.nonce, balance |-> s.balance]
    BY <1>6 DEF NewRow
  <2>3. /\ row.nonce = NewNonce(p, i) /\ row.balance = NewBalance(p, i)
        /\ row.pubkey = Coalesce(s.key, KeyOf(p, i))
    BY <1>5, <1>6, <2>1, <2>2 DEF Planned
  <2>4. row.pubkey = IF req[p].type = "genesis" THEN req[p].to ELSE pubkey[i]
    <3>1. CASE s.key # NoKey
      BY <1>5, <1>6, <2>1, <2>3, <3>1 DEF Planned, Coalesce
    <3>2. CASE s.key = NoKey
      <4>1. req[p].type # "genesis"
        <5>1. req[p].type = "genesis" => req[p].to \in Keys
          BY <1>1, OrderlyParts, RequestFields
        <5>2. QED
          BY <1>5, <1>6, <3>2, <5>1, LedgerAssumption DEF Planned
      <4>2. KeyOf(p, i) = pubkey[i]
        <5>1. CASE i \in DOMAIN pending[p]
          <6>1. KeyOf(p, i) = RowPlanned(p, i).pubkey
            BY <1>1, <1>2, <1>3, <5>1, RowSeen DEF KeyOf
          <6>2. CASE req[p].type = "rotate_key"
            BY <1>5, <1>6, <6>1, <6>2 DEF Planned, RowPlanned
          <6>3. CASE req[p].type # "rotate_key"
            <7>1. NewKey(p, i) = pubkey[i]
              BY <4>1, <6>3 DEF NewKey
            <7>2. QED
              BY <6>1, <7>1 DEF RowPlanned
          <6>4. QED
            BY <6>2, <6>3
        <5>2. CASE i \notin DOMAIN pending[p] /\ i \in rows
          BY <1>1, <1>3, <5>2, RowSeen DEF KeyOf
        <5>3. CASE i \notin DOMAIN pending[p] /\ i \notin rows
          BY <1>1, <1>3, <5>3, RowSeen, OrderlyParts DEF KeyOf, Absent
        <5>4. QED
          BY <5>1, <5>2, <5>3
      <4>3. QED
        BY <2>3, <3>2, <4>1, <4>2 DEF Coalesce
    <3>3. QED
      BY <3>1, <3>2
  <2>5. QED
    BY <1>2, <1>3, <1>5, <1>6, <2>1, <2>3, <2>4
<1>7. CASE s.op = "rekey"
  <2>1. s \in RekeyStmt /\ s.old # NoKey
    BY <1>3, <1>7, LedgerAssumption DEF Stmt, UpsertStmt, RekeyStmt, AttachStmt
  <2>2. req[p].type = "rotate_key" /\ \E j \in DOMAIN pending[p] : pending[p][j].pubkey = s.old
    BY <1>1, <1>4, <1>7 DEF Local, Rekeys
  <2>3. Written(p) = {read[p].id}
    BY <2>2 DEF Written
  <2>4. read[p].id \in DOMAIN pending[p] /\ DOMAIN pending[p] = {read[p].id}
    BY <1>2, <2>2, <2>3
  <2>5. pending[p][read[p].id].pubkey = s.old /\ read[p].id \in Ids
    BY <2>2, <2>4, OrderlyParts
  <2>6. RekeyAhead(p)
    BY <1>4, <1>7 DEF RekeyAhead
  <2>7. pubkey[read[p].id] = s.old
    <3>1. pending[p][read[p].id] = RowPlanned(p, read[p].id)
      BY <1>2, <2>4
    <3>2. QED
      BY <2>5, <2>6, <3>1 DEF RowPlanned
  <2>8. \A j \in Ids : KeyOf(p, j) = s.old => j = read[p].id
    <3> SUFFICES ASSUME NEW j \in Ids, KeyOf(p, j) = s.old, j # read[p].id
                 PROVE  FALSE
      OBVIOUS
    <3>1. j \notin DOMAIN pending[p]
      BY <2>4
    <3>2. pubkey[j] = s.old
      BY <1>1, <2>1, <3>1, RowSeen DEF KeyOf
    <3>3. QED
      BY <2>1, <2>5, <2>7, <3>2 DEF OrderlyInv, L!OneHolderPerKey
  <2>9. KeyOf(p, read[p].id) = s.old
    BY <1>1, <2>4, <2>5, RowSeen DEF KeyOf
  <2>10. i = read[p].id
    BY <1>7, <2>5, <2>8, <2>9 DEF Target
  <2>11. RowOf(p, i) = RowPlanned(p, i)
    BY <1>1, <1>2, <2>4, <2>5, <2>10, RowSeen
  <2>12. row = [RowOf(p, i) EXCEPT !.pubkey = s.key]
    BY <1>7 DEF NewRow
  <2>13. /\ row.pubkey = s.key /\ row.nonce = NewNonce(p, i) /\ row.balance = NewBalance(p, i)
    BY <2>11, <2>12 DEF RowPlanned
  <2>14. s.key = req[p].newKey
    BY <1>5, <1>7 DEF Planned
  <2>15. QED
    BY <1>3, <1>7, <2>2, <2>3, <2>4, <2>10, <2>13, <2>14
<1>8. s.op # "attach"
  BY <1>1, <1>4 DEF Local, Rekeys
<1>9. QED
  BY <1>3, <1>6, <1>7, <1>8 DEF Stmt, UpsertStmt, RekeyStmt, AttachStmt

\* A registration writes its one row.
LEMMA EnrolOwn ==
    ASSUME OrderlyInv, NEW p \in Procs, Write(p), ~ Rollback(p), Registers(p)
    PROVE  /\ pending[p] = <<>> /\ Target(p, Head(todo[p])) = req[p].id
           /\ Own(p)'
<1>1. /\ pc[p] = "write" /\ pc[p] \in Writes /\ Active(p) /\ Local(p) /\ Own(p) /\ Inv /\ Types
  BY OrderlyParts DEF Write, Writes, Active
<1> PICK s, i, row : s = Head(todo[p]) /\ i = Target(p, s) /\ row = NewRow(p, s)
  OBVIOUS
<1>2. /\ todo[p] \in Seq(Stmt) /\ todo[p] # <<>> /\ s \in Stmt /\ i \in Ids /\ row \in Row
  BY <1>1, RowWritten
<1>3. s = todo[p][1] /\ Len(todo[p]) = 1 /\ Len(todo[p]) \in Nat
  BY <1>1, <1>2, FirstStatement DEF Local, OneWrite
<1>4. /\ s \in UpsertStmt \cup AttachStmt /\ s.id = req[p].id /\ s.key = req[p].key
      /\ s \in AttachStmt => Attaches(p) /\ req[p].id \in rows
      /\ s \in UpsertStmt => Creates(p) /\ s.nonce = 0 /\ s.balance = 0
      /\ pending[p] = <<>>
  BY <1>1, <1>3 DEF Local, OneWrite
<1>5. i = req[p].id /\ i \notin DOMAIN pending[p]
  <2>1. DOMAIN <<>> = {}
    OBVIOUS
  <2>2. QED
    BY <1>4, <2>1 DEF Target, UpsertStmt, AttachStmt
<1>6. req[p].key \in Keys /\ req[p].key # NoKey /\ req[p].id # None
  <2>1. req[p] \in Request /\ req[p].type = "register"
    BY <1>1, OrderlyParts DEF Registers
  <2>2. QED
    BY <2>1, RequestFields, LedgerAssumption, NoneAssumption
<1>7. row = [pubkey |-> req[p].key, nonce |-> IF Attaches(p) THEN nonce[i] ELSE 0,
             balance |-> IF Attaches(p) THEN balance[i] ELSE 0]
  <2>1. CASE s \in UpsertStmt
    <3>1. s.op = "upsert" /\ Creates(p) /\ s.nonce = 0 /\ s.balance = 0
      BY <1>4, <2>1 DEF UpsertStmt
    <3>2. ~ Attaches(p)
      BY <1>6, <3>1 DEF Attaches, Creates
    <3>3. row = [pubkey |-> Coalesce(s.key, KeyOf(p, i)), nonce |-> s.nonce,
                 balance |-> s.balance]
      BY <3>1 DEF NewRow
    <3>4. Coalesce(s.key, KeyOf(p, i)) = req[p].key
      BY <1>4, <1>6 DEF Coalesce
    <3>5. QED
      BY <3>1, <3>2, <3>3, <3>4
  <2>2. CASE s \in AttachStmt
    <3>1. s.op = "attach" /\ Attaches(p) /\ i \in rows
      BY <1>4, <1>5, <2>2 DEF AttachStmt
    <3>2. RowOf(p, i) = [pubkey |-> pubkey[i], nonce |-> nonce[i], balance |-> balance[i]]
      BY <1>1, <1>2, <1>5, <3>1, RowSeen
    <3>3. row = [RowOf(p, i) EXCEPT !.pubkey = s.key]
      BY <3>1 DEF NewRow
    <3>4. QED
      BY <1>4, <3>1, <3>2, <3>3
  <2>3. QED
    BY <1>4, <2>1, <2>2
<1>8. /\ req'[p] = req[p] /\ read'[p] = read[p]
      /\ rows' = rows /\ nonce' = nonce /\ balance' = balance /\ pc'[p] = "commit"
  <2>1. req[p].type = "register"
    BY DEF Registers
  <2>2. QED
    BY <1>3, <2>1, OrderlyParts DEF Write, Goto, committed
<1>9. DOMAIN pending'[p] = {i} /\ pending'[p][i] = row
  <2>1. pending' = [pending EXCEPT ![p] =
            [j \in DOMAIN pending[p] \cup {i} |-> IF j = i THEN row ELSE pending[p][j]]]
    BY DEF Write
  <2>2. DOMAIN pending = Procs /\ DOMAIN <<>> = {}
    BY OrderlyParts
  <2>3. pending'[p] = [j \in DOMAIN pending[p] \cup {i} |-> IF j = i THEN row ELSE pending[p][j]]
    BY <2>1, <2>2
  <2>4. QED
    BY <1>4, <2>2, <2>3
<1>10. /\ Registers(p)' /\ ~ HoldsLock(p)' /\ (Attaches(p)' <=> Attaches(p))
       /\ (Creates(p)' <=> Creates(p))
  BY <1>8 DEF Registers, HoldsLock, Attaches, Creates
<1>11. Enrolled(p)'
  <2>1. Attaches(p) \/ Creates(p)
    BY <1>1 DEF Own, Enrolled
  <2>2. Attaches(p) => req[p].id \in rows
    BY <1>1 DEF Own, Enrolled
  <2>3. pending'[p][i] = [pubkey |-> req'[p].key,
                          nonce |-> IF Attaches(p)' THEN nonce'[i] ELSE 0,
                          balance |-> IF Attaches(p)' THEN balance'[i] ELSE 0]
    BY <1>7, <1>8, <1>9, <1>10
  <2>4. QED
    BY <1>5, <1>8, <1>9, <1>10, <2>1, <2>2, <2>3 DEF Enrolled
<1>12. StillMay(p)' /\ AsPlanned(p)'
  BY <1>8, <1>10 DEF StillMay, AsPlanned
<1>13. SupplySeen(p)'
  BY <1>8 DEF SupplySeen, requiresFullSupplyCheck, Registers
<1>14. QED
  BY <1>4, <1>5, <1>11, <1>12, <1>13 DEF Own

\* A statement is sent, and the rest of the plan stays.
LEMMA WriteOwn ==
    ASSUME OrderlyInv, NEW p \in Procs, Write(p)
    PROVE  Own(p)'
<1>1. CASE Rollback(p)
  BY <1>1, OrderlyParts, ClosedOwn DEF Rollback
<1>2. CASE ~ Rollback(p) /\ ~ Registers(p)
  <2>1. /\ pc[p] = "write" /\ pc[p] \in Writes /\ Active(p) /\ Local(p) /\ Own(p) /\ Inv
        /\ req[p] # None /\ req[p].type # "register" /\ HoldsLock(p)
    BY <1>2, OrderlyParts DEF Write, Writes, Active, Registers, HoldsLock
  <2> PICK s, i, row : s = Head(todo[p]) /\ i = Target(p, s) /\ row = NewRow(p, s)
    OBVIOUS
  <2>2. /\ todo[p] \in Seq(Stmt) /\ todo[p] # <<>> /\ s \in Stmt /\ i \in Ids /\ row \in Row
    BY <2>1, RowWritten
  <2>3. /\ Len(todo[p]) \in Nat /\ DOMAIN todo[p] = 1 .. Len(todo[p]) /\ 1 \in DOMAIN todo[p]
        /\ s = todo[p][1] /\ DOMAIN Tail(todo[p]) = 1 .. Len(todo[p]) - 1
        /\ \A n \in DOMAIN Tail(todo[p]) :
              n + 1 \in DOMAIN todo[p] /\ Tail(todo[p])[n] = todo[p][n + 1]
    BY <2>2, FirstStatement
  <2>4. /\ todo'[p] = Tail(todo[p]) /\ req'[p] = req[p] /\ read'[p] = read[p]
        /\ rows' = rows /\ pubkey' = pubkey /\ nonce' = nonce /\ balance' = balance
        /\ pc'[p] = IF Len(todo[p]) > 1 THEN "write" ELSE "insert"
    BY <1>2, <2>1, OrderlyParts DEF Write, Goto, committed
  <2>5. pending'[p] = [j \in DOMAIN pending[p] \cup {i} |-> IF j = i THEN row ELSE pending[p][j]]
    <3>1. pending' = [pending EXCEPT ![p] =
              [j \in DOMAIN pending[p] \cup {i} |-> IF j = i THEN row ELSE pending[p][j]]]
      BY <1>2 DEF Write
    <3>2. DOMAIN pending = Procs
      BY OrderlyParts
    <3>3. QED
      BY <3>1, <3>2
  <2>6. /\ DOMAIN pending'[p] = DOMAIN pending[p] \cup {i} /\ pending'[p][i] = row
        /\ \A j \in DOMAIN pending[p] : j # i => pending'[p][j] = pending[p][j]
        /\ pc'[p] \in Writes /\ pc'[p] # "commit"
    BY <2>1, <2>4, <2>5 DEF Writes
  <2>7. /\ i \in Written(p)
        /\ s.op = "upsert" => i = s.id
        /\ s.op = "rekey" => i \in DOMAIN pending[p] /\ req[p].type = "rotate_key" /\ i = read[p].id
        /\ s.op \in {"upsert", "rekey"}
        /\ row.nonce = NewNonce(p, i) /\ row.balance = NewBalance(p, i)
        /\ s.op = "upsert" => row.pubkey = IF req[p].type = "genesis" THEN req[p].to ELSE pubkey[i]
        /\ s.op = "rekey" => row.pubkey = req[p].newKey
    BY <1>2, <2>1, WriteTarget
  <2>8. /\ Written(p) = DOMAIN pending[p] \cup Upserted(p)
        /\ \A n \in DOMAIN todo[p] : Planned(p, todo[p][n])
        /\ \A j \in DOMAIN pending[p] : pending[p][j] = RowPlanned(p, j)
    BY <2>1 DEF Own, AsPlanned
  <2>9. \A j : /\ Delta(p, j)' = Delta(p, j) /\ NewKey(p, j)' = NewKey(p, j)
               /\ NewNonce(p, j)' = NewNonce(p, j) /\ NewBalance(p, j)' = NewBalance(p, j)
    <3>1. \A j : Delta(p, j)' = Delta(p, j)
      BY <2>4 DEF Delta, Registers, Leaf
    <3>2. QED
      BY <2>4, <3>1 DEF NewKey, NewNonce, NewBalance
  <2>10. Written(p)' = Written(p) /\ (Registers(p)' <=> Registers(p))
    BY <2>4 DEF Written, Registers
  <2>11. \A n \in DOMAIN todo[p] : n # 1 => n - 1 \in DOMAIN todo'[p] /\ todo'[p][n - 1] = todo[p][n]
    BY <2>3, <2>4
  <2>12. RekeyAhead(p)' <=> RekeyAhead(p) /\ s.op # "rekey"
    <3>1. ASSUME s.op = "rekey"
          PROVE  ~ RekeyAhead(p)'
      <4>1. SUFFICES ASSUME NEW n \in DOMAIN todo'[p], todo'[p][n].op = "rekey"
                     PROVE  FALSE
        BY DEF RekeyAhead
      <4>2. n + 1 \in DOMAIN todo[p] /\ n + 1 # 1 /\ todo[p][n + 1].op = "rekey"
        BY <2>3, <2>4, <4>1
      <4>3. todo[p][1].op = "upsert"
        BY <2>1, <4>2 DEF Local, Rekeys
      <4>4. QED
        BY <2>3, <3>1, <4>3
    <3>2. ASSUME s.op # "rekey", RekeyAhead(p)
          PROVE  RekeyAhead(p)'
      BY <2>3, <2>11, <3>2 DEF RekeyAhead
    <3>3. RekeyAhead(p)' => RekeyAhead(p)
      BY <2>3, <2>4 DEF RekeyAhead
    <3>4. QED
      BY <3>1, <3>2, <3>3
  <2>13. DOMAIN pending'[p] \cup Upserted(p)' = DOMAIN pending[p] \cup Upserted(p)
    <3>1. Upserted(p)' \subseteq Upserted(p)
      BY <2>3, <2>4 DEF Upserted
    <3>2. \A j \in Upserted(p) : j = i \/ j \in Upserted(p)'
      <4> SUFFICES ASSUME NEW n \in DOMAIN todo[p], todo[p][n].op # "rekey", todo[p][n].id # i
                   PROVE  todo[p][n].id \in Upserted(p)'
        BY DEF Upserted
      <4>1. n # 1
        BY <2>2, <2>3, <2>7 DEF Stmt, UpsertStmt, RekeyStmt, AttachStmt
      <4>2. QED
        BY <2>11, <4>1 DEF Upserted
    <3>3. QED
      BY <2>6, <2>7, <2>8, <3>1, <3>2
  <2>14. ASSUME NEW n \in DOMAIN todo'[p]
         PROVE  Planned(p, todo[p][n])'
    <3>1. PICK t : t = todo'[p][n]
      OBVIOUS
    <3>2. n + 1 \in DOMAIN todo[p] /\ t = todo[p][n + 1] /\ n + 1 # 1
      BY <2>3, <2>4, <3>1
    <3>3. Planned(p, t)
      BY <2>8, <3>2
    <3>4. t.op = "upsert" /\ req[p].type = "rotate_key" => RekeyAhead(p)'
      BY <2>1, <3>2 DEF Own, AsPlanned, RekeyLast
    <3>5. Planned(p, t)'
      BY <2>4, <2>9, <2>10, <3>3, <3>4 DEF Planned
    <3>6. QED
      BY <3>1, <3>5
  <2>15. ASSUME NEW j \in DOMAIN pending'[p]
         PROVE  pending'[p][j] = RowPlanned(p, j)'
    <3>1. CASE j = i
      <4>1. row.pubkey = IF RekeyAhead(p)' THEN pubkey[i] ELSE NewKey(p, i)
        <5>1. CASE s.op = "upsert"
          <6>1. req[p].type = "rotate_key" <=> RekeyAhead(p)
            BY <2>1, <2>3, <2>8, <5>1 DEF Planned, Local, Rekeys, RekeyAhead
          <6>2. QED
            BY <2>7, <2>12, <5>1, <6>1 DEF NewKey
        <5>2. CASE s.op = "rekey"
          BY <2>7, <2>12, <5>2 DEF NewKey
        <5>3. QED
          BY <2>7, <5>1, <5>2
      <4>2. row = [pubkey |-> row.pubkey, nonce |-> row.nonce, balance |-> row.balance]
        BY <2>2 DEF Row
      <4>3. QED
        BY <2>4, <2>6, <2>7, <2>9, <3>1, <4>1, <4>2 DEF RowPlanned
    <3>2. CASE j # i
      <4>1. j \in DOMAIN pending[p] /\ pending'[p][j] = RowPlanned(p, j)
        BY <2>6, <2>8, <3>2
      <4>2. s.op # "rekey"
        \* A rotation writes one row only.
        <5>1. s.op = "rekey" => Written(p) = {i}
          BY <2>7 DEF Written
        <5>2. QED
          BY <2>8, <3>2, <4>1, <5>1
      <4>3. QED
        BY <2>4, <2>9, <2>12, <4>1, <4>2 DEF RowPlanned
    <3>3. QED
      BY <3>1, <3>2
  <2>16. AsPlanned(p)'
    <3>1. RekeyLast(p)'
      <4>1. RekeyLast(p)
        BY <2>1 DEF Own, AsPlanned
      <4>2. \A n \in DOMAIN todo'[p] :
                n + 1 \in DOMAIN todo[p] /\ n + 1 # 1 /\ todo'[p][n] = todo[p][n + 1]
        BY <2>3, <2>4
      <4>3. QED
        BY <2>4, <4>1, <4>2 DEF RekeyLast
    <3>2. QED
      BY <2>8, <2>10, <2>13, <2>14, <2>15, <3>1 DEF AsPlanned
  <2>17. Enrolled(p)'
    BY <1>2, <2>10 DEF Enrolled
  <2>18. StillMay(p)'
    <3>1. \A tx, j : SignerMay(tx, j)' <=> SignerMay(tx, j)
      BY <2>4 DEF SignerMay, L!HoldsKey, L!NextNonce, L!NotSelf, L!HasFunds, L!TreasuryDscID
    <3>2. \A tx : ReclaimableFrom(tx)' <=> ReclaimableFrom(tx)
      BY <2>4 DEF ReclaimableFrom, L!NotActivated, L!HasFunds
    <3>3. HoldsLock(p)' => HoldsLock(p)
      BY <2>1, <2>10 DEF HoldsLock
    <3>4. pc'[p] # "other"
      BY <2>6 DEF Writes
    <3>5. QED
      BY <2>1, <2>4, <3>1, <3>2, <3>3, <3>4 DEF Own, StillMay, L!TreasuryDscID
  <2>19. SupplySeen(p)'
    BY <2>4, <2>6 DEF SupplySeen, requiresFullSupplyCheck, Registers
  <2>20. QED
    BY <2>16, <2>17, <2>18, <2>19 DEF Own
<1>3. CASE ~ Rollback(p) /\ Registers(p)
  BY <1>3, EnrolOwn
<1>4. QED
  BY <1>1, <1>2, <1>3

\* The row that a statement writes has a key that is on no other row: UNIQUE has
\* compared it with the committed rows and with those of the transaction, and
\* another transaction that has written the key would have made it wait.
LEMMA WrittenKeyAlone ==
    ASSUME OrderlyInv, NEW p \in Procs, Write(p), ~ Rollback(p),
           NEW i, NEW k, i = Target(p, Head(todo[p])), k = NewRow(p, Head(todo[p])).pubkey
    PROVE  KeyAlone(p, i, k)
<1> SUFFICES ASSUME k # NoKey
             PROVE  /\ \A j \in Ids \ {i} : pubkey[j] # k
                    /\ \A q \in Procs \ {p} : \A j \in DOMAIN pending[q] : pending[q][j].pubkey # k
  BY DEF KeyAlone
<1>1. /\ pc[p] = "write" /\ i \in held[p] /\ ~ KeyTaken(p, i, k)
      /\ k # KeyOf(p, i) => \A q \in Procs \ {p} : k \notin HeldKeys(q)
  BY DEF Write, KeyWait
<1>2. /\ Inv /\ Types /\ Own(p) /\ Active(p) /\ i \in Ids /\ pc[p] \in Writes
      /\ req[p] \in Request /\ req[p] # None /\ KeysApart /\ L!OneHolderPerKey
  BY <1>1, OrderlyParts, RowWritten DEF Active, OrderlyInv, Writes
<1>3. ~ Registers(p) => /\ i \in Written(p) /\ DOMAIN pending[p] \subseteq Written(p)
                        /\ \A j \in DOMAIN pending[p] : pending[p][j] = RowPlanned(p, j)
  BY <1>1, <1>2, WriteTarget DEF Own, AsPlanned, Writes, HoldsLock
<1>4. \A j \in Ids \ {i} : KeyOf(p, j) # k
  BY <1>1 DEF KeyTaken
\* A committed row with the key would be seen, unless the transaction has changed
\* its key, which it does only in its one row.
<1>5. ASSUME NEW j \in Ids \ {i}
      PROVE  pubkey[j] = KeyOf(p, j)
  <2>1. CASE j \in DOMAIN pending[p]
    <3>0. ~ Registers(p)
      <4>1. Registers(p) => pending[p] = <<>>
        BY EnrolOwn
      <4>2. DOMAIN <<>> = {}
        OBVIOUS
      <4>3. QED
        BY <2>1, <4>1, <4>2
    <3>1. KeyOf(p, j) = RowPlanned(p, j).pubkey
      BY <1>2, <1>3, <2>1, <3>0, RowSeen DEF KeyOf
    <3>2. req[p].type \in {"transfer", "reclaim_invalid"}
      <4>1. req[p].type \in {"genesis", "transfer", "rotate_key", "reclaim_invalid"}
        BY <1>2, <3>0, RequestKinds DEF Registers
      <4>2. req[p].type \notin {"transfer", "reclaim_invalid"} =>
                \A x \in Written(p), y \in Written(p) : x = y
        BY <4>1 DEF Written
      <4>3. QED
        BY <1>3, <2>1, <3>0, <4>2
    <3>3. NewKey(p, j) = pubkey[j]
      BY <3>2 DEF NewKey
    <3>4. QED
      BY <3>1, <3>3 DEF RowPlanned
  <2>2. CASE j \notin DOMAIN pending[p]
    BY <1>2, <2>2, RowSeen, OrderlyParts DEF KeyOf, Absent
  <2>3. QED
    BY <2>1, <2>2
<1>6. \A j \in Ids \ {i} : pubkey[j] # k
  BY <1>4, <1>5
<1>7. ASSUME NEW q \in Procs \ {p}, NEW j \in DOMAIN pending[q], pending[q][j].pubkey = k
      PROVE  FALSE
  <2>1. KeyAlone(q, j, k)
    BY <1>2, <1>7 DEF KeysApart
  <2>2. j # i
    BY <1>1, <1>2, <1>7, WritesApart
  <2>3. k = KeyOf(p, i)
    <3>1. k \in HeldKeys(q)
      BY <1>7 DEF HeldKeys
    <3>2. QED
      BY <1>1, <3>1
  <2>4. CASE i \in DOMAIN pending[p]
    <3>1. pending[p][i].pubkey = k
      BY <1>2, <2>3, <2>4, RowSeen DEF KeyOf
    <3>2. QED
      BY <2>1, <2>4, <3>1 DEF KeyAlone
  <2>5. CASE i \notin DOMAIN pending[p]
    <3>1. pubkey[i] = k
      BY <1>2, <2>3, <2>5, RowSeen DEF KeyOf
    <3>2. QED
      BY <1>2, <2>1, <2>2, <3>1 DEF KeyAlone
  <2>6. QED
    BY <2>4, <2>5
<1>8. QED
  BY <1>6, <1>7

\* A statement keeps the keys of the open transactions apart.
LEMMA WriteKeysApart ==
    ASSUME OrderlyInv, NEW p \in Procs, Write(p), ~ Rollback(p)
    PROVE  KeysApart'
<1> PICK i, row : i = Target(p, Head(todo[p])) /\ row = NewRow(p, Head(todo[p]))
  OBVIOUS
<1>1. KeyAlone(p, i, row.pubkey)
  BY WrittenKeyAlone
<1>2. /\ pubkey' = pubkey
      /\ pending'[p] = [j \in DOMAIN pending[p] \cup {i} |-> IF j = i THEN row ELSE pending[p][j]]
  <2>1. pending' = [pending EXCEPT ![p] =
            [j \in DOMAIN pending[p] \cup {i} |-> IF j = i THEN row ELSE pending[p][j]]]
    BY DEF Write
  <2>2. DOMAIN pending = Procs /\ pubkey' = pubkey
    BY OrderlyParts DEF Write, committed
  <2>3. QED
    BY <2>1, <2>2
<1>3. \A j \in DOMAIN pending'[p] :
          \/ j = i /\ pending'[p][j] = row
          \/ j \in DOMAIN pending[p] /\ pending'[p][j] = pending[p][j]
  BY <1>2
<1>4. \A q \in Procs \ {p} : pending'[q] = pending[q]
  BY OthersUntouched, OrderlyParts DEF StepOf
<1>5. KeysApart /\ i \in Ids
  BY OrderlyParts, RowWritten DEF OrderlyInv, Write
<1>6. ASSUME NEW j \in DOMAIN pending'[p]
      PROVE  KeyAlone(p, j, pending[p][j].pubkey)'
  <2>1. KeyAlone(p, j, pending'[p][j].pubkey)
    BY <1>1, <1>3, <1>5 DEF KeysApart
  <2>2. QED
    BY <1>2, <1>4, <2>1 DEF KeyAlone
<1>7. ASSUME NEW q \in Procs \ {p}, NEW j \in DOMAIN pending[q]
      PROVE  KeyAlone(q, j, pending[q][j].pubkey)'
  <2>1. KeyAlone(q, j, pending[q][j].pubkey)
    BY <1>5 DEF KeysApart
  <2>2. pending[q][j].pubkey # NoKey /\ row.pubkey # NoKey => row.pubkey # pending[q][j].pubkey
    BY <1>1 DEF KeyAlone
  <2>3. ASSUME pending[q][j].pubkey # NoKey, NEW r \in Procs \ {q}, NEW x \in DOMAIN pending'[r]
        PROVE  pending'[r][x].pubkey # pending[q][j].pubkey
    <3>1. CASE r # p
      BY <1>4, <2>1, <2>3, <3>1 DEF KeyAlone
    <3>2. CASE r = p
      BY <1>3, <2>1, <2>2, <2>3, <3>2 DEF KeyAlone
    <3>3. QED
      BY <3>1, <3>2
  <2>4. QED
    BY <1>2, <1>4, <2>1, <2>3 DEF KeyAlone
<1>8. QED
  BY <1>4, <1>6, <1>7 DEF KeysApart

\* Fewer rows have fewer keys.
LEMMA CloseKeysApart ==
    ASSUME OrderlyInv, NEW p \in Procs, StepOf(p), UNCHANGED committed,
           pending'[p] = <<>> \/ pending'[p] = pending[p]
    PROVE  KeysApart'
<1>1. \A q \in Procs \ {p} : pending'[q] = pending[q]
  BY OthersUntouched, OrderlyParts
<1>2. DOMAIN <<>> = {} /\ pubkey' = pubkey
  BY DEF committed
<1>3. \A q \in Procs : \A j \in DOMAIN pending'[q] :
          j \in DOMAIN pending[q] /\ pending'[q][j] = pending[q][j]
  BY <1>1, <1>2
<1>4. KeysApart
  BY DEF OrderlyInv
<1>5. QED
  BY <1>2, <1>3, <1>4 DEF KeysApart, KeyAlone

\* A step that is no commit keeps the invariant.
LEMMA QuietOrder ==
    ASSUME OrderlyInv, NEW p \in Procs, StepOf(p), ~ Commit(p)
    PROVE  OrderlyInv'
<1>1. UNCHANGED committed
  BY OnlyCommitsWrite
<1>2. Inv'
  BY OrderlyParts, InvStep DEF Next, StepOf
<1>3. L!OneHolderPerKey' /\ Absent'
  BY <1>1 DEF committed, OrderlyInv, L!OneHolderPerKey, Absent
<1>4. KeysApart'
  <2>1. CASE Write(p) /\ ~ Rollback(p)
    BY <2>1, WriteKeysApart
  <2>2. CASE ~ (Write(p) /\ ~ Rollback(p))
    <3>1. pending'[p] = <<>> \/ pending'[p] = pending[p]
      <4>1. Rollback(p) => pending'[p] = <<>>
        BY OrderlyParts, Closing DEF Rollback
      <4>2. QED
        BY <2>2, <4>1 DEF StepOf, Step, Begin, LockLedger, LastTx, ReadSigner, ReadOther,
           ReadRegistrant, TakeRow, InsertTx, CheckSupply, Abort, Victim
    <3>2. QED
      BY <1>1, <3>1, CloseKeysApart
  <2>3. QED
    BY <2>1, <2>2
<1>5. Own(p)'
  <2>1. CASE Close(p)
    BY <2>1, OrderlyParts, ClosedOwn
  <2>2. CASE (InsertTx(p) \/ CheckSupply(p)) /\ ~ Close(p)
    <3>1. /\ req' = req /\ read' = read /\ todo' = todo /\ pending' = pending
          /\ pc[p] \in {"insert", "check"} /\ pc'[p] \in {"check", "commit"}
          /\ pc'[p] = "commit" => /\ pc[p] = "check"
                                  /\ requiresFullSupplyCheck(req[p]) => TotalSeenBy(p) = SupplyCap
      BY <2>2, OrderlyParts DEF InsertTx, CheckSupply, Rollback, Goto
    <3>2. ~ Registers(p)
      BY <3>1, OrderlyParts DEF Local, Kinds
    <3>3. CASE pc'[p] # "commit"
      BY <1>1, <3>1, <3>3, OrderlyParts, SameOwn DEF Writes
    <3>4. CASE pc'[p] = "commit"
      <4>1. TotalSeenBy(p)' = TotalSeenBy(p)
        BY <1>1, <3>1 DEF TotalSeenBy, RowOf, committed
      <4>2. SupplySeen(p)'
        BY <3>1, <3>4, <4>1 DEF SupplySeen, requiresFullSupplyCheck
      <4>3. Own(p) /\ pc[p] = "check" /\ pc[p] \in Writes /\ pc'[p] \in Writes
        BY <3>1, <3>4, OrderlyParts DEF Writes
      <4>4. Enrolled(p)'
        BY <3>1, <3>2 DEF Enrolled, Registers
      <4>5. StillMay(p)'
        <5>1. \A tx, i : SignerMay(tx, i)' <=> SignerMay(tx, i)
          BY <1>1 DEF committed, SignerMay, L!HoldsKey, L!NextNonce, L!NotSelf, L!HasFunds,
             L!TreasuryDscID
        <5>2. \A tx : ReclaimableFrom(tx)' <=> ReclaimableFrom(tx)
          BY <1>1 DEF committed, ReclaimableFrom, L!NotActivated, L!HasFunds
        <5>3. HoldsLock(p)' => HoldsLock(p)
          BY <3>1, <4>3 DEF HoldsLock, Registers
        <5>4. QED
          BY <3>1, <3>4, <4>3, <5>1, <5>2, <5>3 DEF Own, StillMay, L!TreasuryDscID
      <4>6. AsPlanned(p)'
        <5>1. /\ Written(p)' = Written(p) /\ Upserted(p)' = Upserted(p)
              /\ (RekeyLast(p)' <=> RekeyLast(p)) /\ (RekeyAhead(p)' <=> RekeyAhead(p))
              /\ (Registers(p)' <=> Registers(p))
          BY <3>1 DEF Written, Upserted, RekeyLast, RekeyAhead, Registers
        <5>2. \A i : Delta(p, i)' = Delta(p, i)
          BY <3>1, <5>1 DEF Delta, Leaf
        <5>3. \A i : /\ NewKey(p, i)' = NewKey(p, i) /\ NewNonce(p, i)' = NewNonce(p, i)
                     /\ NewBalance(p, i)' = NewBalance(p, i)
          BY <1>1, <3>1, <5>2 DEF committed, NewKey, NewNonce, NewBalance
        <5>4. \A s : Planned(p, s)' <=> Planned(p, s)
          BY <1>1, <3>1, <5>1, <5>3 DEF committed, Planned
        <5>5. \A i : RowPlanned(p, i)' = RowPlanned(p, i)
          BY <1>1, <5>1, <5>3 DEF committed, RowPlanned
        <5>6. QED
          BY <3>1, <3>2, <4>3, <5>1, <5>4, <5>5 DEF Own, AsPlanned, HoldsLock
      <4>7. QED
        BY <4>2, <4>4, <4>5, <4>6 DEF Own
    <3>5. QED
      BY <3>3, <3>4
  <2>3. CASE TakeRow(p)
    BY <1>1, <2>3, SameOwn, OrderlyParts DEF TakeRow
  <2>4. QED
    BY <2>1, <2>2, <2>3, BeginsOwn, ReadSignerOwn, ReadOtherOwn, ReadRegistrantOwn, WriteOwn
    DEF StepOf, Step, Abort, Victim, Rollback
<1>6. ASSUME NEW q \in Procs, q # p
      PROVE  Own(q)'
  <2>1. /\ pc'[q] = pc[q] /\ req'[q] = req[q] /\ read'[q] = read[q]
        /\ todo'[q] = todo[q] /\ pending'[q] = pending[q]
    BY <1>6, OrderlyParts, OthersUntouched
  <2>2. Own(q)
    BY OrderlyParts
  <2>3. QED
    BY <1>1, <2>1, <2>2, SameOwn
<1>7. QED
  BY <1>2, <1>3, <1>4, <1>5, <1>6 DEF OrderlyInv

-----------------------------------------------------------------------------
(* The commits: each is an action of module Ledger.                         *)

\* What a commit writes is what the atomic action would write, and a key that it
\* writes is on no other row.
LEMMA CommitPlanned ==
    ASSUME OrderlyInv, NEW p \in Procs, Commit(p), ~ Registers(p)
    PROVE  /\ DOMAIN pending[p] = Written(p) /\ Written(p) \subseteq Ids
           /\ rows' = rows \cup Written(p)
           /\ \A i \in Written(p) :
                 /\ pubkey'[i] = NewKey(p, i) /\ nonce'[i] = NewNonce(p, i)
                 /\ balance'[i] = NewBalance(p, i)
                 /\ NewKey(p, i) # NoKey => \A j \in Ids \ {i} : pubkey[j] # NewKey(p, i)
           /\ \A i \in Ids \ Written(p) :
                 /\ pubkey'[i] = pubkey[i] /\ nonce'[i] = nonce[i] /\ balance'[i] = balance[i]
<1>1. /\ pc[p] = "commit" /\ pc[p] \in Writes /\ Inv /\ Local(p) /\ Own(p) /\ KeysApart
      /\ DOMAIN pending[p] \subseteq Ids /\ HoldsLock(p)
  BY OrderlyParts, Committing DEF Writes, OrderlyInv, HoldsLock
<1>2. todo[p] = <<>> /\ DOMAIN <<>> = {}
  BY <1>1 DEF Local, Buffers
<1>3. ~ RekeyAhead(p) /\ Upserted(p) = {}
  BY <1>2 DEF RekeyAhead, Upserted
<1>4. /\ DOMAIN pending[p] = Written(p)
      /\ \A i \in Written(p) : pending[p][i] = RowPlanned(p, i)
  BY <1>1, <1>3 DEF Own, AsPlanned
<1>5. \A i \in Written(p) : /\ pending[p][i].pubkey = NewKey(p, i)
                            /\ pending[p][i].nonce = NewNonce(p, i)
                            /\ pending[p][i].balance = NewBalance(p, i)
  <2> SUFFICES ASSUME NEW i \in Written(p)
               PROVE  /\ RowPlanned(p, i).pubkey = NewKey(p, i)
                      /\ RowPlanned(p, i).nonce = NewNonce(p, i)
                      /\ RowPlanned(p, i).balance = NewBalance(p, i)
    BY <1>4
  <2>1. RowPlanned(p, i) = [pubkey |-> NewKey(p, i), nonce |-> NewNonce(p, i),
                            balance |-> NewBalance(p, i)]
    BY <1>3 DEF RowPlanned
  <2>2. QED
    BY <2>1
<1>6. \A i \in Written(p) :
          NewKey(p, i) # NoKey => \A j \in Ids \ {i} : pubkey[j] # NewKey(p, i)
  BY <1>1, <1>4, <1>5 DEF KeysApart, KeyAlone
<1>7. /\ rows' = rows \cup Written(p) /\ Written(p) \subseteq Ids
      /\ \A i \in Ids \ Written(p) :
            /\ pubkey'[i] = pubkey[i] /\ nonce'[i] = nonce[i] /\ balance'[i] = balance[i]
  BY <1>1, <1>4, Committing
<1>8. \A i \in Written(p) : /\ pubkey'[i] = NewKey(p, i) /\ nonce'[i] = NewNonce(p, i)
                            /\ balance'[i] = NewBalance(p, i)
  <2>1. \A i \in DOMAIN pending[p] : /\ pubkey'[i] = pending[p][i].pubkey
                                     /\ nonce'[i] = pending[p][i].nonce
                                     /\ balance'[i] = pending[p][i].balance
    BY Committing, <1>1
  <2>2. QED
    BY <1>4, <1>5, <2>1
<1>9. QED
  BY <1>4, <1>6, <1>7, <1>8

\* The commit of a registration that was not overtaken attaches a first key to its
\* row, which it may create, or finds the key there.
LEMMA CommitRegister ==
    ASSUME OrderlyInv, NEW p \in Procs, Commit(p), Registers(p), ~ Overtaken(p)
    PROVE  /\ req[p].id \in Ids /\ req[p].id > L!TreasuryDscID /\ req[p].key \in Keys
           /\ DOMAIN pending[p] = {req[p].id} /\ rows' = rows \cup {req[p].id}
           /\ nonce' = nonce /\ balance' = balance /\ log' = log
           /\ \/ L!Register(req[p].id, req[p].key)
              \/ UNCHANGED tables
<1> PICK i, k : i = req[p].id /\ k = req[p].key
  OBVIOUS
<1>1. /\ Inv /\ Own(p) /\ Local(p) /\ Absent /\ KeysApart /\ pc[p] = "commit" /\ Active(p)
      /\ pubkey \in [Ids -> Keys \cup {NoKey}] /\ pubkey' \in [Ids -> Keys \cup {NoKey}]
      /\ nonce \in [Ids -> Nat] /\ nonce' \in [Ids -> Nat]
      /\ balance \in [Ids -> Nat] /\ balance' \in [Ids -> Nat] /\ rows \subseteq Ids
      /\ log' = log /\ req[p] \in Request /\ req[p].type = "register"
  BY OrderlyParts, Committing DEF Registers, OrderlyInv
<1>2. i \in Ids /\ k \in Keys /\ i > L!TreasuryDscID /\ k # NoKey /\ i # None
  BY <1>1, RequestFields, LedgerAssumption, NoneAssumption
<1>3. /\ Attaches(p) \/ Creates(p)
      /\ Attaches(p) => i \in rows
      /\ \A j \in DOMAIN pending[p] :
            pending[p][j] = [pubkey |-> k, nonce |-> IF Attaches(p) THEN nonce[j] ELSE 0,
                             balance |-> IF Attaches(p) THEN balance[j] ELSE 0]
  BY <1>1 DEF Own, Enrolled, Writes
<1>4. DOMAIN pending[p] = {i}
  BY <1>1 DEF Local, OneWrite
<1>5. /\ Attaches(p) => pubkey[i] \in {NoKey, k}
      /\ ~ Attaches(p) => /\ i \notin rows /\ pubkey[i] = NoKey
                          /\ nonce[i] = 0 /\ balance[i] = 0
  <2>1. CASE Attaches(p)
    <3>1. read[p].id = i
      BY <2>1 DEF Attaches
    <3>2. QED
      BY <1>1, <1>2, <2>1, <3>1 DEF Overtaken
  <2>2. CASE ~ Attaches(p)
    <3>1. read[p].id = None
      BY <1>3, <2>2 DEF Creates
    <3>2. i \notin rows
      BY <1>1, <3>1 DEF Overtaken
    <3>3. QED
      BY <1>1, <1>2, <2>2, <3>2 DEF Absent
  <2>3. QED
    BY <2>1, <2>2
<1>6. PICK row : row = [pubkey |-> k, nonce |-> nonce[i], balance |-> balance[i]]
  OBVIOUS
<1>7. pending[p][i] = row
  BY <1>3, <1>4, <1>5, <1>6
<1>8. /\ rows' = rows \cup {i}
      /\ pubkey'[i] = k /\ nonce'[i] = nonce[i] /\ balance'[i] = balance[i]
      /\ \A j \in Ids \ {i} : /\ pubkey'[j] = pubkey[j] /\ nonce'[j] = nonce[j]
                              /\ balance'[j] = balance[j]
  BY <1>1, <1>2, <1>4, <1>6, <1>7, Committing
<1>9. pubkey' = [pubkey EXCEPT ![i] = k] /\ nonce' = nonce /\ balance' = balance
  BY <1>1, <1>2, <1>8
<1>10. L!KeyFreeFor(i, k)
  <2>1. KeyAlone(p, i, k)
    BY <1>1, <1>4, <1>6, <1>7 DEF KeysApart
  <2>2. QED
    BY <1>1, <1>2, <2>1 DEF KeyAlone, L!KeyFreeFor
<1>11. CASE pubkey[i] = NoKey
  <2>1. L!Register(i, k)
    BY <1>1, <1>2, <1>8, <1>9, <1>10, <1>11 DEF L!Register, L!NotActivated
  <2>2. QED
    BY <1>1, <1>2, <1>4, <1>8, <1>9, <2>1
<1>12. CASE pubkey[i] # NoKey
  <2>1. i \in rows /\ pubkey[i] = k
    BY <1>3, <1>5, <1>12
  <2>2. rows' = rows /\ pubkey' = pubkey
    BY <1>1, <1>2, <1>8, <1>9, <2>1
  <2>3. UNCHANGED tables
    BY <1>1, <1>9, <2>2 DEF tables
  <2>4. QED
    BY <1>1, <1>2, <1>4, <1>8, <1>9, <2>3
<1>13. QED
  BY <1>11, <1>12

\* What the holder of the lock has decided when it commits.
LEMMA CommitDecided ==
    ASSUME OrderlyInv, NEW p \in Procs, Commit(p), ~ Registers(p)
    PROVE  /\ req[p] \in L!Tx /\ read[p].id \in Ids /\ WellFormed(req[p])
           /\ L!AppendLeaf(req[p], read[p].id)
           /\ req[p].type = "genesis" => read[p].id = L!TreasuryDscID
           /\ req[p].type # "genesis" => SignerMay(req[p], read[p].id)
           /\ req[p].type = "reclaim_invalid" => ReclaimableFrom(req[p])
           /\ req[p].type # "rotate_key" => req[p].amount \in Nat
<1>1. /\ Inv /\ Own(p) /\ Local(p) /\ pc[p] = "commit" /\ Active(p) /\ pc[p] \in Writes
      /\ HoldsLock(p) /\ log' = Append(log, Leaf(p))
  BY OrderlyParts, Committing DEF Writes, HoldsLock
<1>2. req[p] \in L!Tx
  BY <1>1, OrderlyParts, RequestKinds DEF Registers
<1>3. /\ read[p].id \in Ids /\ WellFormed(req[p])
      /\ Len(log) < MaxLog /\ (log = <<>> <=> req[p].type = "genesis")
  BY <1>1 DEF Local, Decided
<1>4. L!AppendLeaf(req[p], read[p].id)
  BY <1>1, <1>3 DEF L!AppendLeaf, Leaf
<1>5. req[p].type # "rotate_key" => req[p].amount \in Nat
  BY <1>1, <1>3, LeafAmounts
<1>6. QED
  BY <1>1, <1>2, <1>3, <1>4, <1>5 DEF Own, StillMay

\* The sum that a transaction sees of the rows is the sum of the balances that its
\* commit leaves.
LEMMA CommitTotal ==
    ASSUME OrderlyInv, NEW p \in Procs, Commit(p)
    PROVE  Total(balance') = TotalSeenBy(p)
<1> DEFINE seen == [i \in Ids |-> IF RowOf(p, i) = None THEN 0 ELSE RowOf(p, i).balance]
<1>1. /\ Inv /\ Types /\ Absent /\ DOMAIN pending[p] \subseteq Ids
      /\ balance' \in [Ids -> Nat] /\ balance \in [Ids -> Nat]
  BY OrderlyParts, Committing
<1>2. ASSUME NEW i \in Ids
      PROVE  balance'[i] = seen[i]
  <2>1. CASE i \in DOMAIN pending[p]
    BY <1>1, <2>1, RowSeen, Committing
  <2>2. CASE i \notin DOMAIN pending[p] /\ i \in rows
    BY <1>1, <2>2, RowSeen, Committing
  <2>3. CASE i \notin DOMAIN pending[p] /\ i \notin rows
    BY <1>1, <2>3, RowSeen, Committing DEF Absent
  <2>4. QED
    BY <2>1, <2>2, <2>3
<1>3. balance' = seen
  BY <1>1, <1>2
<1>4. QED
  BY <1>3 DEF TotalSeenBy

\* The sum of module Ledger is the same operator.
LEMMA LedgerTotal ==
    ASSUME NEW f
    PROVE  L!Total(f) = Total(f)
<1>1. \A S : L!Cardinality(S) = Cardinality(S)
  BY DEF L!Cardinality, Cardinality
<1>2. L!Units(f) = Units(f)
  BY DEF L!Units, Units
<1>3. QED
  BY <1>1, <1>2 DEF L!Total, Total

\* The commit of a genesis.
LEMMA CommitGenesis ==
    ASSUME OrderlyInv, NEW p \in Procs, Commit(p), ~ Registers(p), req[p].type = "genesis"
    PROVE  L!Genesis(req[p])
<1> PICK i, tx : i = L!TreasuryDscID /\ tx = req[p]
  OBVIOUS
<1>1. /\ Inv /\ Types /\ Absent /\ Own(p) /\ pc[p] = "commit" /\ rows \subseteq Ids
      /\ pubkey \in [Ids -> Keys \cup {NoKey}] /\ pubkey' \in [Ids -> Keys \cup {NoKey}]
      /\ nonce \in [Ids -> Nat] /\ nonce' \in [Ids -> Nat]
      /\ balance \in [Ids -> Nat] /\ balance' \in [Ids -> Nat]
  BY OrderlyParts, Committing
<1>2. /\ tx \in L!Tx /\ i \in Ids /\ read[p].id = i /\ L!AppendLeaf(tx, i)
      /\ tx.amount = SupplyCap /\ tx.signer = tx.to /\ WellFormed(tx)
  BY CommitDecided, LedgerAssumption DEF WellFormed
<1>3. log = <<>> /\ i \notin rows /\ nonce[i] = 0 /\ balance[i] = 0
  BY <1>1, <1>2 DEF L!AppendLeaf, Absent
<1>4. /\ L!CreditOf(Leaf(p), i) = SupplyCap /\ L!DebitOf(Leaf(p), i) = 0
  BY <1>2, DeltaOf DEF Leaf
<1>5. /\ Written(p) = {i} /\ NewKey(p, i) = tx.to /\ NewNonce(p, i) = 0
      /\ NewBalance(p, i) = SupplyCap
  BY <1>2, <1>3, <1>4, LedgerAssumption DEF Written, NewKey, NewNonce, NewBalance, Delta
<1>6. /\ rows' = rows \cup {i}
      /\ pubkey'[i] = tx.to /\ nonce'[i] = 0 /\ balance'[i] = SupplyCap
      /\ tx.to # NoKey => \A j \in Ids \ {i} : pubkey[j] # tx.to
      /\ \A j \in Ids \ {i} : /\ pubkey'[j] = pubkey[j] /\ nonce'[j] = nonce[j]
                              /\ balance'[j] = balance[j]
  BY <1>5, CommitPlanned
<1>7. /\ pubkey' = [pubkey EXCEPT ![i] = tx.to] /\ nonce' = [nonce EXCEPT ![i] = 0]
      /\ balance' = [balance EXCEPT ![i] = SupplyCap]
  BY <1>1, <1>2, <1>6
<1>8. L!KeyFreeFor(i, tx.to)
  <2>1. tx.to \in Keys
    BY <1>2, RequestKinds DEF Request, L!GenesisTx
  <2>2. QED
    BY <1>1, <1>6, <2>1, LedgerAssumption DEF L!KeyFreeFor
<1>9. L!Total(balance') = SupplyCap
  BY <1>1, CommitTotal, LedgerTotal DEF Own, SupplySeen, requiresFullSupplyCheck
<1>10. QED
  BY <1>2, <1>6, <1>7, <1>8, <1>9 DEF L!Genesis

\* The commit of a transfer.
LEMMA CommitTransfer ==
    ASSUME OrderlyInv, NEW p \in Procs, Commit(p), ~ Registers(p), req[p].type = "transfer"
    PROVE  L!Transfer(req[p], read[p].id)
<1> PICK i, tx, to : i = read[p].id /\ tx = req[p] /\ to = tx.to
  OBVIOUS
<1>1. /\ Inv /\ pubkey \in [Ids -> Keys \cup {NoKey}] /\ pubkey' \in [Ids -> Keys \cup {NoKey}]
      /\ nonce \in [Ids -> Nat] /\ nonce' \in [Ids -> Nat]
      /\ balance \in [Ids -> Nat] /\ balance' \in [Ids -> Nat]
  BY OrderlyParts, Committing
<1>2. /\ tx \in L!Tx /\ i \in Ids /\ WellFormed(tx) /\ SignerMay(tx, i)
      /\ L!AppendLeaf(tx, i) /\ tx.amount \in Nat
  BY CommitDecided
<1>3. /\ L!PositiveAmount(tx.amount) /\ L!UserId(to) /\ tx.signer = tx.from
      /\ L!HoldsKey(i, tx.from) /\ L!NotSelf(i, to) /\ L!NextNonce(tx.nonce, i)
      /\ L!HasFunds(i, tx.amount) /\ i \in rows /\ i # to
  BY <1>2 DEF WellFormed, SignerMay, L!HoldsKey, L!NotSelf
<1>4. to \in Ids
  BY <1>2, RequestFields DEF Request
<1>5. \A j \in Ids : /\ L!CreditOf(Leaf(p), j) = IF j = to THEN tx.amount ELSE 0
                     /\ L!DebitOf(Leaf(p), j) = IF j = i THEN tx.amount ELSE 0
  BY <1>2, <1>3, DeltaOf DEF Leaf
<1>6. Delta(p, i) = 0 - tx.amount /\ Delta(p, to) = tx.amount
  BY <1>2, <1>3, <1>4, <1>5 DEF Delta
<1>7. /\ Written(p) = {i, to} /\ NewKey(p, i) = pubkey[i] /\ NewKey(p, to) = pubkey[to]
      /\ NewNonce(p, i) = tx.nonce /\ NewNonce(p, to) = nonce[to]
      /\ NewBalance(p, i) = balance[i] - tx.amount /\ NewBalance(p, to) = balance[to] + tx.amount
  BY <1>1, <1>2, <1>3, <1>4, <1>6 DEF Written, NewKey, NewNonce, NewBalance
<1>8. /\ rows' = rows \cup {i, to}
      /\ pubkey'[i] = pubkey[i] /\ pubkey'[to] = pubkey[to]
      /\ nonce'[i] = tx.nonce /\ nonce'[to] = nonce[to]
      /\ balance'[i] = balance[i] - tx.amount /\ balance'[to] = balance[to] + tx.amount
      /\ \A j \in Ids \ {i, to} : /\ pubkey'[j] = pubkey[j] /\ nonce'[j] = nonce[j]
                                  /\ balance'[j] = balance[j]
  BY <1>7, CommitPlanned
<1>9. pubkey' = pubkey /\ rows' = rows \cup {to}
  BY <1>1, <1>3, <1>8
<1>10. /\ nonce' = [nonce EXCEPT ![i] = tx.nonce, ![to] = nonce[to]]
       /\ balance' = [balance EXCEPT ![i] = balance[i] - tx.amount,
                                     ![to] = balance[to] + tx.amount]
  BY <1>1, <1>2, <1>3, <1>4, <1>8
<1>11. QED
  BY <1>2, <1>3, <1>9, <1>10 DEF L!Transfer

\* The commit of a rotation.
LEMMA CommitRotate ==
    ASSUME OrderlyInv, NEW p \in Procs, Commit(p), ~ Registers(p), req[p].type = "rotate_key"
    PROVE  L!RotateKey(req[p], read[p].id)
<1> PICK i, tx : i = read[p].id /\ tx = req[p]
  OBVIOUS
<1>1. /\ Inv /\ pubkey \in [Ids -> Keys \cup {NoKey}] /\ pubkey' \in [Ids -> Keys \cup {NoKey}]
      /\ nonce \in [Ids -> Nat] /\ nonce' \in [Ids -> Nat] /\ rows \subseteq Ids
      /\ balance \in [Ids -> Nat] /\ balance' \in [Ids -> Nat]
  BY OrderlyParts, Committing
<1>2. /\ tx \in L!Tx /\ i \in Ids /\ WellFormed(tx) /\ SignerMay(tx, i) /\ L!AppendLeaf(tx, i)
  BY CommitDecided
<1>3. /\ tx.signer = tx.oldKey /\ L!HoldsKey(i, tx.oldKey) /\ L!NextNonce(tx.nonce, i)
      /\ i \in rows
  BY <1>2 DEF WellFormed, SignerMay, L!HoldsKey
<1>4. tx.newKey \in Keys /\ tx.newKey # NoKey
  BY <1>2, RequestKinds, LedgerAssumption DEF Request, L!RotateTx
<1>5. L!CreditOf(Leaf(p), i) = 0 /\ L!DebitOf(Leaf(p), i) = 0
  BY <1>2, DeltaOf DEF Leaf
<1>6. /\ Written(p) = {i} /\ NewKey(p, i) = tx.newKey /\ NewNonce(p, i) = tx.nonce
      /\ NewBalance(p, i) = balance[i]
  BY <1>1, <1>2, <1>5 DEF Written, NewKey, NewNonce, NewBalance, Delta
<1>7. /\ rows' = rows \cup {i}
      /\ pubkey'[i] = tx.newKey /\ nonce'[i] = tx.nonce /\ balance'[i] = balance[i]
      /\ \A j \in Ids \ {i} : pubkey[j] # tx.newKey
      /\ \A j \in Ids \ {i} : /\ pubkey'[j] = pubkey[j] /\ nonce'[j] = nonce[j]
                              /\ balance'[j] = balance[j]
  BY <1>4, <1>6, CommitPlanned
<1>8. /\ pubkey' = [pubkey EXCEPT ![i] = tx.newKey] /\ nonce' = [nonce EXCEPT ![i] = tx.nonce]
      /\ balance' = balance /\ rows' = rows
  BY <1>1, <1>2, <1>3, <1>7
<1>9. L!KeyFreeFor(i, tx.newKey)
  BY <1>1, <1>7 DEF L!KeyFreeFor
<1>10. QED
  BY <1>2, <1>3, <1>8, <1>9 DEF L!RotateKey

\* The commit of a reclaim.
LEMMA CommitReclaim ==
    ASSUME OrderlyInv, NEW p \in Procs, Commit(p), ~ Registers(p),
           req[p].type = "reclaim_invalid"
    PROVE  L!ReclaimInvalid(req[p])
<1> PICK i, tx, from : i = L!TreasuryDscID /\ tx = req[p] /\ from = tx.from
  OBVIOUS
<1>1. /\ Inv /\ Own(p) /\ pc[p] = "commit"
      /\ pubkey \in [Ids -> Keys \cup {NoKey}] /\ pubkey' \in [Ids -> Keys \cup {NoKey}]
      /\ nonce \in [Ids -> Nat] /\ nonce' \in [Ids -> Nat]
      /\ balance \in [Ids -> Nat] /\ balance' \in [Ids -> Nat]
  BY OrderlyParts, Committing
<1>2. /\ tx \in L!Tx /\ i \in Ids /\ read[p].id = i /\ WellFormed(tx) /\ SignerMay(tx, i)
      /\ L!AppendLeaf(tx, i) /\ tx.amount \in Nat /\ ReclaimableFrom(tx)
  BY CommitDecided DEF SignerMay
<1>3. /\ L!PositiveAmount(tx.amount) /\ from < L!TreasuryDscID /\ tx.signer = tx.admin
      /\ L!HoldsKey(i, tx.admin) /\ L!NextNonce(tx.nonce, i) /\ i \in rows
      /\ from \in rows /\ L!NotActivated(from) /\ L!HasFunds(from, tx.amount)
  BY <1>2 DEF WellFormed, SignerMay, ReclaimableFrom, L!HoldsKey
<1>4. from \in Ids
  BY <1>2, RequestFields DEF Request
<1>5. from # i
  BY <1>3, <1>4, LedgerAssumption DEF L!TreasuryDscID
<1>6. \A j \in Ids : /\ L!CreditOf(Leaf(p), j) = IF j = i THEN tx.amount ELSE 0
                     /\ L!DebitOf(Leaf(p), j) = IF j = from THEN tx.amount ELSE 0
  BY <1>2, <1>3, DeltaOf DEF Leaf
<1>7. Delta(p, from) = 0 - tx.amount /\ Delta(p, i) = tx.amount
  BY <1>2, <1>4, <1>5, <1>6 DEF Delta
<1>8. /\ Written(p) = {from, i} /\ NewKey(p, i) = pubkey[i] /\ NewKey(p, from) = pubkey[from]
      /\ NewNonce(p, i) = tx.nonce /\ NewNonce(p, from) = nonce[from]
      /\ NewBalance(p, i) = balance[i] + tx.amount
      /\ NewBalance(p, from) = balance[from] - tx.amount
  BY <1>1, <1>2, <1>4, <1>5, <1>7 DEF Written, NewKey, NewNonce, NewBalance
<1>9. /\ rows' = rows \cup {from, i}
      /\ pubkey'[i] = pubkey[i] /\ pubkey'[from] = pubkey[from]
      /\ nonce'[i] = tx.nonce /\ nonce'[from] = nonce[from]
      /\ balance'[i] = balance[i] + tx.amount /\ balance'[from] = balance[from] - tx.amount
      /\ \A j \in Ids \ {from, i} : /\ pubkey'[j] = pubkey[j] /\ nonce'[j] = nonce[j]
                                    /\ balance'[j] = balance[j]
  BY <1>8, CommitPlanned
<1>10. pubkey' = pubkey /\ rows' = rows
  BY <1>1, <1>3, <1>9
<1>11. /\ nonce' = [nonce EXCEPT ![i] = tx.nonce]
       /\ balance' = [balance EXCEPT ![from] = balance[from] - tx.amount,
                                     ![i] = balance[i] + tx.amount]
  BY <1>1, <1>2, <1>4, <1>5, <1>9
<1>12. L!Total(balance') = SupplyCap
  BY <1>1, CommitTotal, LedgerTotal DEF Own, SupplySeen, requiresFullSupplyCheck
<1>13. QED
  BY <1>2, <1>3, <1>10, <1>11, <1>12 DEF L!ReclaimInvalid

\* Every commit that changes the tables is a step of module Ledger.
LEMMA CommitImplements ==
    ASSUME OrderlyInv, NEW p \in Procs, Commit(p), ~ Overtaken(p)
    PROVE  L!Next \/ UNCHANGED tables
<1>1. CASE Registers(p)
  BY <1>1, CommitRegister DEF L!Next
<1>2. CASE ~ Registers(p)
  <2>1. req[p] \in L!Tx /\ req[p] \in Request /\ read[p].id \in Ids
    BY <1>2, CommitDecided DEF Request
  <2>2. /\ req[p].type = "genesis" => req[p] \in L!GenesisTx
        /\ req[p].type = "transfer" => req[p] \in L!TransferTx
        /\ req[p].type = "rotate_key" => req[p] \in L!RotateTx
        /\ req[p].type = "reclaim_invalid" => req[p] \in L!ReclaimTx
    BY <2>1, RequestKinds
  <2>3. req[p].type \in {"genesis", "transfer", "rotate_key", "reclaim_invalid"}
    BY <2>1 DEF L!Tx, L!GenesisTx, L!TransferTx, L!RotateTx, L!ReclaimTx
  <2>4. CASE req[p].type = "genesis"
    BY <1>2, <2>2, <2>4, CommitGenesis DEF L!Next
  <2>5. CASE req[p].type = "transfer"
    BY <1>2, <2>1, <2>2, <2>5, CommitTransfer DEF L!Next
  <2>6. CASE req[p].type = "rotate_key"
    BY <1>2, <2>1, <2>2, <2>6, CommitRotate DEF L!Next
  <2>7. CASE req[p].type = "reclaim_invalid"
    BY <1>2, <2>2, <2>7, CommitReclaim DEF L!Next
  <2>8. QED
    BY <2>3, <2>4, <2>5, <2>6, <2>7
<1>3. QED
  BY <1>1, <1>2

-----------------------------------------------------------------------------
(* A commit keeps the invariant.                                            *)

\* A commit sets one key at most, to one that is free.
LEMMA CommitKey ==
    ASSUME OrderlyInv, NEW p \in Procs, Commit(p), ~ Overtaken(p)
    PROVE  \/ pubkey' = pubkey
           \/ \E i \in rows', k \in Keys :
                 pubkey' = [pubkey EXCEPT ![i] = k] /\ L!KeyFreeFor(i, k)
<1>1. /\ rows \subseteq Ids /\ pubkey \in [Ids -> Keys \cup {NoKey}] /\ NoKey \notin Keys
  BY OrderlyParts, LedgerAssumption
<1>2. CASE Registers(p)
  BY <1>2, CommitRegister DEF L!Register, tables
<1>3. CASE ~ Registers(p)
  <2>1. /\ req[p] \in L!Tx /\ req[p] \in Request /\ read[p].id \in Ids
        /\ req[p].type \in {"genesis", "transfer", "rotate_key", "reclaim_invalid"}
    BY <1>3, CommitDecided DEF Request, L!Tx, L!GenesisTx, L!TransferTx, L!RotateTx, L!ReclaimTx
  <2>2. CASE req[p].type = "genesis"
    <3>1. L!Genesis(req[p]) /\ req[p].to \in Keys
      BY <1>3, <2>1, <2>2, CommitGenesis, RequestKinds DEF L!GenesisTx
    <3>2. QED
      BY <3>1 DEF L!Genesis
  <2>3. CASE req[p].type = "transfer"
    BY <1>3, <2>3, CommitTransfer DEF L!Transfer
  <2>4. CASE req[p].type = "rotate_key"
    <3>1. L!RotateKey(req[p], read[p].id) /\ req[p].newKey \in Keys /\ req[p].oldKey \in Keys
      BY <1>3, <2>1, <2>4, CommitRotate, RequestKinds DEF L!RotateTx
    <3>2. /\ read[p].id \in rows' /\ pubkey[read[p].id] = req[p].oldKey
          /\ pubkey' = [pubkey EXCEPT ![read[p].id] = req[p].newKey]
          /\ L!KeyFreeFor(read[p].id, req[p].newKey)
      BY <3>1 DEF L!RotateKey, L!HoldsKey
    <3>3. QED
      BY <3>1, <3>2
  <2>5. CASE req[p].type = "reclaim_invalid"
    BY <1>3, <2>5, CommitReclaim DEF L!ReclaimInvalid
  <2>6. QED
    BY <2>1, <2>2, <2>3, <2>4, <2>5
<1>4. QED
  BY <1>2, <1>3

\* The keys and the rows after a commit.
LEMMA CommitTables ==
    ASSUME OrderlyInv, NEW p \in Procs, Commit(p), ~ Overtaken(p)
    PROVE  L!OneHolderPerKey' /\ Absent' /\ KeysApart'
<1>1. /\ Inv /\ Types /\ Absent /\ L!OneHolderPerKey /\ KeysApart
      /\ rows \subseteq Ids /\ rows \subseteq rows' /\ rows' \subseteq Ids
      /\ pubkey \in [Ids -> Keys \cup {NoKey}] /\ NoKey \notin Keys
      /\ rows' = rows \cup DOMAIN pending[p]
  BY OrderlyParts, Committing, LedgerAssumption DEF OrderlyInv
<1>2. Absent'
  <2>1. \A i \in Ids \ rows' : pubkey'[i] = NoKey /\ nonce'[i] = 0 /\ balance'[i] = 0
    BY <1>1, Committing DEF Absent
  <2>2. log' = <<>> => L!TreasuryDscID \notin rows'
    <3>1. CASE Registers(p)
      <4>1. /\ log' = log /\ rows' = rows \cup {req[p].id}
            /\ req[p].id \in Ids /\ req[p].id > L!TreasuryDscID
        BY <3>1, CommitRegister
      <4>2. req[p].id # L!TreasuryDscID
        BY <4>1, LedgerAssumption DEF L!TreasuryDscID
      <4>3. QED
        BY <1>1, <4>1, <4>2 DEF Absent
    <3>2. CASE ~ Registers(p)
      <4>1. log' = Append(log, Leaf(p)) /\ log \in Seq(L!Entry) /\ Leaf(p) \in L!Entry
        BY <1>1, <3>2, Committing, OrderlyParts
      <4>2. Len(log') = Len(log) + 1 /\ Len(log) \in Nat
        BY <4>1
      <4>3. Len(<<>>) = 0
        OBVIOUS
      <4>4. QED
        BY <4>2, <4>3
    <3>3. QED
      BY <3>1, <3>2
  <2>3. QED
    BY <2>1, <2>2 DEF Absent, L!TreasuryDscID
<1>3. L!OneHolderPerKey'
  <2>1. \A i \in Ids \ rows' : pubkey'[i] = NoKey
    BY <1>2 DEF Absent
  <2>2. ASSUME NEW i \in Ids, NEW j \in Ids, i # j, pubkey'[i] = pubkey'[j]
        PROVE  pubkey'[i] = NoKey
    <3>1. CASE pubkey' = pubkey
      BY <1>1, <2>2, <3>1 DEF L!OneHolderPerKey
    <3>2. CASE pubkey' # pubkey
      <4>1. PICK x \in rows', k \in Keys :
                pubkey' = [pubkey EXCEPT ![x] = k] /\ L!KeyFreeFor(x, k)
        BY <3>2, CommitKey
      <4>2. \A y \in Ids \ {x} : pubkey'[y] = pubkey[y] /\ pubkey[y] # k
        BY <1>1, <4>1 DEF L!KeyFreeFor, L!OneHolderPerKey
      <4>3. pubkey'[x] = k
        BY <1>1, <4>1
      <4>4. QED
        BY <1>1, <2>2, <4>2, <4>3 DEF L!OneHolderPerKey
    <3>3. QED
      BY <3>1, <3>2
  <2>3. QED
    BY <2>1, <2>2 DEF L!OneHolderPerKey
<1>4. KeysApart'
  <2>1. DOMAIN <<>> = {} /\ pending'[p] = <<>>
    BY <1>1, Committing, Closing
  <2>2. \A q \in Procs \ {p} : pending'[q] = pending[q]
    BY <1>1, OthersUntouched DEF StepOf, Step
  <2>3. ASSUME NEW q \in Procs \ {p}, NEW j \in DOMAIN pending[q], pending[q][j].pubkey # NoKey
        PROVE  /\ \A x \in Ids \ {j} : pubkey'[x] # pending[q][j].pubkey
               /\ \A r \in Procs \ {q} : \A x \in DOMAIN pending'[r] :
                     pending'[r][x].pubkey # pending[q][j].pubkey
    <3>1. KeyAlone(q, j, pending[q][j].pubkey)
      BY <1>1 DEF KeysApart
    <3>2. ASSUME NEW x \in Ids \ {j}
          PROVE  pubkey'[x] # pending[q][j].pubkey
      <4>1. CASE x \in DOMAIN pending[p]
        BY <1>1, <2>3, <3>1, <4>1, Committing DEF KeyAlone
      <4>2. CASE x \notin DOMAIN pending[p]
        BY <1>1, <2>3, <3>1, <4>2, Committing DEF KeyAlone
      <4>3. QED
        BY <4>1, <4>2
    <3>3. \A r \in Procs \ {q} : \A x \in DOMAIN pending'[r] :
              pending'[r][x].pubkey # pending[q][j].pubkey
      BY <2>1, <2>2, <2>3, <3>1 DEF KeyAlone
    <3>4. QED
      BY <3>2, <3>3
  <2>4. QED
    BY <2>1, <2>2, <2>3 DEF KeysApart, KeyAlone
<1>5. QED
  BY <1>2, <1>3, <1>4

\* A registration that commits changes nothing of what the others have read, but
\* for the key of a row that had none, or for a new row with nothing else in it.
LEMMA RegisterOthers ==
    ASSUME OrderlyInv, NEW p \in Procs, Commit(p), Registers(p), ~ Overtaken(p),
           NEW q \in Procs, q # p
    PROVE  Own(q)'
<1> PICK i, k : i = req[p].id /\ k = req[p].key
  OBVIOUS
<1>1. /\ i \in Ids /\ k \in Keys /\ rows' = rows \cup {i} /\ DOMAIN pending[p] = {i}
      /\ L!Register(i, k) \/ UNCHANGED tables
  BY CommitRegister
<1>2. /\ i > L!TreasuryDscID /\ nonce' = nonce /\ balance' = balance /\ log' = log
  BY CommitRegister
<1>3. /\ Inv /\ Types /\ Own(q) /\ Local(q) /\ pubkey \in [Ids -> Keys \cup {NoKey}]
      /\ balance \in [Ids -> Nat] /\ nonce \in [Ids -> Nat]
      /\ rows \subseteq Ids /\ DOMAIN pending[q] \subseteq Ids /\ NoKey \notin Keys /\ Absent
      /\ (Active(q) => req[q] \in Request)
  BY OrderlyParts, LedgerAssumption DEF OrderlyInv
<1>4. /\ \A j \in Ids : j # i => pubkey'[j] = pubkey[j]
      /\ pubkey[i] = NoKey \/ pubkey'[i] = pubkey[i]
  BY <1>1, <1>3 DEF L!Register, L!NotActivated, tables
<1>5. /\ pc'[q] = pc[q] /\ req'[q] = req[q] /\ read'[q] = read[q]
      /\ todo'[q] = todo[q] /\ pending'[q] = pending[q]
  BY <1>3, OthersUntouched DEF StepOf, Step
<1>6. Registers(q)' <=> Registers(q)
  BY <1>5 DEF Registers
<1>7. i \notin DOMAIN pending[q]
  BY <1>1, <1>3, WritesApart
<1>8. Enrolled(q)'
  <2>1. (Attaches(q)' <=> Attaches(q)) /\ (Creates(q)' <=> Creates(q))
    BY <1>5 DEF Attaches, Creates
  <2>2. QED
    BY <1>1, <1>2, <1>3, <1>5, <1>6, <2>1 DEF Own, Enrolled
\* The signer of a payload holds a key.
<1>9. ASSUME SignerMay(req[q], read[q].id), req[q].type # "genesis",
             pc[q] = "other" \/ (HoldsLock(q) /\ pc[q] \in Writes)
      PROVE  SignerMay(req[q], read[q].id)' /\ pubkey'[read[q].id] = pubkey[read[q].id]
             /\ read[q].id \in Ids
  <2>1. req[q] \in L!Tx /\ read[q].id \in Ids
    <3>1. Active(q) /\ HoldsLock(q)
      BY <1>3, <1>9 DEF Active, HoldsLock, Writes, Local, Kinds
    <3>2. req[q] \in L!Tx
      BY <1>3, <3>1, RequestKinds, Serving DEF HoldsLock, Registers
    <3>3. read[q].id \in Ids
      BY <1>3, <1>9 DEF Local, Decided
    <3>4. QED
      BY <3>2, <3>3
  <2>2. req[q].signer \in Keys
    BY <2>1 DEF L!Tx, L!GenesisTx, L!TransferTx, L!RotateTx, L!ReclaimTx
  <2>3. pubkey[read[q].id] = req[q].signer
    BY <1>9 DEF SignerMay, L!HoldsKey
  <2>4. pubkey'[read[q].id] = pubkey[read[q].id]
    BY <1>3, <1>4, <2>1, <2>2, <2>3
  <2>5. SignerMay(req[q], read[q].id)'
    BY <1>1, <1>2, <1>5, <1>9, <2>4
    DEF SignerMay, L!HoldsKey, L!NextNonce, L!NotSelf, L!HasFunds, L!TreasuryDscID
  <2>6. QED
    BY <2>1, <2>4, <2>5
<1>10. ASSUME HoldsLock(q), pc[q] \in Writes, req[q].type = "reclaim_invalid",
              ReclaimableFrom(req[q])
       PROVE  ReclaimableFrom(req[q])'
  <2>1. WellFormed(req[q])
    BY <1>3, <1>10 DEF Local, Decided
  <2>2. req[q].from < L!TreasuryDscID /\ req[q].from \in rows
    BY <1>10, <2>1 DEF WellFormed, ReclaimableFrom
  <2>3. req[q].from # i /\ req[q].from \in Ids
    <3>1. req[q].from \in Ids /\ req[q].from \in Int /\ i \in Int
      BY <1>1, <1>3, <2>2, LedgerAssumption
    <3>2. QED
      BY <1>2, <2>2, <3>1 DEF L!TreasuryDscID
  <2>4. QED
    BY <1>1, <1>2, <1>4, <1>5, <1>10, <2>3 DEF ReclaimableFrom, L!NotActivated, L!HasFunds
<1>11. StillMay(q)'
  <2>1. HoldsLock(q)' => HoldsLock(q)
    BY <1>5, <1>6 DEF HoldsLock
  <2>2. pc[q] = "other" => req[q].type # "genesis"
    BY <1>3 DEF Local, Kinds
  <2>3. pc[q] = "other" => /\ SignerMay(req[q], read[q].id)'
                           /\ read[q].key = pubkey'[read[q].id]
                           /\ read[q].balance = balance'[read[q].id]
    BY <1>2, <1>3, <1>9, <2>2 DEF Own, StillMay
  <2>4. HoldsLock(q) /\ pc[q] \in Writes =>
          /\ req[q].type = "genesis" => read[q].id = L!TreasuryDscID
          /\ req[q].type # "genesis" => SignerMay(req[q], read[q].id)'
          /\ req[q].type = "reclaim_invalid" => ReclaimableFrom(req[q])'
    BY <1>3, <1>9, <1>10 DEF Own, StillMay
  <2>5. QED
    BY <1>5, <2>1, <2>3, <2>4 DEF StillMay, L!TreasuryDscID
<1>12. AsPlanned(q)'
  <2> SUFFICES ASSUME pc[q] \in Writes, HoldsLock(q)
               PROVE  /\ RekeyLast(q)' /\ Written(q)' = DOMAIN pending'[q] \cup Upserted(q)'
                      /\ \A n \in DOMAIN todo[q] : Planned(q, todo[q][n])'
                      /\ \A j \in DOMAIN pending[q] : pending[q][j] = RowPlanned(q, j)'
    BY <1>5, <1>6 DEF AsPlanned, HoldsLock
  <2>1. /\ RekeyLast(q) /\ Written(q) = DOMAIN pending[q] \cup Upserted(q)
        /\ \A n \in DOMAIN todo[q] : Planned(q, todo[q][n])
        /\ \A j \in DOMAIN pending[q] : pending[q][j] = RowPlanned(q, j)
    BY <1>3 DEF Own, AsPlanned
  <2>2. /\ Written(q)' = Written(q) /\ Upserted(q)' = Upserted(q)
        /\ (RekeyLast(q)' <=> RekeyLast(q)) /\ (RekeyAhead(q)' <=> RekeyAhead(q))
    BY <1>5 DEF Written, Upserted, RekeyLast, RekeyAhead
  <2>3. \A j : Delta(q, j)' = Delta(q, j)
    BY <1>5, <1>6 DEF Delta, Leaf
  <2>4. \A j \in Ids : NewNonce(q, j)' = NewNonce(q, j) /\ NewBalance(q, j)' = NewBalance(q, j)
    BY <1>2, <1>5, <2>3 DEF NewNonce, NewBalance
  <2>5. \A j \in Ids : j # i => NewKey(q, j)' = NewKey(q, j)
    BY <1>4, <1>5 DEF NewKey
  <2>6. \A j \in DOMAIN pending[q] : RowPlanned(q, j)' = RowPlanned(q, j)
    <3> SUFFICES ASSUME NEW j \in DOMAIN pending[q]
                 PROVE  RowPlanned(q, j)' = RowPlanned(q, j)
      OBVIOUS
    <3>1. j \in Ids /\ j # i
      BY <1>3, <1>7
    <3>2. QED
      BY <1>4, <2>2, <2>4, <2>5, <3>1 DEF RowPlanned
  <2>7. ASSUME NEW n \in DOMAIN todo[q]
        PROVE  Planned(q, todo[q][n])'
    <3> PICK s : s = todo[q][n]
      OBVIOUS
    <3>1. Planned(q, s) /\ s \in Stmt
      <4>1. todo[q] \in Seq(Stmt)
        BY <1>3 DEF Types
      <4>2. QED
        BY <2>1, <4>1
    <3>2. CASE s.op = "upsert"
      <4>1. s.id \in Ids
        BY <3>1, <3>2 DEF Stmt, UpsertStmt, RekeyStmt, AttachStmt
      <4>2. req[q].type = "rotate_key" => pubkey'[s.id] = pubkey[s.id]
        <5> SUFFICES ASSUME req[q].type = "rotate_key"
                     PROVE  pubkey'[s.id] = pubkey[s.id]
          OBVIOUS
        <5>1. s.id \in Upserted(q) /\ Written(q) = {read[q].id}
          BY <3>2 DEF Upserted, Written
        <5>2. HoldsLock(q) /\ SignerMay(req[q], read[q].id)
          BY <1>3 DEF Own, StillMay
        <5>3. QED
          BY <1>9, <2>1, <5>1, <5>2
      <4>3. s.key \in {NoKey, pubkey'[s.id]} \/ req[q].type = "genesis"
        BY <1>2, <1>4, <3>1, <3>2, <4>1 DEF Planned
      <4>4. Planned(q, s)'
        BY <1>4, <1>5, <1>6, <2>2, <2>4, <3>1, <3>2, <4>1, <4>2, <4>3 DEF Planned
      <4>5. QED
        BY <1>5, <4>4
    <3>3. CASE s.op # "upsert"
      <4>1. Planned(q, s)'
        BY <1>5, <3>1, <3>3 DEF Planned
      <4>2. QED
        BY <1>5, <4>1
    <3>4. QED
      BY <3>2, <3>3
  <2>8. QED
    BY <1>5, <2>1, <2>2, <2>6, <2>7
<1>13. SupplySeen(q)'
  <2>1. ASSUME NEW j \in Ids
        PROVE  (IF RowOf(q, j)' = None THEN 0 ELSE RowOf(q, j)'.balance)
               = IF RowOf(q, j) = None THEN 0 ELSE RowOf(q, j).balance
    <3>1. pubkey'[j] \in Keys \cup {NoKey}
      BY <1>3, Committing
    <3>2. CASE j \in DOMAIN pending[q]
      BY <1>5, <3>2 DEF RowOf
    <3>3. CASE j \notin DOMAIN pending[q] /\ j \in rows
      <4>1. /\ RowOf(q, j) = [pubkey |-> pubkey[j], nonce |-> nonce[j], balance |-> balance[j]]
            /\ RowOf(q, j)' = [pubkey |-> pubkey'[j], nonce |-> nonce[j], balance |-> balance[j]]
        BY <1>1, <1>2, <1>5, <3>3 DEF RowOf
      <4>2. RowOf(q, j) \in Row /\ RowOf(q, j)' \in Row
        BY <1>3, <4>1, <3>1 DEF Row
      <4>3. QED
        BY <4>1, <4>2, NoneAssumption
    <3>4. CASE j \notin DOMAIN pending[q] /\ j \notin rows /\ j # i
      BY <1>1, <1>5, <3>4 DEF RowOf
    <3>5. CASE j \notin DOMAIN pending[q] /\ j \notin rows /\ j = i
      <4>1. /\ RowOf(q, j) = None /\ balance[j] = 0
            /\ RowOf(q, j)' = [pubkey |-> pubkey'[j], nonce |-> nonce[j], balance |-> balance[j]]
        BY <1>1, <1>2, <1>3, <1>5, <3>5 DEF RowOf, Absent
      <4>2. RowOf(q, j)' \in Row
        BY <1>3, <4>1, <3>1 DEF Row
      <4>3. QED
        BY <4>1, <4>2, NoneAssumption
    <3>6. QED
      BY <3>2, <3>3, <3>4, <3>5
  <2>2. TotalSeenBy(q)' = TotalSeenBy(q)
    <3>1. \A j \in Ids : (IF RowOf(q, j)' = None THEN 0 ELSE RowOf(q, j)'.balance)
                         = IF RowOf(q, j) = None THEN 0 ELSE RowOf(q, j).balance
      BY <2>1
    <3>2. [j \in Ids |-> IF RowOf(q, j)' = None THEN 0 ELSE RowOf(q, j)'.balance]
          = [j \in Ids |-> IF RowOf(q, j) = None THEN 0 ELSE RowOf(q, j).balance]
      BY <3>1
    <3>3. QED
      BY <3>2 DEF TotalSeenBy
  <2>3. QED
    BY <1>3, <1>5, <2>2 DEF Own, SupplySeen, requiresFullSupplyCheck
<1>14. QED
  BY <1>8, <1>11, <1>12, <1>13 DEF Own

\* A transaction of Apply that commits changes nothing of what a registration has
\* read, and no other one has read or written anything.
LEMMA ApplyOthers ==
    ASSUME OrderlyInv, NEW p \in Procs, Commit(p), ~ Registers(p), NEW q \in Procs, q # p
    PROVE  Own(q)'
<1>1. /\ Inv /\ Types /\ Own(q) /\ Local(q) /\ rows \subseteq rows' /\ rows \subseteq Ids
      /\ DOMAIN pending[q] \subseteq Ids
  BY OrderlyParts, Committing
<1>2. /\ pc'[q] = pc[q] /\ req'[q] = req[q] /\ read'[q] = read[q]
      /\ todo'[q] = todo[q] /\ pending'[q] = pending[q]
  BY <1>1, OthersUntouched DEF StepOf, Step
<1>3. Registers(q)' <=> Registers(q)
  BY <1>2 DEF Registers
<1>4. ~ HoldsLock(q)
  <2>1. HoldsLock(p)
    BY <1>1, Committing DEF HoldsLock, Writes
  <2>2. QED
    BY <1>1, <2>1 DEF Inv, LockHeld
<1>5. CASE ~ Registers(q)
  BY <1>2, <1>4, <1>5, ReadingOwn DEF HoldsLock
<1>6. CASE Registers(q)
  <2>1. Enrolled(q)'
    <3>1. (Attaches(q)' <=> Attaches(q)) /\ (Creates(q)' <=> Creates(q))
      BY <1>2 DEF Attaches, Creates
    <3>2. \A j \in DOMAIN pending[q] : nonce'[j] = nonce[j] /\ balance'[j] = balance[j]
      BY <1>1, Committing, WritesApart
    <3>3. QED
      BY <1>1, <1>2, <1>3, <3>1, <3>2 DEF Own, Enrolled
  <2>2. StillMay(q)' /\ SupplySeen(q)'
    BY <1>1, <1>2, <1>3, <1>6
    DEF StillMay, SupplySeen, HoldsLock, Local, Kinds, requiresFullSupplyCheck, Registers
  <2>3. AsPlanned(q)'
    BY <1>3, <1>6 DEF AsPlanned, HoldsLock
  <2>4. QED
    BY <2>1, <2>2, <2>3 DEF Own
<1>7. QED
  BY <1>5, <1>6

-----------------------------------------------------------------------------
(* The refinement.                                                          *)

\* The initial states of the atomic ledger, with no transaction open.
LEMMA OrderInit ==
    ASSUME Init
    PROVE  OrderlyInv
<1>1. Inv
  BY InvInit
<1>2. /\ DOMAIN <<>> = {}
      /\ \A p \in Procs : pc[p] = "idle" /\ req[p] = None /\ pending[p] = <<>>
  BY DEF Init
<1>3. KeysApart /\ \A p \in Procs : Own(p)
  BY <1>2 DEF KeysApart, Own, Enrolled, StillMay, AsPlanned, SupplySeen, Registers,
     HoldsLock, Writes
<1>4. L!OneHolderPerKey /\ Absent
  <2>1. CASE L!InitEmpty
    BY <2>1 DEF L!InitEmpty, L!OneHolderPerKey, Absent
  <2>2. CASE L!InitLegacy
    <3>1. PICK k \in Keys, v \in Ids, a \in Amounts :
              /\ rows = {L!TreasuryDscID, v}
              /\ pubkey = [i \in Ids |-> IF i = L!TreasuryDscID THEN k ELSE NoKey]
              /\ nonce = [i \in Ids |-> IF i = L!TreasuryDscID THEN 1 ELSE 0]
              /\ balance = [i \in Ids |-> CASE i = L!TreasuryDscID -> SupplyCap - a
                                            [] i = v -> a
                                            [] OTHER -> 0]
              /\ Len(log) = 2
      BY <2>2 DEF L!InitLegacy
    <3>2. log # <<>>
      <4>1. log = <<>> => Len(log) = 0
        OBVIOUS
      <4>2. Len(log) = 2
        BY <3>1
      <4>3. QED
        BY <4>1, <4>2
    <3>3. QED
      BY <3>1, <3>2 DEF L!OneHolderPerKey, Absent
  <2>3. QED
    BY <2>1, <2>2 DEF Init, L!Init
<1>5. QED
  BY <1>1, <1>3, <1>4 DEF OrderlyInv

\* A commit that leaves overtaken FALSE is not a registration that was overtaken.
LEMMA NotOvertaken ==
    ASSUME [Next]_vars, ~ overtaken'
    PROVE  /\ ~ overtaken
           /\ \A p \in Procs : Commit(p) => ~ Overtaken(p)
<1>1. \A p \in Procs : Commit(p) => overtaken' = (overtaken \/ Overtaken(p))
  BY DEF Commit
<1>2. CASE UNCHANGED vars
  BY <1>1, <1>2 DEF vars
<1>3. ASSUME NEW p \in Procs, StepOf(p)
      PROVE  ~ overtaken
  <2>1. CASE Commit(p)
    BY <1>1, <2>1
  <2>2. CASE ~ Commit(p)
    BY <1>3, <2>2, OnlyCommitsWrite DEF committed
  <2>3. QED
    BY <2>1, <2>2
<1>4. QED
  BY <1>1, <1>2, <1>3 DEF Next, StepOf

\* Every step that overtakes no one keeps the invariant.
LEMMA OrderStep ==
    ASSUME OrderlyInv, [Next]_vars, ~ overtaken'
    PROVE  OrderlyInv'
<1>1. CASE UNCHANGED vars
  <2>1. Inv'
    BY <1>1, InvStep DEF OrderlyInv
  <2>2. UNCHANGED committed /\ pc' = pc /\ req' = req /\ read' = read /\ todo' = todo
        /\ pending' = pending
    BY <1>1 DEF vars, committed
  <2>3. \A p \in Procs : Own(p)'
    BY <2>2, SameOwn DEF OrderlyInv
  <2>4. L!OneHolderPerKey' /\ Absent' /\ KeysApart'
    BY <2>2 DEF OrderlyInv, committed, L!OneHolderPerKey, Absent, KeysApart, KeyAlone,
       L!TreasuryDscID
  <2>5. QED
    BY <2>1, <2>3, <2>4 DEF OrderlyInv
<1>2. ASSUME NEW p \in Procs, StepOf(p)
      PROVE  OrderlyInv'
  <2>1. CASE Commit(p)
    <3>1. Inv' /\ ~ Overtaken(p)
      BY <1>2, <2>1, InvStep, NotOvertaken DEF OrderlyInv, Next, StepOf
    <3>2. L!OneHolderPerKey' /\ Absent' /\ KeysApart'
      BY <2>1, <3>1, CommitTables
    <3>3. Own(p)'
      BY <2>1, OrderlyParts, ClosedOwn DEF Commit
    <3>4. \A q \in Procs : q # p => Own(q)'
      BY <2>1, <3>1, RegisterOthers, ApplyOthers
    <3>5. QED
      BY <3>1, <3>2, <3>3, <3>4 DEF OrderlyInv
  <2>2. CASE ~ Commit(p)
    BY <1>2, <2>2, QuietOrder
  <2>3. QED
    BY <2>1, <2>2
<1>3. QED
  BY <1>1, <1>2 DEF Next, StepOf

\* Every such step is one of the atomic ledger, or changes none of its tables.
LEMMA OrderImplements ==
    ASSUME OrderlyInv, [Next]_vars, ~ overtaken'
    PROVE  L!Next \/ UNCHANGED tables
<1>1. UNCHANGED committed => UNCHANGED tables
  BY DEF committed, tables
<1>2. CASE UNCHANGED vars
  BY <1>2 DEF vars, tables
<1>3. ASSUME NEW p \in Procs, StepOf(p)
      PROVE  L!Next \/ UNCHANGED tables
  BY <1>1, <1>3, CommitImplements, NotOvertaken, OnlyCommitsWrite
<1>4. QED
  BY <1>2, <1>3 DEF Next, StepOf

\* Interleaved statement by statement, the transactions implement the atomic
\* ledger, until a registration is committed over a row that another transaction
\* has created, or given another key, since it was read: what Apply reads outside
\* the row locks of PostgreSQL cannot change before it commits but for the first key
\* of a row, which COALESCE keeps, so that each commit is the action of module Ledger
\* for its request, or the repetition of a registration.
THEOREM Refinement == Spec => ImplementsLedger
<1> DEFINE Ordered == ~ overtaken => OrderlyInv
<1>1. Init => Ordered /\ L!Init
  BY OrderInit DEF Init
<1>2. Ordered /\ [Next]_vars => Ordered'
  BY OrderStep, NotOvertaken
<1>3. Ordered /\ [Next]_vars => [tables' # tables /\ ~ overtaken' => L!Next]_vars
  BY OrderImplements, NotOvertaken
<1> HIDE DEF Ordered
<1>4. QED
  BY <1>1, <1>2, <1>3, PTL DEF Spec, ImplementsLedger

\* The facts proved about the atomic ledger are facts about its instance here.
LEMMA SameInit == L!Init => LP!Init
BY DEF L!Init, LP!Init, L!InitEmpty, LP!InitEmpty, L!InitLegacy, LP!InitLegacy,
   L!TreasuryDscID, LP!TreasuryDscID

LEMMA SameNext == L!Next => LP!Next
<1>1. \A f : L!Total(f) = LP!Total(f)
  BY LedgerTotal, SameTotal
<1>2. /\ L!GenesisTx = LP!GenesisTx /\ L!TransferTx = LP!TransferTx
      /\ L!RotateTx = LP!RotateTx /\ L!ReclaimTx = LP!ReclaimTx
  BY DEF LP!GenesisTx, L!GenesisTx, LP!TransferTx, L!TransferTx, LP!RotateTx,
     L!RotateTx, LP!ReclaimTx, L!ReclaimTx, LP!Nonces, L!Nonces
<1>3. \A tx, i : L!AppendLeaf(tx, i) => LP!AppendLeaf(tx, i)
  BY DEF L!AppendLeaf, LP!AppendLeaf
<1>4. \A tx : L!Genesis(tx) => LP!Genesis(tx)
  BY <1>1, <1>3 DEF L!Genesis, LP!Genesis, L!KeyFreeFor, LP!KeyFreeFor, L!TreasuryDscID,
     LP!TreasuryDscID
<1>5. \A tx, i : L!Transfer(tx, i) => LP!Transfer(tx, i)
  BY <1>3 DEF L!Transfer, LP!Transfer, L!PositiveAmount, LP!PositiveAmount, L!UserId, LP!UserId,
     L!HoldsKey, LP!HoldsKey, L!NotSelf, LP!NotSelf, L!NextNonce, LP!NextNonce, L!HasFunds,
     LP!HasFunds, L!TreasuryDscID, LP!TreasuryDscID
<1>6. \A tx, i : L!RotateKey(tx, i) => LP!RotateKey(tx, i)
  BY <1>3 DEF L!RotateKey, LP!RotateKey, L!HoldsKey, LP!HoldsKey, L!NextNonce, LP!NextNonce,
     L!KeyFreeFor, LP!KeyFreeFor
<1>7. \A tx : L!ReclaimInvalid(tx) => LP!ReclaimInvalid(tx)
  BY <1>1, <1>3 DEF L!ReclaimInvalid, LP!ReclaimInvalid, L!PositiveAmount, LP!PositiveAmount,
     L!HoldsKey, LP!HoldsKey, L!NextNonce, LP!NextNonce, L!HasFunds, LP!HasFunds,
     L!NotActivated, LP!NotActivated, L!TreasuryDscID, LP!TreasuryDscID
<1>8. \A i, k : L!Register(i, k) => LP!Register(i, k)
  BY DEF L!Register, LP!Register, L!NotActivated, LP!NotActivated, L!KeyFreeFor, LP!KeyFreeFor,
     L!TreasuryDscID, LP!TreasuryDscID
<1>9. QED
  BY <1>2, <1>4, <1>5, <1>6, <1>7, <1>8 DEF L!Next, LP!Next

\* The inductive invariant of the atomic ledger, as module LedgerProofs builds it.
Atomic ==
    /\ LP!TypeOK /\ LP!SupplyConserved /\ LP!OneHolderPerKey /\ LP!Keyless
    /\ LP!Replays /\ LP!NoncesCountLeaves

LEMMA AtomicInit == Init => Atomic
<1>1. Init => LP!Init
  BY SameInit DEF Init
<1>2. QED
  BY <1>1, LedgerConstants, LP!InitTypeOK, LP!InitSupply, LP!InitOneHolder, LP!InitKeyless,
     LP!InitReplays, LP!InitNonces DEF Atomic

\* A step that overtakes no one is one of the atomic ledger, or stutters there.
LEMMA AtomicStep ==
    ASSUME OrderlyInv, [Next]_vars, ~ overtaken'
    PROVE  [LP!Next]_LP!vars
<1>1. UNCHANGED tables => UNCHANGED LP!vars
  BY DEF tables, LP!vars
<1>2. QED
  BY <1>1, OrderImplements, SameNext

LEMMA AtomicKept == Atomic /\ [LP!Next]_LP!vars => Atomic'
BY LedgerConstants, LP!NextTypeOK, LP!NextSupply, LP!NextOneHolder, LP!NextKeyless,
   LP!NextReplays, LP!NextNonces DEF Atomic

LEMMA AtomicMeans ==
    Atomic => SupplyConserved /\ L!OneHolderPerKey /\ L!BalancesReplayLog /\ L!NoncesCountLeaves
<1>1. \A f : L!Total(f) = LP!Total(f)
  BY LedgerTotal, SameTotal
<1>2. LP!SupplyConserved => SupplyConserved
  BY <1>1 DEF SupplyConserved, L!SupplyConserved, LP!SupplyConserved, L!TotalBalance,
     LP!TotalBalance
<1>3. LP!Replays => L!BalancesReplayLog
  BY <1>1, SameLeaves DEF LP!Replays, L!BalancesReplayLog, LP!BalancesReplayLog
<1>4. LP!NoncesCountLeaves => L!NoncesCountLeaves
  <2>1. \A S : LP!Cardinality(S) = L!Cardinality(S)
    BY DEF LP!Cardinality, L!Cardinality
  <2>2. \A i : LP!NonceLeaves(i) = L!NonceLeaves(i)
    BY DEF LP!NonceLeaves, L!NonceLeaves
  <2>3. QED
    BY <2>1, <2>2 DEF L!NoncesCountLeaves, LP!NoncesCountLeaves
<1>5. LP!OneHolderPerKey => L!OneHolderPerKey
  BY DEF LP!OneHolderPerKey, L!OneHolderPerKey
<1>6. QED
  BY <1>2, <1>3, <1>4, <1>5 DEF Atomic

\* So the balances that the interleaved transactions leave are those that the log
\* replays to, and sum to the supply, no two accounts share a key and no nonce is
\* used twice, as long as no registration is committed over a row that it has not
\* seen.
THEOREM OrderlyLedger ==
    Spec => [](~ overtaken => /\ SupplyConserved /\ L!OneHolderPerKey
                              /\ L!BalancesReplayLog /\ L!NoncesCountLeaves)
<1> DEFINE Ordered == ~ overtaken => OrderlyInv /\ Atomic
           Goal == ~ overtaken => /\ SupplyConserved /\ L!OneHolderPerKey
                                  /\ L!BalancesReplayLog /\ L!NoncesCountLeaves
<1>1. Init => Ordered
  BY OrderInit, AtomicInit
<1>2. Ordered /\ [Next]_vars => Ordered'
  BY OrderStep, AtomicStep, AtomicKept, NotOvertaken
<1>3. Ordered => Goal
  BY AtomicMeans
<1> HIDE DEF Ordered
<1>4. QED
  BY <1>1, <1>2, <1>3, PTL DEF Spec

\* And every debit and every change of a key is signed for, statement by statement:
\* a commit appends the leaf that authorises what it writes, and points on negative
\* ids go nowhere but to the treasury.
THEOREM OrderlySteps ==
    Spec => [][tables' # tables /\ ~ overtaken' =>
                   L!DebitStep /\ L!KeyStep /\ L!StrandedStep]_vars
<1> DEFINE Ordered == ~ overtaken => OrderlyInv /\ Atomic
<1>1. Init => Ordered
  BY OrderInit, AtomicInit
<1>2. Ordered /\ [Next]_vars => Ordered'
  BY OrderStep, AtomicStep, AtomicKept, NotOvertaken
<1>3. Ordered /\ [Next]_vars => [tables' # tables /\ ~ overtaken' =>
                                     L!DebitStep /\ L!KeyStep /\ L!StrandedStep]_vars
  <2> SUFFICES ASSUME Ordered, [Next]_vars, tables' # tables, ~ overtaken'
               PROVE  L!DebitStep /\ L!KeyStep /\ L!StrandedStep
    OBVIOUS
  <2>1. OrderlyInv /\ Atomic
    BY NotOvertaken
  <2>2. [LP!Next]_LP!vars /\ Atomic'
    BY <2>1, AtomicStep, AtomicKept
  <2>3. ~ UNCHANGED LP!vars
    BY DEF tables, LP!vars
  <2>4. LP!DebitStep /\ LP!KeyStep /\ LP!StrandedStep
    BY <2>1, <2>2, <2>3, LedgerConstants, LP!NextDebits, LP!NextKeys, LP!NextStranded DEF Atomic
  <2>5. LP!DebitStep => L!DebitStep
    BY DEF LP!DebitStep, L!DebitStep, L!SignedDebit, LP!SignedDebit, L!TreasuryDscID,
       LP!TreasuryDscID
  <2>6. LP!KeyStep => L!KeyStep
    BY DEF LP!KeyStep, L!KeyStep, L!SignedRotation, LP!SignedRotation
  <2>7. LP!StrandedStep => L!StrandedStep
    BY DEF LP!StrandedStep, L!StrandedStep, L!TreasuryDscID, LP!TreasuryDscID
  <2>8. QED
    BY <2>4, <2>5, <2>6, <2>7
<1> HIDE DEF Ordered
<1>4. QED
  BY <1>1, <1>2, <1>3, PTL DEF Spec
=============================================================================
