---------------------------- MODULE TxLogProofs ----------------------------
(***************************************************************************)
(* Theorems about the transparency log: whatever requests overlap, and      *)
(* however often processes restart with other keys, the caches are prefixes *)
(* of the log, every tree head that was answered verifies, there is one for *)
(* each size, and a receipt is for the tree head that it is stored with.    *)
(***************************************************************************)
EXTENDS TxLog, SequenceTheorems, TLAPS

-----------------------------------------------------------------------------
(* The inductive invariant.                                                 *)

\* The variables are functions of their domains.
Types ==
    /\ size \in Nat /\ restarts \in Nat
    /\ snapshot \in [Processes -> Seq(Nat)] /\ DOMAIN key = Processes
    /\ pc = [r \in Requests |-> pc[r]] /\ kind = [r \in Requests |-> kind[r]]
    /\ got = [r \in Requests |-> got[r]] /\ held = [r \in Requests |-> held[r]]
    /\ target \in [Requests -> Nat]
    /\ checkpoints = [n \in DOMAIN checkpoints |-> checkpoints[n]]
    /\ DOMAIN checkpoints \subseteq Nat

\* The tree head for size n: its key is the one that has signed the row, which
\* the row itself may not name yet.
TreeHead(n) ==
    LET row == checkpoints[n] IN
    [size |-> n, root |-> row.root, ts |-> row.ts, sig |-> row.sig, pub |-> row.sig.key]

\* A row is signed over what it says, and its receipt is for its tree head.
RowVerifies(n) ==
    LET row == checkpoints[n] IN
    /\ row = [root |-> row.root, ts |-> row.ts, sig |-> row.sig, pub |-> row.pub,
              receipt |-> row.receipt]
    /\ row.root = Leaves(n)
    /\ row.sig = Signature(row.sig.key, n, row.root, row.ts)
    /\ row.pub \in {row.sig.key, None}
    /\ row.receipt # None =>
          row.receipt.size = n /\ row.receipt.root = row.root /\ row.receipt.ts = row.ts

RowsVerify == \A n \in DOMAIN checkpoints : RowVerifies(n)

\* What was answered is a row of the table.
IssuedAreStored == \A s \in issued : s.size \in DOMAIN checkpoints /\ s = TreeHead(s.size)

\* What a request has: a prefix of the log to extend, the leaves that it needs, a
\* row that it signed itself, a tree head to anchor.
Works(r) ==
    /\ target[r] <= size
    /\ pc[r] = "query" => \E n \in 0 .. target[r] : got[r] = Leaves(n)
    /\ pc[r] \in {"install", "have", "load", "backfill"} => got[r] = Leaves(target[r])
    /\ pc[r] \in {"load", "backfill", "receipt", "submit"} => target[r] \in DOMAIN checkpoints
    /\ pc[r] = "backfill" => checkpoints[target[r]].sig.key = key[ProcessOf[r]]
    /\ pc[r] \in {"receipt", "submit"} => held[r] = TreeHead(target[r])

Inv ==
    /\ Types /\ SnapshotsArePrefixes /\ RowsVerify /\ IssuedAreStored
    /\ \A r \in Requests : Works(r)

-----------------------------------------------------------------------------
(* The leaves.                                                              *)

\* The first n leaves are a sequence of length n.
LEMMA LeavesSeq ==
    ASSUME NEW n \in Nat
    PROVE  /\ Leaves(n) \in Seq(Nat) /\ Len(Leaves(n)) = n
           /\ \A i \in 1 .. n : Leaves(n)[i] = i
BY DEF Leaves

\* The first m of the first n leaves are the first m leaves.
LEMMA LeavesPrefix ==
    ASSUME NEW n \in Nat, NEW m \in 0 .. n
    PROVE  SubSeq(Leaves(n), 1, m) = Leaves(m)
<1>1. m \in Nat /\ Leaves(m) \in Seq(Nat) /\ Len(Leaves(m)) = m
  BY LeavesSeq
<1>2. \A i \in 1 .. m : Leaves(n)[i] = i /\ Leaves(n)[i] \in Nat
  <2>1. \A i \in 1 .. m : i \in 1 .. n /\ i \in Nat
    BY <1>1
  <2>2. \A i \in 1 .. n : Leaves(n)[i] = i
    BY LeavesSeq
  <2>3. QED
    BY <2>1, <2>2
<1>3. /\ SubSeq(Leaves(n), 1, m) \in Seq(Nat) /\ Len(SubSeq(Leaves(n), 1, m)) = m
      /\ \A i \in 1 .. m : SubSeq(Leaves(n), 1, m)[i] = i
  <2>1. /\ SubSeq(Leaves(n), 1, m) \in Seq(Nat)
        /\ Len(SubSeq(Leaves(n), 1, m)) = IF 1 <= m THEN m - 1 + 1 ELSE 0
        /\ \A i \in 1 .. m - 1 + 1 : SubSeq(Leaves(n), 1, m)[i] = Leaves(n)[1 + i - 1]
    BY <1>1, <1>2, SubSeqProperties
  <2>2. QED
    BY <1>2, <2>1
<1>4. QED
  BY <1>1, <1>3, LeavesSeq, SeqEqual

\* The first m leaves, followed by the rest up to k, are the first k leaves.
LEMMA LeavesExtend ==
    ASSUME NEW n \in Nat, NEW k \in 0 .. n, NEW m \in 0 .. k
    PROVE  Leaves(m) \o SubSeq(Leaves(n), m + 1, k) = Leaves(k)
<1> PICK rest : rest = SubSeq(Leaves(n), m + 1, k)
  OBVIOUS
<1>1. /\ m \in Nat /\ Leaves(m) \in Seq(Nat) /\ Len(Leaves(m)) = m
      /\ k \in Nat /\ Leaves(k) \in Seq(Nat) /\ Len(Leaves(k)) = k
  BY LeavesSeq
<1>2. \A i \in m + 1 .. k : Leaves(n)[i] = i /\ Leaves(n)[i] \in Nat
  <2>1. \A i \in m + 1 .. k : i \in 1 .. n /\ i \in Nat
    BY <1>1
  <2>2. \A i \in 1 .. n : Leaves(n)[i] = i
    BY LeavesSeq
  <2>3. QED
    BY <2>1, <2>2
<1>3. /\ rest \in Seq(Nat) /\ Len(rest) = k - m
      /\ \A i \in 1 .. k - m : rest[i] = m + i
  <2>1. /\ rest \in Seq(Nat)
        /\ Len(rest) = IF m + 1 <= k THEN k - (m + 1) + 1 ELSE 0
        /\ \A i \in 1 .. k - (m + 1) + 1 : rest[i] = Leaves(n)[m + 1 + i - 1]
    BY <1>1, <1>2, SubSeqProperties
  <2>2. QED
    BY <1>1, <1>2, <2>1
<1>4. /\ Leaves(m) \o rest \in Seq(Nat) /\ Len(Leaves(m) \o rest) = k
      /\ \A i \in 1 .. k : (Leaves(m) \o rest)[i] = i
  <2>1. /\ Leaves(m) \o rest \in Seq(Nat)
        /\ Len(Leaves(m) \o rest) = Len(Leaves(m)) + Len(rest)
        /\ \A i \in 1 .. Len(Leaves(m)) + Len(rest) : (Leaves(m) \o rest)[i] =
              IF i <= Len(Leaves(m)) THEN Leaves(m)[i] ELSE rest[i - Len(Leaves(m))]
    BY <1>1, <1>3, ConcatProperties
  <2>2. Len(Leaves(m)) = m /\ Len(rest) = k - m /\ Len(Leaves(m)) + Len(rest) = k
    BY <1>1, <1>3
  <2>3. \A i \in 1 .. k : (Leaves(m) \o rest)[i] = IF i <= m THEN Leaves(m)[i] ELSE rest[i - m]
    BY <2>1, <2>2
  <2>4. ASSUME NEW i \in 1 .. k
        PROVE  (Leaves(m) \o rest)[i] = i
    <3>1. i <= m => i \in 1 .. m
      BY <1>1
    <3>2. i > m => i - m \in 1 .. k - m /\ m + (i - m) = i
      BY <1>1
    <3>3. i <= m => Leaves(m)[i] = i
      BY <1>1, <3>1, LeavesSeq
    <3>4. i > m => rest[i - m] = i
      BY <1>3, <3>2
    <3>5. i \in Nat /\ m \in Nat
      BY <1>1
    <3>6. (Leaves(m) \o rest)[i] = IF i <= m THEN Leaves(m)[i] ELSE rest[i - m]
      BY <2>3
    <3>7. PICK x : x = (Leaves(m) \o rest)[i]
      OBVIOUS
    <3>8. x = IF i <= m THEN Leaves(m)[i] ELSE rest[i - m]
      BY <3>6, <3>7
    <3>9. x = i
      BY <3>3, <3>4, <3>5, <3>8
    <3>10. QED
      BY <3>7, <3>9
  <2>5. QED
    BY <2>1, <2>2, <2>4
<1>5. QED
  BY <1>1, <1>4, LeavesSeq, SeqEqual

-----------------------------------------------------------------------------
(* What a step leaves alone.                                                *)

StepOf(r) ==
    \/ Ask(r) \/ LookUp(r) \/ Query(r) \/ Install(r) \/ AnswerProof(r)
    \/ InsertCheckpoint(r) \/ LoadCheckpoint(r) \/ BackfillPubKey(r)
    \/ ReadReceipt(r) \/ StoreReceipt(r)

\* The log and the table only grow, and no tree head changes.
Grown ==
    /\ size' \in Nat /\ size <= size'
    /\ DOMAIN checkpoints \subseteq DOMAIN checkpoints'
    /\ \A n \in DOMAIN checkpoints : TreeHead(n)' = TreeHead(n)

\* The variables of request r change at r only.
Frame(r) ==
    /\ pc' = [pc EXCEPT ![r] = pc'[r]] /\ kind' = [kind EXCEPT ![r] = kind'[r]]
    /\ target' = [target EXCEPT ![r] = target'[r]] /\ got' = [got EXCEPT ![r] = got'[r]]
    /\ held' = [held EXCEPT ![r] = held'[r]]
    /\ size' = size /\ key' = key /\ restarts' = restarts

\* A request that ends has nothing.
LEMMA Ending ==
    ASSUME Types, NEW r \in Requests, End(r)
    PROVE  /\ pc'[r] = "idle" /\ target'[r] = 0
           /\ pc' = [pc EXCEPT ![r] = pc'[r]] /\ kind' = [kind EXCEPT ![r] = kind'[r]]
           /\ target' = [target EXCEPT ![r] = target'[r]] /\ got' = [got EXCEPT ![r] = got'[r]]
           /\ held' = [held EXCEPT ![r] = held'[r]]
BY DEF End, Goto, Types

\* An answer goes to the caller, or on to the anchoring.
LEMMA Issuing ==
    ASSUME Types, NEW r \in Requests, NEW row, Issue(r, row)
    PROVE  /\ issued' = issued \cup {Sth(r, row)}
           /\ \/ pc'[r] = "idle" /\ target'[r] = 0
              \/ /\ pc'[r] \in {"receipt", "submit"} /\ held'[r] = Sth(r, row)
                 /\ target'[r] = target[r]
           /\ pc' = [pc EXCEPT ![r] = pc'[r]] /\ kind' = [kind EXCEPT ![r] = kind'[r]]
           /\ target' = [target EXCEPT ![r] = target'[r]] /\ got' = [got EXCEPT ![r] = got'[r]]
           /\ held' = [held EXCEPT ![r] = held'[r]]
<1>1. CASE End(r)
  BY <1>1, Ending DEF Issue
<1>2. CASE ~ End(r)
  BY <1>2 DEF Issue, Goto, Types
<1>3. QED
  BY <1>1, <1>2

\* A request touches its own variables only.
LEMMA Framed ==
    ASSUME Types, NEW r \in Requests, StepOf(r)
    PROVE  Frame(r)
<1>1. CASE Ask(r) \/ LookUp(r) \/ Query(r) \/ Install(r)
  BY <1>1 DEF Ask, LookUp, Query, Install, Goto, Frame, Types, database, process
<1>2. CASE AnswerProof(r)
  BY <1>2, Ending DEF AnswerProof, Frame, database, process
<1>3. CASE InsertCheckpoint(r)
  <2>1. CASE pc' = [pc EXCEPT ![r] = "load"] /\ UNCHANGED <<kind, target, got, held>>
    BY <1>3, <2>1 DEF InsertCheckpoint, Frame, Types, process
  <2>2. ASSUME NEW row, Issue(r, row)
        PROVE  Frame(r)
    BY <1>3, <2>2, Issuing DEF InsertCheckpoint, Frame, process
  <2>3. QED
    BY <1>3, <2>1, <2>2 DEF InsertCheckpoint, Goto
<1>4. CASE LoadCheckpoint(r)
  <2>1. CASE pc' = [pc EXCEPT ![r] = "backfill"] /\ UNCHANGED <<kind, target, got, held>>
    BY <1>4, <2>1 DEF LoadCheckpoint, Frame, Types, database, process
  <2>2. ASSUME NEW row, Issue(r, row)
        PROVE  Frame(r)
    BY <1>4, <2>2, Issuing DEF LoadCheckpoint, Frame, database, process
  <2>3. CASE End(r)
    BY <1>4, <2>3, Ending DEF LoadCheckpoint, Frame, database, process
  <2>4. QED
    BY <1>4, <2>1, <2>2, <2>3 DEF LoadCheckpoint, Goto
<1>5. CASE BackfillPubKey(r)
  <2>1. PICK row : Issue(r, row)
    BY <1>5 DEF BackfillPubKey
  <2>2. QED
    BY <1>5, <2>1, Issuing DEF BackfillPubKey, Frame, process
<1>6. CASE ReadReceipt(r)
  <2>1. CASE End(r)
    BY <1>6, <2>1, Ending DEF ReadReceipt, Frame, database, process
  <2>2. CASE ~ End(r)
    BY <1>6, <2>2 DEF ReadReceipt, Goto, Frame, Types, database, process
  <2>3. QED
    BY <2>1, <2>2
<1>7. CASE StoreReceipt(r)
  BY <1>7, Ending DEF StoreReceipt, Frame, process
<1>8. QED
  BY <1>1, <1>2, <1>3, <1>4, <1>5, <1>6, <1>7 DEF StepOf

\* A request that takes no step keeps what it has, if its process does not restart.
LEMMA KeepsWorking ==
    ASSUME Types, Grown, NEW r \in Requests, Works(r),
           pc'[r] = pc[r], target'[r] = target[r], got'[r] = got[r], held'[r] = held[r],
           key'[ProcessOf[r]] = key[ProcessOf[r]]
    PROVE  Works(r)'
<1>1. target[r] \in Nat /\ size \in Nat
  BY DEF Types
<1>2. target'[r] <= size'
  BY <1>1 DEF Grown, Works
<1>3. target[r] \in DOMAIN checkpoints =>
          /\ target[r] \in DOMAIN checkpoints' /\ TreeHead(target[r])' = TreeHead(target[r])
          /\ checkpoints'[target[r]].sig.key = checkpoints[target[r]].sig.key
  BY DEF Grown, TreeHead
<1>4. QED
  BY <1>2, <1>3 DEF Works, TreeHead

\* The answers given remain rows of the table.
LEMMA KeepsIssued ==
    ASSUME IssuedAreStored, Grown, issued' = issued
    PROVE  IssuedAreStored'
BY DEF IssuedAreStored, Grown, TreeHead

\* A step of request r keeps the invariant, if it keeps what concerns r.
LEMMA Assemble ==
    ASSUME Inv, NEW r \in Requests, StepOf(r), target'[r] \in Nat, Grown,
           snapshot' \in [Processes -> Seq(Nat)],
           checkpoints' = [n \in DOMAIN checkpoints' |-> checkpoints'[n]],
           DOMAIN checkpoints' \subseteq Nat,
           SnapshotsArePrefixes', RowsVerify', IssuedAreStored', Works(r)'
    PROVE  Inv'
<1>1. Types /\ Frame(r)
  BY Framed DEF Inv
<1>2. Types'
  BY <1>1 DEF Types, Frame
<1>3. ASSUME NEW q \in Requests, q # r
      PROVE  Works(q)'
  <2>1. /\ pc'[q] = pc[q] /\ target'[q] = target[q] /\ got'[q] = got[q] /\ held'[q] = held[q]
        /\ key'[ProcessOf[q]] = key[ProcessOf[q]]
    BY <1>1, <1>3 DEF Types, Frame
  <2>2. QED
    BY <1>1, <2>1, KeepsWorking DEF Inv
<1>4. QED
  BY <1>2, <1>3 DEF Inv

-----------------------------------------------------------------------------
(* The steps.                                                               *)

\* Nothing happens to a table that does not change.
LEMMA TableSame ==
    ASSUME Inv, checkpoints' = checkpoints, size' \in Nat, size <= size'
    PROVE  /\ Grown /\ RowsVerify' /\ DOMAIN checkpoints' \subseteq Nat
           /\ checkpoints' = [n \in DOMAIN checkpoints' |-> checkpoints'[n]]
           /\ issued' = issued => IssuedAreStored'
<1>1. Grown
  BY DEF Grown, TreeHead
<1>2. RowsVerify'
  BY DEF Inv, RowsVerify, RowVerifies
<1>3. issued' = issued => IssuedAreStored'
  BY <1>1, KeepsIssued DEF Inv
<1>4. QED
  BY <1>1, <1>2, <1>3 DEF Inv, Types

\* Nor to caches.
LEMMA CachesSame ==
    ASSUME Inv, snapshot' = snapshot, size' \in Nat, size <= size'
    PROVE  SnapshotsArePrefixes' /\ snapshot' \in [Processes -> Seq(Nat)]
<1>1. \A p \in Processes : Len(snapshot[p]) \in Nat /\ size \in Nat
  BY DEF Inv, Types
<1>2. QED
  BY <1>1 DEF Inv, Types, SnapshotsArePrefixes

\* The cache of a process is as long as some prefix of the log.
LEMMA Cached ==
    ASSUME Inv, NEW r \in Requests
    PROVE  /\ ProcessOf[r] \in Processes /\ size \in Nat /\ target[r] \in 0 .. size
           /\ Len(snapshot[ProcessOf[r]]) \in 0 .. size
           /\ snapshot[ProcessOf[r]] = Leaves(Len(snapshot[ProcessOf[r]]))
<1>1. ProcessOf[r] \in Processes
  BY RequestsAssumption
<1>2. size \in Nat /\ target[r] \in 0 .. size
  BY DEF Inv, Types, Works
<1>3. Len(snapshot[ProcessOf[r]]) \in Nat
  BY <1>1 DEF Inv, Types
<1>4. QED
  BY <1>1, <1>2, <1>3 DEF Inv, SnapshotsArePrefixes

\* The steps that read the tables, and the end of a request.
LEMMA ReadStep ==
    ASSUME Inv, NEW r \in Requests,
           Ask(r) \/ LookUp(r) \/ Query(r) \/ AnswerProof(r) \/ ReadReceipt(r)
    PROVE  Inv'
<1>1. StepOf(r) /\ Types /\ Works(r)
  BY DEF StepOf, Inv
<1>2. /\ size' = size /\ checkpoints' = checkpoints /\ snapshot' = snapshot
      /\ issued' = issued /\ key' = key /\ size \in Nat
  BY <1>1 DEF Ask, LookUp, Query, AnswerProof, ReadReceipt, database, process, Types
<1>3. /\ ProcessOf[r] \in Processes /\ target[r] \in 0 .. size
      /\ Len(snapshot[ProcessOf[r]]) \in 0 .. size
      /\ snapshot[ProcessOf[r]] = Leaves(Len(snapshot[ProcessOf[r]]))
  BY Cached
<1>4. target'[r] \in 0 .. size /\ Works(r)'
  <2>1. CASE Ask(r)
    <3>1. PICK n \in 0 .. size : target' = [target EXCEPT ![r] = n]
      BY <2>1 DEF Ask
    <3>2. target'[r] = n /\ pc'[r] = "cache"
      BY <1>1, <2>1, <3>1 DEF Ask, Goto, Types
    <3>3. QED
      BY <1>2, <3>2 DEF Works
  <2>2. CASE LookUp(r)
    <3> PICK cached, n, k : /\ cached = snapshot[ProcessOf[r]] /\ n = Len(cached)
                            /\ k = target[r]
      OBVIOUS
    <3>1. target'[r] = k
      BY <2>2 DEF LookUp
    <3>2. CASE k <= n
      <4>1. pc'[r] = "have" /\ got'[r] = SubSeq(cached, 1, k)
        BY <1>1, <2>2, <3>2 DEF LookUp, Goto, Types
      <4>2. SubSeq(cached, 1, k) = Leaves(k)
        <5>1. n \in Nat /\ k \in 0 .. n /\ cached = Leaves(n)
          BY <1>2, <1>3, <3>2
        <5>2. SubSeq(Leaves(n), 1, k) = Leaves(k)
          BY <5>1, LeavesPrefix
        <5>3. QED
          BY <5>1, <5>2
      <4>3. QED
        BY <1>2, <1>3, <3>1, <4>1, <4>2 DEF Works
    <3>3. CASE ~ (k <= n)
      <4>1. pc'[r] = "query" /\ got'[r] = cached
        BY <1>1, <2>2, <3>3 DEF LookUp, Goto, Types
      <4>2. n \in 0 .. k /\ cached = Leaves(n)
        BY <1>2, <1>3, <3>3
      <4>3. QED
        BY <1>2, <1>3, <3>1, <4>1, <4>2 DEF Works
    <3>4. QED
      BY <3>2, <3>3
  <2>3. CASE Query(r)
    <3>1. PICK n \in 0 .. target[r] : got[r] = Leaves(n)
      BY <1>1, <2>3 DEF Query, Works
    <3>2. Start(r) = n + 1
      BY <3>1, <1>3, LeavesSeq DEF Start
    <3>3. /\ pc'[r] = "install" /\ target'[r] = target[r]
          /\ got'[r] = Leaves(n) \o SubSeq(Leaves(size), n + 1, target[r])
      BY <1>1, <2>3, <3>1, <3>2 DEF Query, Goto, Types
    <3>4. got'[r] = Leaves(target[r])
      <4>1. Leaves(n) \o SubSeq(Leaves(size), n + 1, target[r]) = Leaves(target[r])
        BY <1>2, <1>3, LeavesExtend
      <4>2. QED
        BY <3>3, <4>1
    <3>5. target'[r] <= size' /\ target'[r] \in 0 .. size
      BY <1>2, <1>3, <3>3
    <3>6. QED
      BY <3>3, <3>4, <3>5 DEF Works
  <2>4. CASE AnswerProof(r) \/ (ReadReceipt(r) /\ End(r))
    <3>1. pc'[r] = "idle" /\ target'[r] = 0
      BY <1>1, <2>4, Ending DEF AnswerProof
    <3>2. QED
      BY <1>2, <3>1 DEF Works
  <2>5. CASE ReadReceipt(r) /\ ~ End(r)
    <3>1. /\ pc[r] = "receipt" /\ pc'[r] = "submit" /\ held'[r] = held[r]
          /\ target'[r] = target[r]
      BY <1>1, <2>5 DEF ReadReceipt, Goto, Types
    <3>2. TreeHead(target[r])' = TreeHead(target[r])
      BY <1>2, <3>1 DEF TreeHead
    <3>3. QED
      BY <1>1, <1>2, <1>3, <3>1, <3>2 DEF Works, TreeHead
  <2>6. QED
    BY <2>1, <2>2, <2>3, <2>4, <2>5
<1>5. target'[r] \in Nat /\ size' \in Nat /\ size <= size'
  BY <1>2, <1>4
<1>6. QED
  BY <1>1, <1>2, <1>4, <1>5, TableSame, CachesSame, Assemble

\* The new cache is the longer one of two prefixes.
LEMMA InstallStep ==
    ASSUME Inv, NEW r \in Requests, Install(r)
    PROVE  Inv'
<1> PICK p : p = ProcessOf[r]
  OBVIOUS
<1>1. StepOf(r) /\ Types /\ Works(r) /\ pc[r] = "install"
  BY DEF StepOf, Inv, Install
<1>2. /\ size' = size /\ checkpoints' = checkpoints /\ issued' = issued /\ key' = key
      /\ size \in Nat /\ pc'[r] = "have" /\ got'[r] = got[r] /\ target'[r] = target[r]
      /\ snapshot' = [snapshot EXCEPT ![p] = Kept(p, got[r])]
  BY <1>1 DEF Install, Goto, database, Types
<1>3. /\ p \in Processes /\ target[r] \in 0 .. size /\ Len(snapshot[p]) \in 0 .. size
      /\ snapshot[p] = Leaves(Len(snapshot[p])) /\ got[r] = Leaves(target[r])
  BY <1>1, Cached DEF Works
<1>4. \E n \in 0 .. size : Kept(p, got[r]) = Leaves(n)
  BY <1>3 DEF Kept
<1>5. PICK n \in 0 .. size : Kept(p, got[r]) = Leaves(n)
  BY <1>4
<1>6. Leaves(n) \in Seq(Nat) /\ Len(Leaves(n)) = n
  BY <1>2, LeavesSeq
<1>7. snapshot' \in [Processes -> Seq(Nat)]
  BY <1>1, <1>2, <1>5, <1>6 DEF Types
<1>8. SnapshotsArePrefixes'
  <2> SUFFICES ASSUME NEW q \in Processes
               PROVE  Len(snapshot'[q]) <= size /\ snapshot'[q] = Leaves(Len(snapshot'[q]))
    BY <1>2 DEF SnapshotsArePrefixes, Leaves
  <2>1. CASE q = p
    BY <1>1, <1>2, <1>5, <1>6, <2>1 DEF Types
  <2>2. CASE q # p
    BY <1>1, <1>2, <2>2 DEF Types, Inv, SnapshotsArePrefixes
  <2>3. QED
    BY <2>1, <2>2
<1>9. Works(r)' /\ target'[r] \in Nat
  BY <1>2, <1>3 DEF Works
<1>10. QED
  BY <1>1, <1>2, <1>7, <1>8, <1>9, TableSame, Assemble

\* The answer that a request gives is the tree head of the row that it has.
LEMMA IssueStep ==
    ASSUME Inv, NEW r \in Requests, NEW row, Issue(r, row), StepOf(r), snapshot' = snapshot,
           Grown, RowsVerify', DOMAIN checkpoints' \subseteq Nat,
           checkpoints' = [m \in DOMAIN checkpoints' |-> checkpoints'[m]],
           NEW n, n = target[r], n \in DOMAIN checkpoints', Sth(r, row) = TreeHead(n)'
    PROVE  Inv'
<1>1. /\ Types /\ Works(r) /\ Frame(r) /\ IssuedAreStored /\ n \in 0 .. size /\ size \in Nat
      /\ size' = size
  BY Framed, Cached DEF Inv, Frame
<1>2. /\ issued' = issued \cup {Sth(r, row)}
      /\ \/ pc'[r] = "idle" /\ target'[r] = 0
         \/ /\ pc'[r] \in {"receipt", "submit"} /\ held'[r] = Sth(r, row) /\ target'[r] = n
  BY <1>1, Issuing
<1>3. TreeHead(n)' = Sth(r, row) /\ Sth(r, row).size = n
  BY DEF Sth, TreeHead
<1>4. IssuedAreStored'
  <2> SUFFICES ASSUME NEW s \in issued'
               PROVE  s.size \in DOMAIN checkpoints' /\ s = TreeHead(s.size)'
    BY DEF IssuedAreStored, TreeHead
  <2>1. CASE s \in issued
    BY <1>1, <2>1 DEF IssuedAreStored, Grown
  <2>2. CASE s = Sth(r, row)
    BY <1>3, <2>2
  <2>3. QED
    BY <1>2, <2>1, <2>2
<1>5. Works(r)' /\ target'[r] \in Nat
  <2>1. CASE pc'[r] = "idle" /\ target'[r] = 0
    BY <1>1, <2>1 DEF Works
  <2>2. CASE pc'[r] \in {"receipt", "submit"} /\ held'[r] = Sth(r, row) /\ target'[r] = n
    <3>1. held'[r] = TreeHead(n)' /\ n \in Nat
      BY <1>1, <1>3, <2>2
    <3>2. QED
      BY <1>1, <2>2, <3>1 DEF Works, TreeHead
  <2>3. QED
    BY <1>2, <2>1, <2>2
<1>6. QED
  BY <1>1, <1>4, <1>5, CachesSame, Assemble

\* A new row is signed over the leaves that the request has.
LEMMA InsertStep ==
    ASSUME Inv, NEW r \in Requests, InsertCheckpoint(r)
    PROVE  Inv'
<1> PICK n, k, row : n = target[r] /\ k = key[ProcessOf[r]] /\ row = Checkpoint(k, n, got[r], clock)
  OBVIOUS
<1>1. /\ StepOf(r) /\ Types /\ Works(r) /\ pc[r] = "have" /\ RowsVerify
      /\ size' = size /\ snapshot' = snapshot /\ key' = key
  BY DEF StepOf, Inv, InsertCheckpoint, process
<1>2. n \in 0 .. size /\ size \in Nat /\ got[r] = Leaves(n)
  BY <1>1, Cached DEF Works
<1>3. CASE NoCheckpoint(n)
  <2>1. /\ checkpoints' = [m \in DOMAIN checkpoints \cup {n} |->
                               IF m = n THEN row ELSE checkpoints[m]]
        /\ Issue(r, row) /\ n \notin DOMAIN checkpoints
    BY <1>3 DEF InsertCheckpoint, NoCheckpoint
  <2>2. /\ DOMAIN checkpoints' = DOMAIN checkpoints \cup {n}
        /\ checkpoints'[n] = row
        /\ \A m \in DOMAIN checkpoints : checkpoints'[m] = checkpoints[m]
        /\ checkpoints' = [m \in DOMAIN checkpoints' |-> checkpoints'[m]]
        /\ DOMAIN checkpoints' \subseteq Nat
    BY <1>1, <1>2, <2>1 DEF Types
  <2>3. /\ row.root = Leaves(n) /\ row.ts = clock /\ row.sig = Signature(k, n, row.root, row.ts)
        /\ row.pub = k /\ row.receipt = None /\ row.sig.key = k
        /\ row = [root |-> row.root, ts |-> row.ts, sig |-> row.sig, pub |-> row.pub,
                  receipt |-> row.receipt]
    BY <1>2 DEF Checkpoint, Signature
  <2>4. Grown
    BY <1>1, <1>2, <2>2 DEF Grown, TreeHead
  <2>5. RowVerifies(n)'
    BY <2>2, <2>3 DEF RowVerifies, Leaves, Signature
  <2>6. \A m \in DOMAIN checkpoints : RowVerifies(m)'
    BY <1>1, <2>2 DEF RowsVerify, RowVerifies
  <2>7. RowsVerify'
    BY <2>2, <2>5, <2>6 DEF RowsVerify
  <2>8. Sth(r, row) = TreeHead(n)'
    BY <2>2, <2>3 DEF Sth, StoredTime, TreeHead
  <2>9. n \in DOMAIN checkpoints'
    BY <2>2
  <2>10. QED
    BY <1>1, <2>1, <2>2, <2>4, <2>7, <2>8, <2>9, IssueStep
<1>4. CASE ~ NoCheckpoint(n)
  <2>1. /\ pc'[r] = "load" /\ checkpoints' = checkpoints /\ target'[r] = n /\ got'[r] = got[r]
        /\ issued' = issued /\ n \in DOMAIN checkpoints
    BY <1>1, <1>4 DEF InsertCheckpoint, Goto, NoCheckpoint, Types
  <2>2. Works(r)' /\ target'[r] \in Nat
    BY <1>1, <1>2, <2>1 DEF Works
  <2>3. QED
    BY <1>1, <1>2, <2>1, <2>2, TableSame, CachesSame, Assemble
<1>5. QED
  BY <1>3, <1>4

\* A stored row is answered under the key that signed it.
LEMMA LoadStep ==
    ASSUME Inv, NEW r \in Requests, LoadCheckpoint(r)
    PROVE  Inv'
<1> PICK n, k, row : n = target[r] /\ k = key[ProcessOf[r]] /\ row = checkpoints[n]
  OBVIOUS
<1>1. /\ StepOf(r) /\ Types /\ Works(r) /\ pc[r] = "load" /\ RowsVerify
      /\ size' = size /\ snapshot' = snapshot /\ key' = key /\ checkpoints' = checkpoints
  BY DEF StepOf, Inv, LoadCheckpoint, process, database
<1>2. /\ n \in 0 .. size /\ size \in Nat /\ got[r] = Leaves(n) /\ n \in DOMAIN checkpoints
      /\ RowVerifies(n)
  BY <1>1, Cached DEF Works, RowsVerify
<1>3. CASE row.pub # None /\ Issue(r, row)
  <2>1. row.pub = row.sig.key
    BY <1>2, <1>3 DEF RowVerifies
  <2>2. Sth(r, row) = TreeHead(n)'
    BY <1>1, <2>1 DEF Sth, StoredTime, TreeHead
  <2>3. /\ Grown /\ RowsVerify' /\ DOMAIN checkpoints' \subseteq Nat
        /\ checkpoints' = [m \in DOMAIN checkpoints' |-> checkpoints'[m]]
    BY <1>1, <1>2, TableSame
  <2>4. QED
    BY <1>1, <1>2, <1>3, <2>2, <2>3, IssueStep
<1>4. CASE /\ row.sig = Signature(k, n, row.root, row.ts)
           /\ Goto(r, "backfill")
           /\ UNCHANGED <<kind, target, got, held, issued>>
  <2>1. pc'[r] = "backfill" /\ target'[r] = n /\ got'[r] = got[r] /\ issued' = issued
    BY <1>1, <1>4 DEF Goto, Types
  <2>2. checkpoints'[n].sig.key = key'[ProcessOf[r]]
    BY <1>1, <1>4 DEF Signature
  <2>3. Works(r)' /\ target'[r] \in Nat
    BY <1>1, <1>2, <2>1, <2>2 DEF Works
  <2>4. QED
    BY <1>1, <1>2, <2>1, <2>3, TableSame, CachesSame, Assemble
<1>5. CASE End(r) /\ UNCHANGED issued
  <2>1. pc'[r] = "idle" /\ target'[r] = 0
    BY <1>1, <1>5, Ending
  <2>2. Works(r)' /\ target'[r] \in Nat
    BY <1>1, <1>2, <2>1 DEF Works
  <2>3. QED
    BY <1>1, <1>2, <1>5, <2>2, TableSame, CachesSame, Assemble
<1>6. QED
  BY <1>3, <1>4, <1>5 DEF LoadCheckpoint

\* The key that is filled in is the one that signed the row.
LEMMA BackfillStep ==
    ASSUME Inv, NEW r \in Requests, BackfillPubKey(r)
    PROVE  Inv'
<1> PICK n, k, row, filled :
        /\ n = target[r] /\ k = key[ProcessOf[r]] /\ row = checkpoints[n]
        /\ filled = [row EXCEPT !.pub = IF row.pub = None THEN k ELSE row.pub]
  OBVIOUS
<1>1. /\ StepOf(r) /\ Types /\ Works(r) /\ pc[r] = "backfill" /\ RowsVerify
      /\ size' = size /\ snapshot' = snapshot /\ key' = key
      /\ checkpoints' = [checkpoints EXCEPT ![n] = filled]
      /\ Issue(r, [row EXCEPT !.pub = k])
  BY DEF StepOf, Inv, BackfillPubKey, process
<1>2. /\ n \in 0 .. size /\ size \in Nat /\ n \in DOMAIN checkpoints
      /\ RowVerifies(n) /\ row.sig.key = k
  BY <1>1, Cached DEF Works, RowsVerify
<1>3. row = [root |-> row.root, ts |-> row.ts, sig |-> row.sig, pub |-> row.pub,
             receipt |-> row.receipt]
  BY <1>2 DEF RowVerifies
<1>4. /\ filled = [root |-> row.root, ts |-> row.ts, sig |-> row.sig, pub |-> k,
                   receipt |-> row.receipt]
      /\ [row EXCEPT !.pub = k] = [root |-> row.root, ts |-> row.ts, sig |-> row.sig,
                                   pub |-> k, receipt |-> row.receipt]
  BY <1>2, <1>3 DEF RowVerifies
<1>5. /\ DOMAIN checkpoints' = DOMAIN checkpoints /\ checkpoints'[n] = filled
      /\ \A m \in DOMAIN checkpoints : m # n => checkpoints'[m] = checkpoints[m]
      /\ checkpoints' = [m \in DOMAIN checkpoints' |-> checkpoints'[m]]
      /\ DOMAIN checkpoints' \subseteq Nat
  BY <1>1, <1>2 DEF Types
<1>6. TreeHead(n)' = TreeHead(n)
  BY <1>4, <1>5 DEF TreeHead
<1>7. Grown
  BY <1>1, <1>2, <1>5, <1>6 DEF Grown, TreeHead
<1>8. RowVerifies(n)'
  <2>1. PICK new : new = checkpoints'[n]
    OBVIOUS
  <2>2. /\ new.root = row.root /\ new.ts = row.ts /\ new.sig = row.sig /\ new.pub = k
        /\ new.receipt = row.receipt
        /\ new = [root |-> new.root, ts |-> new.ts, sig |-> new.sig, pub |-> new.pub,
                  receipt |-> new.receipt]
    BY <1>4, <1>5, <2>1
  <2>3. QED
    BY <1>2, <2>1, <2>2 DEF RowVerifies, Leaves, Signature
<1>9. \A m \in DOMAIN checkpoints : m # n => RowVerifies(m)'
  BY <1>1, <1>5 DEF RowsVerify, RowVerifies
<1>10. RowsVerify'
  BY <1>5, <1>8, <1>9 DEF RowsVerify
<1>11. Sth(r, [row EXCEPT !.pub = k]) = TreeHead(n)'
  BY <1>2, <1>4, <1>6 DEF Sth, StoredTime, TreeHead
<1>12. PICK answer : answer = [row EXCEPT !.pub = k]
  OBVIOUS
<1>13. Issue(r, answer) /\ Sth(r, answer) = TreeHead(n)' /\ n \in DOMAIN checkpoints'
  BY <1>1, <1>2, <1>5, <1>11, <1>12
<1>14. /\ StepOf(r) /\ snapshot' = snapshot /\ DOMAIN checkpoints' \subseteq Nat
       /\ checkpoints' = [m \in DOMAIN checkpoints' |-> checkpoints'[m]]
  BY <1>1, <1>5
<1>15. QED
  BY <1>7, <1>10, <1>13, <1>14, IssueStep

\* The receipt that is stored is for the tree head of the row.
LEMMA StoreStep ==
    ASSUME Inv, NEW r \in Requests, StoreReceipt(r)
    PROVE  Inv'
<1> PICK n, row : n = target[r] /\ row = checkpoints[n]
  OBVIOUS
<1>1. /\ StepOf(r) /\ Types /\ Works(r) /\ pc[r] = "submit" /\ RowsVerify
      /\ size' = size /\ snapshot' = snapshot /\ key' = key /\ issued' = issued /\ End(r)
  BY DEF StepOf, Inv, StoreReceipt, process
<1>2. /\ n \in 0 .. size /\ size \in Nat /\ n \in DOMAIN checkpoints
      /\ RowVerifies(n) /\ held[r] = TreeHead(n)
  BY <1>1, Cached DEF Works, RowsVerify
<1>3. /\ row = [root |-> row.root, ts |-> row.ts, sig |-> row.sig, pub |-> row.pub,
                receipt |-> row.receipt]
      /\ held[r].size = n /\ held[r].root = row.root /\ held[r].ts = row.ts
  BY <1>2 DEF RowVerifies, TreeHead
<1>4. PICK c \in Calendars :
          checkpoints' = [checkpoints EXCEPT ![n].receipt =
                             [calendar |-> c, size |-> n, root |-> row.root, ts |-> row.ts]]
  BY <1>2, <1>3 DEF StoreReceipt, AnchoredSize
<1>5. /\ DOMAIN checkpoints' = DOMAIN checkpoints
      /\ checkpoints'[n] = [row EXCEPT !.receipt =
                               [calendar |-> c, size |-> n, root |-> row.root, ts |-> row.ts]]
      /\ \A m \in DOMAIN checkpoints : m # n => checkpoints'[m] = checkpoints[m]
      /\ checkpoints' = [m \in DOMAIN checkpoints' |-> checkpoints'[m]]
      /\ DOMAIN checkpoints' \subseteq Nat
  BY <1>1, <1>2, <1>4 DEF Types
<1>6. checkpoints'[n] =
          [root |-> row.root, ts |-> row.ts, sig |-> row.sig, pub |-> row.pub,
           receipt |-> [calendar |-> c, size |-> n, root |-> row.root, ts |-> row.ts]]
  BY <1>3, <1>5
<1>7. TreeHead(n)' = TreeHead(n)
  BY <1>6 DEF TreeHead
<1>8. Grown
  <2>1. \A m \in DOMAIN checkpoints : m # n => TreeHead(m)' = TreeHead(m)
    BY <1>5 DEF TreeHead
  <2>2. \A m \in DOMAIN checkpoints : TreeHead(m)' = TreeHead(m)
    BY <1>7, <2>1
  <2>3. QED
    BY <1>1, <1>2, <1>5, <2>2 DEF Grown
<1>9. RowVerifies(n)'
  BY <1>2, <1>6 DEF RowVerifies, Leaves, Signature
<1>10. \A m \in DOMAIN checkpoints : m # n => RowVerifies(m)'
  BY <1>1, <1>5 DEF RowsVerify, RowVerifies
<1>11. RowsVerify'
  BY <1>5, <1>9, <1>10 DEF RowsVerify
<1>12. pc'[r] = "idle" /\ target'[r] = 0
  BY <1>1, Ending
<1>13. Works(r)' /\ target'[r] \in Nat
  BY <1>1, <1>2, <1>12 DEF Works
<1>14. IssuedAreStored'
  BY <1>1, <1>8, KeepsIssued DEF Inv
<1>15. QED
  BY <1>1, <1>2, <1>5, <1>8, <1>11, <1>13, <1>14, CachesSame, Assemble

\* The log grows and time passes.
LEMMA GrowStep ==
    ASSUME Inv, CommitLeaf \/ Tick
    PROVE  Inv'
<1>1. /\ size \in Nat /\ size' \in Nat /\ size <= size' /\ restarts' = restarts
      /\ checkpoints' = checkpoints /\ snapshot' = snapshot /\ key' = key /\ issued' = issued
      /\ pc' = pc /\ kind' = kind /\ target' = target /\ got' = got /\ held' = held
  BY DEF CommitLeaf, Tick, process, locals, Inv, Types
<1>2. Types'
  BY <1>1 DEF Inv, Types
<1>3. Grown /\ RowsVerify' /\ IssuedAreStored' /\ SnapshotsArePrefixes'
  BY <1>1, TableSame, CachesSame
<1>4. \A r \in Requests : Works(r)'
  BY <1>1, <1>3, KeepsWorking DEF Inv
<1>5. QED
  BY <1>2, <1>3, <1>4 DEF Inv

\* A process that restarts has an empty cache and no requests.
LEMMA RestartStep ==
    ASSUME Inv, NEW p \in Processes, Restart(p)
    PROVE  Inv'
<1>1. /\ size \in Nat /\ size' = size /\ restarts \in Nat /\ restarts' = restarts + 1
      /\ checkpoints' = checkpoints /\ issued' = issued /\ Types
      /\ snapshot' = [snapshot EXCEPT ![p] = <<>>]
  BY DEF Restart, database, Inv, Types
<1>2. /\ DOMAIN key' = Processes
      /\ \A q \in Processes : q # p => key'[q] = key[q]
  BY <1>1 DEF Restart, Types
<1>3. /\ pc' = [r \in Requests |-> IF ProcessOf[r] = p THEN "idle" ELSE pc[r]]
      /\ kind' = [r \in Requests |-> IF ProcessOf[r] = p THEN None ELSE kind[r]]
      /\ target' = [r \in Requests |-> IF ProcessOf[r] = p THEN 0 ELSE target[r]]
      /\ got' = [r \in Requests |-> IF ProcessOf[r] = p THEN <<>> ELSE got[r]]
      /\ held' = [r \in Requests |-> IF ProcessOf[r] = p THEN None ELSE held[r]]
  BY DEF Restart
<1>4. <<>> \in Seq(Nat) /\ Len(<<>>) = 0 /\ <<>> = Leaves(0)
  BY LeavesSeq, SeqEqual DEF Leaves
<1>5. /\ snapshot' \in [Processes -> Seq(Nat)] /\ snapshot'[p] = <<>>
      /\ \A q \in Processes : q # p => snapshot'[q] = snapshot[q]
  BY <1>1, <1>4 DEF Types
<1>6. SnapshotsArePrefixes'
  <2> SUFFICES ASSUME NEW q \in Processes
               PROVE  Len(snapshot'[q]) <= size /\ snapshot'[q] = Leaves(Len(snapshot'[q]))
    BY <1>1 DEF SnapshotsArePrefixes, Leaves
  <2>1. CASE q = p
    BY <1>1, <1>4, <1>5, <2>1
  <2>2. CASE q # p
    BY <1>5, <2>2 DEF Inv, SnapshotsArePrefixes
  <2>3. QED
    BY <2>1, <2>2
<1>7. Grown /\ RowsVerify' /\ IssuedAreStored'
  BY <1>1, TableSame
<1>8. target' \in [Requests -> Nat]
  BY <1>1, <1>3 DEF Types
<1>9. Types'
  BY <1>1, <1>2, <1>3, <1>5, <1>8 DEF Types
<1>10. ASSUME NEW r \in Requests
       PROVE  Works(r)'
  <2>1. CASE ProcessOf[r] = p
    <3>1. pc'[r] = "idle" /\ target'[r] = 0
      BY <1>3, <2>1
    <3>2. QED
      BY <1>1, <3>1 DEF Works
  <2>2. CASE ProcessOf[r] # p
    <3>1. ProcessOf[r] \in Processes
      BY RequestsAssumption
    <3>2. /\ pc'[r] = pc[r] /\ target'[r] = target[r] /\ got'[r] = got[r] /\ held'[r] = held[r]
          /\ key'[ProcessOf[r]] = key[ProcessOf[r]]
      BY <1>2, <1>3, <2>2, <3>1
    <3>3. QED
      BY <1>1, <1>7, <3>2, KeepsWorking DEF Inv
  <2>3. QED
    BY <2>1, <2>2
<1>11. QED
  BY <1>6, <1>7, <1>9, <1>10 DEF Inv

-----------------------------------------------------------------------------
(* The theorems.                                                            *)

\* The log starts empty, or with one leaf and one row that does not name its key.
LEMMA Initially == Init => Inv
<1> SUFFICES ASSUME Init PROVE Inv
  OBVIOUS
<1>1. <<>> \in Seq(Nat) /\ Len(<<>>) = 0 /\ <<>> = Leaves(0) /\ DOMAIN <<>> = {}
  BY LeavesSeq, SeqEqual DEF Leaves
<1>2. /\ size \in Nat /\ restarts = 0 /\ issued = {} /\ key \in [Processes -> SthKeys]
      /\ snapshot = [p \in Processes |-> <<>>] /\ target = [r \in Requests |-> 0]
      /\ pc = [r \in Requests |-> "idle"] /\ kind = [r \in Requests |-> None]
      /\ got = [r \in Requests |-> <<>>] /\ held = [r \in Requests |-> None]
  BY DEF Init
<1>3. /\ checkpoints = [n \in DOMAIN checkpoints |-> checkpoints[n]]
      /\ DOMAIN checkpoints \subseteq Nat /\ RowsVerify
  <2>1. CASE checkpoints = <<>>
    BY <1>1, <2>1 DEF RowsVerify
  <2>2. ASSUME NEW k \in SthKeys,
               checkpoints = [n \in {1} |-> [Checkpoint(k, n, Leaves(n), 0) EXCEPT !.pub = None]]
        PROVE  /\ checkpoints = [n \in DOMAIN checkpoints |-> checkpoints[n]]
               /\ DOMAIN checkpoints \subseteq Nat /\ RowsVerify
    <3>1. DOMAIN checkpoints = {1}
      BY <2>2
    <3>2. checkpoints[1] =
              [root |-> Leaves(1), ts |-> 0, sig |-> Signature(k, 1, Leaves(1), 0), pub |-> None,
               receipt |-> None]
      BY <2>2 DEF Checkpoint
    <3>3. RowVerifies(1)
      BY <3>2 DEF RowVerifies, Signature
    <3>4. QED
      BY <2>2, <3>1, <3>3 DEF RowsVerify
  <2>3. QED
    BY <2>1, <2>2 DEF Init
<1>4. Types
  BY <1>1, <1>2, <1>3 DEF Types
<1>5. SnapshotsArePrefixes /\ IssuedAreStored
  BY <1>1, <1>2 DEF SnapshotsArePrefixes, IssuedAreStored
<1>6. \A r \in Requests : Works(r)
  BY <1>2 DEF Works
<1>7. QED
  BY <1>3, <1>4, <1>5, <1>6 DEF Inv

\* Every step keeps the invariant.
LEMMA Step == Inv /\ [Next]_vars => Inv'
<1> SUFFICES ASSUME Inv, [Next]_vars PROVE Inv'
  OBVIOUS
<1>1. CASE UNCHANGED vars
  BY <1>1 DEF vars, Inv, Types, SnapshotsArePrefixes, RowsVerify, RowVerifies, IssuedAreStored,
              TreeHead, Works
<1>2. ASSUME NEW r \in Requests, StepOf(r)
      PROVE  Inv'
  BY <1>2, ReadStep, InstallStep, InsertStep, LoadStep, BackfillStep, StoreStep DEF StepOf
<1>3. ASSUME NEW p \in Processes, Restart(p)
      PROVE  Inv'
  BY <1>3, RestartStep
<1>4. CASE CommitLeaf \/ Tick
  BY <1>4, GrowStep
<1>5. QED
  BY <1>1, <1>2, <1>3, <1>4 DEF Next, StepOf

\* The invariant holds in every reachable state.
THEOREM Invariance == Spec => []Inv
BY Initially, Step, PTL DEF Spec

\* The cache of every process is a prefix of the log, whichever calls of
\* merkleSnapshot overlap: the mutex is not held while a request queries the
\* leaves it lacks, but what it appends starts at the end of its own copy.
THEOREM CachesArePrefixes == Spec => []SnapshotsArePrefixes
<1>1. Inv => SnapshotsArePrefixes
  BY DEF Inv
<1>2. QED
  BY <1>1, Invariance, PTL

\* Every tree head that persistCheckpoint has answered verifies under the key
\* that it names, also when the row was signed before a restart with another
\* key, or before the table had a column for the key.
THEOREM AnswersVerify == Spec => []IssuedVerify
<1>1. Inv => IssuedVerify
  <2> SUFFICES ASSUME Inv, NEW s \in issued
               PROVE  s.root = Leaves(s.size) /\ s.sig = Signature(s.pub, s.size, s.root, s.ts)
    BY DEF IssuedVerify
  <2> PICK n : n = s.size
    OBVIOUS
  <2>1. n \in DOMAIN checkpoints /\ s = TreeHead(n) /\ RowVerifies(n)
    BY DEF Inv, IssuedAreStored, RowsVerify
  <2>2. /\ s.root = checkpoints[n].root /\ s.ts = checkpoints[n].ts
        /\ s.sig = checkpoints[n].sig /\ s.pub = checkpoints[n].sig.key
    BY <2>1 DEF TreeHead
  <2>3. QED
    BY <2>1, <2>2 DEF RowVerifies
<1>2. QED
  BY <1>1, Invariance, PTL

\* Witnesses that compare their tree heads for a size agree: the row that is
\* inserted first is what every later request answers, of any process.
THEOREM OneTreeHead == Spec => []OneTreeHeadPerSize
<1>1. Inv => OneTreeHeadPerSize
  BY DEF Inv, IssuedAreStored, OneTreeHeadPerSize
<1>2. QED
  BY <1>1, Invariance, PTL

\* A receipt that AnchorCheckpoint stores timestamps the tree head of its row,
\* whichever anchor requests overlap and whatever they replace.
THEOREM ReceiptsAreForTheirRows == Spec => []ReceiptsMatch
<1>1. Inv => ReceiptsMatch
  BY DEF Inv, RowsVerify, RowVerifies, ReceiptsMatch
<1>2. QED
  BY <1>1, Invariance, PTL

\* A cache never shrinks while its process runs: what a slow request brings does
\* not replace a longer cache.
THEOREM CachesOnlyGrow == Spec => CachesGrow
<1>1. Inv /\ [Next]_vars => [\A p \in Processes :
          Len(snapshot'[p]) >= Len(snapshot[p]) \/ restarts' > restarts]_vars
  <2> SUFFICES ASSUME Inv, Next, NEW p \in Processes
               PROVE  Len(snapshot'[p]) >= Len(snapshot[p]) \/ restarts' > restarts
    OBVIOUS
  <2>1. Len(snapshot[p]) \in Nat /\ restarts \in Nat /\ Types
    BY DEF Inv, Types
  <2>2. ASSUME NEW q \in Processes, Restart(q)
        PROVE  restarts' > restarts
    BY <2>1, <2>2 DEF Restart
  <2>3. ASSUME NEW r \in Requests, Install(r)
        PROVE  Len(snapshot'[p]) >= Len(snapshot[p])
    <3> PICK q, leaves : q = ProcessOf[r] /\ leaves = Kept(q, got[r])
      OBVIOUS
    <3>1. q \in Processes /\ snapshot' = [snapshot EXCEPT ![q] = leaves]
      BY <2>3, RequestsAssumption DEF Install
    <3>2. snapshot'[p] = IF p = q THEN leaves ELSE snapshot[p]
      BY <2>1, <3>1 DEF Types
    <3>3. p = q => Len(leaves) >= Len(snapshot[p])
      BY <2>1 DEF Kept
    <3>4. QED
      BY <2>1, <3>2, <3>3
  <2>4. CASE snapshot' = snapshot
    BY <2>1, <2>4
  <2>5. QED
    BY <2>2, <2>3, <2>4 DEF Next, Ask, LookUp, Query, AnswerProof, InsertCheckpoint,
       LoadCheckpoint, BackfillPubKey, ReadReceipt, StoreReceipt, CommitLeaf, Tick, process
<1>2. QED
  BY <1>1, Invariance, PTL DEF Spec, CachesGrow

=============================================================================
