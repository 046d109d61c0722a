---------------------------- MODULE LedgerProofs ----------------------------
(***************************************************************************)
(* Theorems about the atomic ledger, for every set of accounts, keys and    *)
(* amounts and every supply.                                                *)
(***************************************************************************)
EXTENDS Ledger, TotalsTheorems, SequenceTheorems

\* The database a deployment starts from is well-typed.
LEMMA InitTypeOK == Init => TypeOK
<1>1. ASSUME InitEmpty
      PROVE  TypeOK
  <2>1. balance \in [Ids -> Nat] /\ nonce \in [Ids -> Nat]
    BY <1>1 DEF InitEmpty
  <2>2. log \in Seq(Entry)
    BY <1>1 DEF InitEmpty
  <2>3. QED
    BY <1>1, <2>1, <2>2 DEF InitEmpty, TypeOK
<1>2. ASSUME InitLegacy
      PROVE  TypeOK
  <2>1. PICK k \in Keys, v \in Ids, a \in Amounts \cap (1 .. SupplyCap) :
          /\ v < TreasuryDscID
          /\ rows = {TreasuryDscID, v}
          /\ pubkey = [i \in Ids |-> IF i = TreasuryDscID THEN k ELSE NoKey]
          /\ nonce = [i \in Ids |-> IF i = TreasuryDscID THEN 1 ELSE 0]
          /\ balance = [i \in Ids |-> CASE i = TreasuryDscID -> SupplyCap - a
                                        [] i = v -> a
                                        [] OTHER -> 0]
          /\ log = << [tx |-> [type |-> "genesis", signer |-> k, to |-> k,
                               amount |-> SupplyCap], by |-> TreasuryDscID],
                      [tx |-> [type |-> "transfer", signer |-> k, from |-> k, to |-> v,
                               amount |-> a, nonce |-> 1], by |-> TreasuryDscID] >>
    BY <1>2 DEF InitLegacy
  <2>2. rows \subseteq Ids
    BY <2>1, IdsAssumption
  <2>3. SupplyCap - a \in Nat /\ a \in Nat /\ a \in Amounts /\ SupplyCap \in Amounts
    BY SupplyCapAssumption, AmountsAssumption
  <2>4. pubkey \in [Ids -> Keys \cup {NoKey}] /\ nonce \in [Ids -> Nat]
    BY <2>1
  <2>5. balance \in [Ids -> Nat]
    BY <2>1, <2>3
  <2>6. log \in Seq(Entry)
    <3>1. [type |-> "genesis", signer |-> k, to |-> k, amount |-> SupplyCap] \in Tx
      BY <2>3 DEF Tx, GenesisTx
    <3>2. 1 \in Nonces
      BY MaxLogAssumption DEF Nonces
    <3>3. [type |-> "transfer", signer |-> k, from |-> k, to |-> v,
           amount |-> a, nonce |-> 1] \in Tx
      BY <2>3, <3>2 DEF Tx, TransferTx
    <3>4. QED
      BY <2>1, <3>1, <3>3, IdsAssumption DEF Entry
  <2>7. QED
    BY <2>2, <2>4, <2>5, <2>6 DEF TypeOK
<1>3. QED
  BY <1>1, <1>2 DEF Init

\* The fields of the payloads have the types the code parses them to.
LEMMA TxFields ==
    /\ \A tx \in GenesisTx : tx.signer \in Keys /\ tx.to \in Keys
    /\ \A tx \in TransferTx : /\ tx.type = "transfer" /\ tx.signer \in Keys
                             /\ tx.to \in Ids /\ tx.amount \in Int /\ tx.nonce \in Int
    /\ \A tx \in RotateTx : /\ tx.type = "rotate_key" /\ tx.signer \in Keys
                           /\ tx.newKey \in Keys /\ tx.nonce \in Int
    /\ \A tx \in ReclaimTx : /\ tx.type = "reclaim_invalid" /\ tx.signer \in Keys
                            /\ tx.from \in Ids /\ tx.amount \in Int /\ tx.nonce \in Int
<1>1. \A n \in Nonces : n \in Int
  BY MaxLogAssumption DEF Nonces
<1>2. \A a \in Amounts : a \in Int
  BY AmountsAssumption
<1>3. QED
  BY <1>1, <1>2 DEF GenesisTx, TransferTx, RotateTx, ReclaimTx

\* Appending a leaf keeps the log a sequence of entries, and makes it non-empty.
LEMMA AppendLeafType ==
    ASSUME TypeOK, NEW tx \in Tx, NEW i \in Ids, AppendLeaf(tx, i)
    PROVE  log' \in Seq(Entry) /\ log' # <<>>
<1>1. [tx |-> tx, by |-> i] \in Entry
  BY DEF Entry
<1>2. log \in Seq(Entry) /\ log' = Append(log, [tx |-> tx, by |-> i])
  BY DEF TypeOK, AppendLeaf
<1>3. QED
  BY <1>1, <1>2, AppendProperties

\* What a transfer does, as far as the proofs need it: the amount is positive
\* and covered, the two accounts differ, and the two rows are rewritten.
LEMMA TransferEffect ==
    ASSUME TypeOK, NEW tx \in TransferTx, NEW i \in Ids, Transfer(tx, i)
    PROVE  /\ tx.to \in Ids /\ i # tx.to
           /\ balance[i] - tx.amount \in Nat /\ balance[tx.to] + tx.amount \in Nat
           /\ nonce[tx.to] \in Nat
           /\ tx.amount \in Nat /\ tx.amount > 0 /\ tx.amount <= balance[i]
           /\ tx.nonce = nonce[i] + 1 /\ tx.nonce \in Nat
           /\ HoldsKey(i, tx.signer)
           /\ rows' = rows \cup {tx.to} /\ pubkey' = pubkey
           /\ nonce' = [nonce EXCEPT ![i] = tx.nonce, ![tx.to] = nonce[tx.to]]
           /\ balance' = [balance EXCEPT ![i] = balance[i] - tx.amount,
                                         ![tx.to] = balance[tx.to] + tx.amount]
           /\ AppendLeaf(tx, i)
<1>1. tx.to \in Ids /\ tx.amount \in Int /\ tx.nonce \in Int
  BY TxFields
<1>2. balance[i] \in Nat /\ nonce[i] \in Nat /\ balance[tx.to] \in Nat /\ nonce[tx.to] \in Nat
  BY <1>1 DEF TypeOK
<1>3. i # tx.to /\ tx.from = tx.signer /\ HoldsKey(i, tx.from)
  BY DEF Transfer, NotSelf
<1>4. tx.amount > 0 /\ balance[i] >= tx.amount /\ tx.nonce = nonce[i] + 1
  BY DEF Transfer, PositiveAmount, HasFunds, NextNonce
<1>5. /\ tx.amount \in Nat /\ tx.amount <= balance[i] /\ tx.nonce \in Nat
      /\ balance[i] - tx.amount \in Nat /\ balance[tx.to] + tx.amount \in Nat
  BY <1>1, <1>2, <1>4
<1>6. QED
  BY <1>1, <1>2, <1>3, <1>4, <1>5, Zenon DEF Transfer

\* What a rotation does: the next nonce and a free key on one row.
LEMMA RotateEffect ==
    ASSUME TypeOK, NEW tx \in RotateTx, NEW i \in Ids, RotateKey(tx, i)
    PROVE  /\ tx.newKey \in Keys /\ KeyFreeFor(i, tx.newKey)
           /\ tx.nonce = nonce[i] + 1 /\ tx.nonce \in Nat
           /\ HoldsKey(i, tx.signer)
           /\ nonce' = [nonce EXCEPT ![i] = tx.nonce]
           /\ pubkey' = [pubkey EXCEPT ![i] = tx.newKey]
           /\ AppendLeaf(tx, i)
           /\ UNCHANGED <<rows, balance>>
<1>1. tx.newKey \in Keys /\ nonce[i] \in Nat
  BY TxFields DEF TypeOK
<1>2. tx.nonce = nonce[i] + 1
  BY DEF RotateKey, NextNonce
<1>3. tx.nonce \in Nat
  BY <1>1, <1>2
<1>4. QED
  BY <1>1, <1>2, <1>3, Zenon DEF RotateKey

\* What a reclaim does: a covered amount moves from a negative id without a key
\* to the treasury, under the treasury's next nonce.
LEMMA ReclaimEffect ==
    ASSUME TypeOK, NEW tx \in ReclaimTx, ReclaimInvalid(tx)
    PROVE  /\ tx.from \in Ids /\ tx.from < TreasuryDscID
           /\ tx.from # TreasuryDscID /\ TreasuryDscID \in Ids
           /\ pubkey[tx.from] = NoKey
           /\ balance[tx.from] - tx.amount \in Nat
           /\ balance[TreasuryDscID] + tx.amount \in Nat
           /\ tx.amount \in Nat /\ tx.amount > 0 /\ tx.amount <= balance[tx.from]
           /\ tx.nonce = nonce[TreasuryDscID] + 1 /\ tx.nonce \in Nat
           /\ HoldsKey(TreasuryDscID, tx.signer)
           /\ nonce' = [nonce EXCEPT ![TreasuryDscID] = tx.nonce]
           /\ balance' = [balance EXCEPT ![tx.from] = balance[tx.from] - tx.amount,
                                         ![TreasuryDscID] = balance[TreasuryDscID] + tx.amount]
           /\ AppendLeaf(tx, TreasuryDscID)
           /\ UNCHANGED <<rows, pubkey>>
<1>1. tx.from \in Ids /\ tx.amount \in Int /\ tx.nonce \in Int /\ TreasuryDscID \in Ids
  BY TxFields, IdsAssumption
<1>2. /\ balance[tx.from] \in Nat /\ balance[TreasuryDscID] \in Nat
      /\ nonce[TreasuryDscID] \in Nat
  BY <1>1 DEF TypeOK
<1>3. tx.from < TreasuryDscID /\ tx.signer = tx.admin /\ HoldsKey(TreasuryDscID, tx.admin)
  BY DEF ReclaimInvalid
<1>4. tx.from # TreasuryDscID
  BY <1>1, <1>3, IdsAssumption DEF TreasuryDscID
<1>5. /\ tx.amount > 0 /\ balance[tx.from] >= tx.amount
      /\ tx.nonce = nonce[TreasuryDscID] + 1 /\ pubkey[tx.from] = NoKey
  BY DEF ReclaimInvalid, PositiveAmount, HasFunds, NextNonce, NotActivated
<1>6. /\ tx.amount \in Nat /\ tx.amount <= balance[tx.from] /\ tx.nonce \in Nat
      /\ balance[tx.from] - tx.amount \in Nat
      /\ balance[TreasuryDscID] + tx.amount \in Nat
  BY <1>1, <1>2, <1>5
<1>7. QED
  BY <1>1, <1>3, <1>4, <1>5, <1>6, Zenon DEF ReclaimInvalid

\* Every step keeps the types: in particular no step makes a balance negative,
\* which the guard HasFunds (ErrInsufficientFunds) is there for.
LEMMA NextTypeOK == TypeOK /\ [Next]_vars => TypeOK'
<1> SUFFICES ASSUME TypeOK, [Next]_vars
             PROVE  TypeOK'
  OBVIOUS
<1>1. ASSUME NEW tx \in GenesisTx, Genesis(tx)
      PROVE  TypeOK'
  <2>1. log' \in Seq(Entry)
    BY <1>1, AppendLeafType, IdsAssumption DEF Genesis, Tx
  <2>2. tx.to \in Keys
    BY TxFields
  <2>3. SupplyCap \in Nat /\ 0 \in Nat /\ TreasuryDscID \in Ids
    BY SupplyCapAssumption, IdsAssumption
  <2>4. QED
    BY <1>1, <2>1, <2>2, <2>3 DEF TypeOK, Genesis
<1>2. ASSUME NEW tx \in TransferTx, NEW i \in Ids, Transfer(tx, i)
      PROVE  TypeOK'
  <2>1. log' \in Seq(Entry)
    BY <1>2, TransferEffect, AppendLeafType DEF Tx
  <2>2. /\ tx.to \in Ids /\ tx.nonce \in Nat /\ nonce[tx.to] \in Nat
        /\ balance[i] - tx.amount \in Nat /\ balance[tx.to] + tx.amount \in Nat
        /\ nonce' = [nonce EXCEPT ![i] = tx.nonce, ![tx.to] = nonce[tx.to]]
        /\ balance' = [balance EXCEPT ![i] = balance[i] - tx.amount,
                                      ![tx.to] = balance[tx.to] + tx.amount]
        /\ rows' = rows \cup {tx.to} /\ pubkey' = pubkey
    BY <1>2, TransferEffect
  <2>3. nonce' \in [Ids -> Nat]
    BY <2>2 DEF TypeOK
  <2>4. balance' \in [Ids -> Nat]
    BY <2>2 DEF TypeOK
  <2>5. QED
    BY <2>1, <2>2, <2>3, <2>4 DEF TypeOK
<1>3. ASSUME NEW tx \in RotateTx, NEW i \in Ids, RotateKey(tx, i)
      PROVE  TypeOK'
  <2>1. log' \in Seq(Entry)
    BY <1>3, RotateEffect, AppendLeafType DEF Tx
  <2>2. QED
    BY <1>3, <2>1, RotateEffect DEF TypeOK
<1>4. ASSUME NEW tx \in ReclaimTx, ReclaimInvalid(tx)
      PROVE  TypeOK'
  <2>1. log' \in Seq(Entry)
    BY <1>4, ReclaimEffect, AppendLeafType DEF Tx
  <2>2. /\ tx.from \in Ids /\ TreasuryDscID \in Ids /\ tx.nonce \in Nat
        /\ balance[tx.from] - tx.amount \in Nat
        /\ balance[TreasuryDscID] + tx.amount \in Nat
        /\ nonce' = [nonce EXCEPT ![TreasuryDscID] = tx.nonce]
        /\ balance' = [balance EXCEPT ![tx.from] = balance[tx.from] - tx.amount,
                                      ![TreasuryDscID] = balance[TreasuryDscID] + tx.amount]
        /\ UNCHANGED <<rows, pubkey>>
    BY <1>4, ReclaimEffect
  <2>3. nonce' \in [Ids -> Nat]
    BY <2>2 DEF TypeOK
  <2>4. balance' \in [Ids -> Nat]
    BY <2>2 DEF TypeOK
  <2>5. QED
    BY <2>1, <2>2, <2>3, <2>4 DEF TypeOK
<1>5. ASSUME NEW i \in Ids, NEW k \in Keys, Register(i, k)
      PROVE  TypeOK'
  BY <1>5 DEF TypeOK, Register
<1>6. ASSUME UNCHANGED vars
      PROVE  TypeOK'
  BY <1>6 DEF TypeOK, vars
<1>7. QED
  BY <1>1, <1>2, <1>3, <1>4, <1>5, <1>6 DEF Next

\* The tables keep their column types and the CHECK (balance >= 0) of table
\* accounts is never what stops a request.
THEOREM TypeCorrect == Spec => []TypeOK
<1>1. Init => TypeOK
  BY InitTypeOK
<1>2. TypeOK /\ [Next]_vars => TypeOK'
  BY NextTypeOK
<1>3. QED
  BY <1>1, <1>2, PTL DEF Spec

-----------------------------------------------------------------------------
(* Conservation of the supply.                                              *)

\* A new deployment has no points, a legacy one the whole supply.
LEMMA InitSupply == Init => SupplyConserved
<1>1. IsFiniteSet(Ids) /\ TreasuryDscID \in Ids
  BY IdsAssumption
<1>2. ASSUME InitEmpty
      PROVE  SupplyConserved
  <2>1. balance \in [Ids -> Nat] /\ \A i \in Ids : balance[i] = 0
    BY <1>2 DEF InitEmpty
  <2>2. Total(balance) = 0
    BY <2>1, TotalZero
  <2>3. QED
    BY <1>2, <2>2 DEF InitEmpty, SupplyConserved, TotalBalance
<1>3. ASSUME InitLegacy
      PROVE  SupplyConserved
  <2>1. PICK v \in Ids, a \in Amounts \cap (1 .. SupplyCap) :
          /\ v < TreasuryDscID
          /\ balance = [i \in Ids |-> CASE i = TreasuryDscID -> SupplyCap - a
                                        [] i = v -> a
                                        [] OTHER -> 0]
          /\ log # <<>>
    BY <1>3 DEF InitLegacy
  <2>2. a \in Nat /\ SupplyCap - a \in Nat /\ SupplyCap \in Nat
    BY SupplyCapAssumption
  <2>3. v # TreasuryDscID
    BY <2>1, IdsAssumption DEF TreasuryDscID
  <2> DEFINE none == [i \in Ids |-> 0]
             one == [none EXCEPT ![TreasuryDscID] = SupplyCap - a]
  <2>4. none \in [Ids -> Nat] /\ \A i \in Ids : none[i] = 0
    OBVIOUS
  <2>5. Total(none) = 0
    BY <2>4, TotalZero
  <2>6. Total(one) = Total(none) + ((SupplyCap - a) - none[TreasuryDscID])
    <3>1. none[TreasuryDscID] <= SupplyCap - a
      BY <1>1, <2>2
    <3> HIDE DEF none
    <3>2. QED
      BY <1>1, <2>2, <2>4, <3>1, TotalAdds
  <2>7. one \in [Ids -> Nat] /\ one[v] = 0
    BY <2>2, <2>3
  <2>8. Total([one EXCEPT ![v] = a]) = Total(one) + (a - one[v])
    <3> HIDE DEF one
    <3>1. one[v] <= a
      BY <2>2, <2>7
    <3>2. QED
      BY <1>1, <2>2, <2>7, <3>1, TotalAdds
  <2>9. balance = [one EXCEPT ![v] = a]
    BY <2>1, <2>3
  <2>10. none[TreasuryDscID] = 0
    BY <1>1, <2>4
  <2> HIDE DEF one, none
  <2>11. Total(balance) = SupplyCap
    BY <2>2, <2>5, <2>6, <2>7, <2>8, <2>9, <2>10
  <2>12. QED
    BY <2>1, <2>11 DEF SupplyConserved, TotalBalance
<1>4. QED
  BY <1>2, <1>3 DEF Init

\* A transfer moves points between two different rows, so the sum stays, and it
\* follows the genesis leaf.
LEMMA TransferKeepsSupply ==
    ASSUME TypeOK, SupplyConserved,
           NEW tx \in TransferTx, NEW i \in Ids, Transfer(tx, i)
    PROVE  SupplyConserved'
<1>1. balance \in [Ids -> Nat] /\ IsFiniteSet(Ids)
  BY IdsAssumption DEF TypeOK
<1>2. /\ balance' = [balance EXCEPT ![i] = balance[i] - tx.amount,
                                    ![tx.to] = balance[tx.to] + tx.amount]
      /\ AppendLeaf(tx, i)
  BY TransferEffect
<1>3. /\ tx.to \in Ids /\ i # tx.to /\ tx.amount \in Nat /\ tx.amount <= balance[i]
      /\ balance' \in [Ids -> Nat]
      /\ balance'[i] = balance[i] - tx.amount
      /\ balance'[tx.to] = balance[tx.to] + tx.amount
      /\ \A x \in Ids : x # i /\ x # tx.to => balance'[x] = balance[x]
  <2>1. /\ tx.to \in Ids /\ i # tx.to /\ tx.amount \in Nat /\ tx.amount <= balance[i]
        /\ balance[i] - tx.amount \in Nat /\ balance[tx.to] + tx.amount \in Nat
    BY TransferEffect
  <2>2. QED
    BY <1>1, <1>2, <2>1
<1>4. Total(balance') = Total(balance)
  BY <1>1, <1>3, TotalMove
<1>5. log # <<>>
  BY <1>2, TxFields DEF AppendLeaf
<1>6. log' # <<>>
  BY <1>2, AppendLeafType DEF Tx
<1>7. QED
  BY <1>4, <1>5, <1>6 DEF SupplyConserved, TotalBalance

\* Every step keeps the supply.  Genesis and reclaim_invalid re-read the sum
\* before they commit; the other transactions keep it by what they write.
LEMMA NextSupply == TypeOK /\ SupplyConserved /\ [Next]_vars => SupplyConserved'
<1> SUFFICES ASSUME TypeOK, SupplyConserved, [Next]_vars
             PROVE  SupplyConserved'
  OBVIOUS
<1>1. ASSUME NEW tx \in GenesisTx, Genesis(tx)
      PROVE  SupplyConserved'
  <2>1. log' # <<>>
    BY <1>1, AppendLeafType, IdsAssumption DEF Genesis, Tx
  <2>2. Total(balance') = SupplyCap
    BY <1>1 DEF Genesis
  <2>3. QED
    BY <2>1, <2>2 DEF SupplyConserved, TotalBalance
<1>2. ASSUME NEW tx \in TransferTx, NEW i \in Ids, Transfer(tx, i)
      PROVE  SupplyConserved'
  BY <1>2, TransferKeepsSupply
<1>3. ASSUME NEW tx \in RotateTx, NEW i \in Ids, RotateKey(tx, i)
      PROVE  SupplyConserved'
  <2>1. AppendLeaf(tx, i) /\ balance' = balance
    BY <1>3, RotateEffect
  <2>2. log # <<>>
    BY <2>1, TxFields DEF AppendLeaf
  <2>3. log' # <<>>
    BY <2>1, AppendLeafType DEF Tx
  <2>4. QED
    BY <2>1, <2>2, <2>3 DEF SupplyConserved, TotalBalance
<1>4. ASSUME NEW tx \in ReclaimTx, ReclaimInvalid(tx)
      PROVE  SupplyConserved'
  <2>1. log' # <<>>
    BY <1>4, ReclaimEffect, AppendLeafType DEF Tx
  <2>2. Total(balance') = SupplyCap
    BY <1>4 DEF ReclaimInvalid
  <2>3. QED
    BY <2>1, <2>2 DEF SupplyConserved, TotalBalance
<1>5. ASSUME NEW i \in Ids, NEW k \in Keys, Register(i, k)
      PROVE  SupplyConserved'
  BY <1>5 DEF Register, SupplyConserved, TotalBalance
<1>6. ASSUME UNCHANGED vars
      PROVE  SupplyConserved'
  BY <1>6 DEF vars, SupplyConserved, TotalBalance
<1>7. QED
  BY <1>1, <1>2, <1>3, <1>4, <1>5, <1>6 DEF Next

\* After the genesis leaf the balances sum to the supply for ever, for every
\* number of accounts: transfers and rotations need no sum check to keep it.
THEOREM SupplyIsConserved == Spec => []SupplyConserved
<1>1. Init => SupplyConserved
  BY InitSupply
<1>2. TypeOK /\ SupplyConserved /\ [Next]_vars => SupplyConserved'
  BY NextSupply
<1>3. QED
  BY <1>1, <1>2, TypeCorrect, PTL DEF Spec

-----------------------------------------------------------------------------
(* One holder per key.                                                      *)

\* Writing key k to row i, which then exists, keeps the holders apart if no
\* other row has k.
LEMMA WriteKeyKeepsHolders ==
    ASSUME TypeOK, OneHolderPerKey, NEW i \in Ids, NEW k \in Keys, KeyFreeFor(i, k),
           pubkey' = [pubkey EXCEPT ![i] = k], rows' = rows \cup {i}
    PROVE  OneHolderPerKey'
<1>1. ASSUME NEW j \in Ids, j # i
      PROVE  pubkey[j] # k
  <2>1. CASE j \in rows
    BY <1>1, <2>1 DEF KeyFreeFor
  <2>2. CASE j \notin rows
    BY <2>2, KeysAssumption DEF OneHolderPerKey
  <2>3. QED
    BY <2>1, <2>2
<1>2. ASSUME NEW j \in Ids
      PROVE  pubkey'[j] = IF j = i THEN k ELSE pubkey[j]
  BY DEF TypeOK
<1>3. ASSUME NEW j \in Ids, NEW l \in Ids, j # l, pubkey'[j] = pubkey'[l]
      PROVE  pubkey'[j] = NoKey
  BY <1>1, <1>2, <1>3 DEF OneHolderPerKey
<1>4. ASSUME NEW j \in Ids \ rows'
      PROVE  pubkey'[j] = NoKey
  BY <1>2 DEF OneHolderPerKey
<1>5. QED
  BY <1>3, <1>4 DEF OneHolderPerKey

\* Every step keeps the holders of keys apart.
LEMMA NextOneHolder == TypeOK /\ OneHolderPerKey /\ [Next]_vars => OneHolderPerKey'
<1> SUFFICES ASSUME TypeOK, OneHolderPerKey, [Next]_vars
             PROVE  OneHolderPerKey'
  OBVIOUS
<1>1. ASSUME NEW tx \in GenesisTx, Genesis(tx)
      PROVE  OneHolderPerKey'
  <2>1. /\ tx.to \in Keys /\ TreasuryDscID \in Ids /\ KeyFreeFor(TreasuryDscID, tx.to)
        /\ pubkey' = [pubkey EXCEPT ![TreasuryDscID] = tx.to]
        /\ rows' = rows \cup {TreasuryDscID}
    BY <1>1, TxFields, IdsAssumption DEF Genesis
  <2>2. QED
    BY <2>1, WriteKeyKeepsHolders
<1>2. ASSUME NEW tx \in TransferTx, NEW i \in Ids, Transfer(tx, i)
      PROVE  OneHolderPerKey'
  <2>1. pubkey' = pubkey /\ rows' = rows \cup {tx.to}
    BY <1>2, TransferEffect
  <2>2. QED
    BY <2>1 DEF OneHolderPerKey
<1>3. ASSUME NEW tx \in RotateTx, NEW i \in Ids, RotateKey(tx, i)
      PROVE  OneHolderPerKey'
  <2>1. /\ tx.newKey \in Keys /\ KeyFreeFor(i, tx.newKey)
        /\ pubkey' = [pubkey EXCEPT ![i] = tx.newKey]
        /\ rows' = rows
    BY <1>3, RotateEffect
  <2>2. rows = rows \cup {i}
    BY <1>3, RotateEffect DEF HoldsKey
  <2>3. QED
    BY <2>1, <2>2, WriteKeyKeepsHolders
<1>4. ASSUME NEW tx \in ReclaimTx, ReclaimInvalid(tx)
      PROVE  OneHolderPerKey'
  BY <1>4, ReclaimEffect DEF OneHolderPerKey
<1>5. ASSUME NEW i \in Ids, NEW k \in Keys, Register(i, k)
      PROVE  OneHolderPerKey'
  BY <1>5, WriteKeyKeepsHolders DEF Register
<1>6. ASSUME UNCHANGED vars
      PROVE  OneHolderPerKey'
  BY <1>6 DEF vars, OneHolderPerKey
<1>7. QED
  BY <1>1, <1>2, <1>3, <1>4, <1>5, <1>6 DEF Next

\* The empty and the legacy database have one key at most.
LEMMA InitOneHolder == Init => OneHolderPerKey
<1>1. ASSUME InitEmpty
      PROVE  OneHolderPerKey
  BY <1>1 DEF InitEmpty, OneHolderPerKey
<1>2. ASSUME InitLegacy
      PROVE  OneHolderPerKey
  <2>1. PICK k \in Keys, v \in Ids :
          /\ rows = {TreasuryDscID, v}
          /\ pubkey = [i \in Ids |-> IF i = TreasuryDscID THEN k ELSE NoKey]
    BY <1>2 DEF InitLegacy
  <2>2. QED
    BY <2>1 DEF OneHolderPerKey
<1>3. QED
  BY <1>1, <1>2 DEF Init

\* No rotation, registration or genesis gives an account the key of another, so
\* the key that signs a payload names one account.
THEOREM KeyNamesOneAccount == Spec => []OneHolderPerKey
<1>1. Init => OneHolderPerKey
  BY InitOneHolder
<1>2. TypeOK /\ OneHolderPerKey /\ [Next]_vars => OneHolderPerKey'
  BY NextOneHolder
<1>3. QED
  BY <1>1, <1>2, TypeCorrect, PTL DEF Spec

-----------------------------------------------------------------------------
(* Debits are signed.                                                       *)

\* The leaf that a step appends is the last of the new log.
LEMMA AppendedLeaf ==
    ASSUME TypeOK, NEW tx \in Tx, NEW i \in Ids, AppendLeaf(tx, i)
    PROVE  /\ Len(log') = Len(log) + 1
           /\ log'[Len(log')] = [tx |-> tx, by |-> i]
<1>1. [tx |-> tx, by |-> i] \in Entry
  BY DEF Entry
<1>2. log \in Seq(Entry) /\ log' = Append(log, [tx |-> tx, by |-> i])
  BY DEF TypeOK, AppendLeaf
<1>3. QED
  BY <1>1, <1>2, AppendProperties

\* Every step takes points only from an account that signed for them, or from a
\* negative id under the treasury's signature.
LEMMA NextDebits == TypeOK /\ SupplyConserved /\ [Next]_vars => [DebitStep]_vars
<1> SUFFICES ASSUME TypeOK, SupplyConserved, Next
             PROVE  DebitStep
  OBVIOUS
<1>1. ASSUME NEW tx \in GenesisTx, Genesis(tx)
      PROVE  DebitStep
  <2>1. /\ balance' = [balance EXCEPT ![TreasuryDscID] = SupplyCap]
        /\ AppendLeaf(tx, TreasuryDscID)
    BY <1>1 DEF Genesis
  <2>2. log = <<>>
    BY <2>1 DEF AppendLeaf, GenesisTx
  <2>3. Total(balance) = 0
    BY <2>2 DEF SupplyConserved, TotalBalance
  <2>4. balance \in [Ids -> Nat] /\ TreasuryDscID \in Ids /\ IsFiniteSet(Ids)
    BY IdsAssumption DEF TypeOK
  <2>5. balance[TreasuryDscID] <= 0
    BY <2>3, <2>4, TotalBounds
  <2>6. \A i \in Ids : ~ (balance'[i] < balance[i])
    BY <2>1, <2>4, <2>5, SupplyCapAssumption
  <2>7. QED
    BY <2>6 DEF DebitStep
<1>2. ASSUME NEW tx \in TransferTx, NEW i \in Ids, Transfer(tx, i)
      PROVE  DebitStep
  <2>1. /\ tx.to \in Ids /\ i # tx.to /\ tx.amount \in Nat
        /\ balance[tx.to] + tx.amount \in Nat
        /\ balance' = [balance EXCEPT ![i] = balance[i] - tx.amount,
                                      ![tx.to] = balance[tx.to] + tx.amount]
        /\ tx.signer = pubkey[i] /\ tx.type = "transfer"
    BY <1>2, TransferEffect, TxFields DEF HoldsKey
  <2>2. Len(log') = Len(log) + 1 /\ log'[Len(log')] = [tx |-> tx, by |-> i]
    BY <1>2, TransferEffect, AppendedLeaf DEF Tx
  <2>3. balance \in [Ids -> Nat]
    BY DEF TypeOK
  <2>4. \A x \in Ids : x # i => ~ (balance'[x] < balance[x])
    BY <2>1, <2>3
  <2>5. balance[i] - balance'[i] = tx.amount
    BY <2>1, <2>3
  <2>6. SignedDebit(i, log'[Len(log')])
    <3>1. /\ log'[Len(log')].tx = tx /\ log'[Len(log')].by = i
      BY <2>2
    <3>2. tx.type = "transfer" /\ tx.signer = pubkey[i]
      BY <2>1
    <3>3. QED
      BY <2>5, <3>1, <3>2 DEF SignedDebit
  <2>7. Len(log') = Len(log) + 1
    BY <2>2
  <2>8. QED
    BY <2>4, <2>6, <2>7 DEF DebitStep
<1>3. ASSUME NEW tx \in RotateTx, NEW i \in Ids, RotateKey(tx, i)
      PROVE  DebitStep
  BY <1>3, RotateEffect DEF DebitStep, TypeOK
<1>4. ASSUME NEW tx \in ReclaimTx, ReclaimInvalid(tx)
      PROVE  DebitStep
  <2>1. /\ tx.from \in Ids /\ TreasuryDscID \in Ids /\ tx.from # TreasuryDscID
        /\ tx.amount \in Nat /\ tx.from < TreasuryDscID /\ pubkey[tx.from] = NoKey
        /\ balance[TreasuryDscID] + tx.amount \in Nat
        /\ balance' = [balance EXCEPT ![tx.from] = balance[tx.from] - tx.amount,
                                      ![TreasuryDscID] = balance[TreasuryDscID] + tx.amount]
        /\ tx.signer = pubkey[TreasuryDscID] /\ tx.type = "reclaim_invalid"
    BY <1>4, ReclaimEffect, TxFields DEF HoldsKey
  <2>2. Len(log') = Len(log) + 1 /\ log'[Len(log')] = [tx |-> tx, by |-> TreasuryDscID]
    BY <1>4, ReclaimEffect, AppendedLeaf DEF Tx
  <2>3. balance \in [Ids -> Nat]
    BY DEF TypeOK
  <2>4. \A x \in Ids : x # tx.from => ~ (balance'[x] < balance[x])
    BY <2>1, <2>3
  <2>5. balance[tx.from] - balance'[tx.from] = tx.amount
    BY <2>1, <2>3
  <2>6. SignedDebit(tx.from, log'[Len(log')])
    <3>1. log'[Len(log')].tx = tx
      BY <2>2
    <3>2. /\ tx.type = "reclaim_invalid" /\ tx.from < TreasuryDscID
          /\ pubkey[tx.from] = NoKey /\ tx.signer = pubkey[TreasuryDscID]
      BY <2>1
    <3>3. QED
      BY <2>5, <3>1, <3>2 DEF SignedDebit
  <2>7. Len(log') = Len(log) + 1
    BY <2>2
  <2>8. QED
    BY <2>4, <2>6, <2>7 DEF DebitStep
<1>5. ASSUME NEW i \in Ids, NEW k \in Keys, Register(i, k)
      PROVE  DebitStep
  BY <1>5 DEF Register, DebitStep, TypeOK
<1>6. QED
  BY <1>1, <1>2, <1>3, <1>4, <1>5 DEF Next

\* No account loses points without a leaf that its own key signed, or that the
\* treasury's key signed for a negative id without a key.
THEOREM EveryDebitIsSigned == Spec => DebitsAreSigned
<1>1. TypeOK /\ SupplyConserved /\ [Next]_vars => [DebitStep]_vars
  BY NextDebits
<1>2. QED
  BY <1>1, TypeCorrect, SupplyIsConserved, PTL DEF Spec, DebitsAreSigned

-----------------------------------------------------------------------------
(* Keys, and the points of negative ids.                                    *)

\* Who can have no key: a negative id at any time, and the treasury before the
\* genesis.  Genesis overwrites the treasury's key, so its guard needs this.
Keyless ==
    /\ \A i \in Ids : i < TreasuryDscID => pubkey[i] = NoKey
    /\ log = <<>> => pubkey[TreasuryDscID] = NoKey

\* The empty database has no key, the legacy one only the treasury's.
LEMMA InitKeyless == Init => Keyless
<1>1. TreasuryDscID \in Ids /\ \A i \in Ids : i < TreasuryDscID => i # TreasuryDscID
  BY IdsAssumption DEF TreasuryDscID
<1>2. ASSUME InitEmpty
      PROVE  Keyless
  BY <1>1, <1>2 DEF InitEmpty, Keyless
<1>3. ASSUME InitLegacy
      PROVE  Keyless
  <2>1. PICK k \in Keys :
          /\ pubkey = [i \in Ids |-> IF i = TreasuryDscID THEN k ELSE NoKey]
          /\ log # <<>>
    BY <1>3 DEF InitLegacy
  <2>2. QED
    BY <1>1, <2>1 DEF Keyless
<1>4. QED
  BY <1>2, <1>3 DEF Init

\* Every step keeps them without a key: a registration is for a positive id, and
\* a rotation for a row that has a key already.
LEMMA NextKeyless == TypeOK /\ Keyless /\ [Next]_vars => Keyless'
<1> SUFFICES ASSUME TypeOK, Keyless, [Next]_vars
             PROVE  Keyless'
  OBVIOUS
<1>1. /\ TreasuryDscID \in Ids /\ pubkey \in [Ids -> Keys \cup {NoKey}]
      /\ \A i \in Ids : i < TreasuryDscID => i # TreasuryDscID
      /\ \A i \in Ids : i > TreasuryDscID => i # TreasuryDscID /\ ~ (i < TreasuryDscID)
  BY IdsAssumption DEF TreasuryDscID, TypeOK
<1>2. ASSUME NEW tx \in GenesisTx, Genesis(tx)
      PROVE  Keyless'
  <2>1. log' # <<>>
    BY <1>2, <1>1, AppendLeafType DEF Genesis, Tx
  <2>2. pubkey' = [pubkey EXCEPT ![TreasuryDscID] = tx.to]
    BY <1>2 DEF Genesis
  <2>3. QED
    BY <1>1, <2>1, <2>2 DEF Keyless
<1>3. ASSUME NEW tx \in TransferTx, NEW i \in Ids, Transfer(tx, i)
      PROVE  Keyless'
  <2>1. pubkey' = pubkey /\ log' # <<>>
    BY <1>3, TransferEffect, AppendLeafType DEF Tx
  <2>2. QED
    BY <2>1 DEF Keyless
<1>4. ASSUME NEW tx \in RotateTx, NEW i \in Ids, RotateKey(tx, i)
      PROVE  Keyless'
  <2>1. log' # <<>> /\ pubkey' = [pubkey EXCEPT ![i] = tx.newKey]
    BY <1>4, RotateEffect, AppendLeafType DEF Tx
  <2>2. pubkey[i] # NoKey
    BY <1>4, RotateEffect, TxFields, KeysAssumption DEF HoldsKey
  <2>3. QED
    BY <1>1, <2>1, <2>2 DEF Keyless
<1>5. ASSUME NEW tx \in ReclaimTx, ReclaimInvalid(tx)
      PROVE  Keyless'
  <2>1. pubkey' = pubkey /\ log' # <<>>
    BY <1>5, ReclaimEffect, AppendLeafType DEF Tx
  <2>2. QED
    BY <2>1 DEF Keyless
<1>6. ASSUME NEW i \in Ids, NEW k \in Keys, Register(i, k)
      PROVE  Keyless'
  <2>1. i > TreasuryDscID /\ pubkey' = [pubkey EXCEPT ![i] = k] /\ log' = log
    BY <1>6 DEF Register
  <2>2. QED
    BY <1>1, <2>1 DEF Keyless
<1>7. ASSUME UNCHANGED vars
      PROVE  Keyless'
  BY <1>7 DEF vars, Keyless
<1>8. QED
  BY <1>2, <1>3, <1>4, <1>5, <1>6, <1>7 DEF Next

\* In every reachable state.
LEMMA AlwaysKeyless == Spec => []Keyless
<1>1. TypeOK /\ Keyless /\ [Next]_vars => Keyless'
  BY NextKeyless
<1>2. QED
  BY <1>1, InitKeyless, TypeCorrect, PTL DEF Spec

\* Every step that replaces a key is a rotation signed by the replaced one.
LEMMA NextKeys == TypeOK /\ Keyless /\ [Next]_vars => [KeyStep]_vars
<1> SUFFICES ASSUME TypeOK, Keyless, Next
             PROVE  KeyStep
  OBVIOUS
<1>1. pubkey \in [Ids -> Keys \cup {NoKey}] /\ TreasuryDscID \in Ids
  BY IdsAssumption DEF TypeOK
<1>2. ASSUME NEW tx \in GenesisTx, Genesis(tx)
      PROVE  KeyStep
  <2>1. log = <<>> /\ pubkey' = [pubkey EXCEPT ![TreasuryDscID] = tx.to]
    BY <1>2 DEF Genesis, AppendLeaf, GenesisTx
  <2>2. \A i \in Ids : pubkey[i] # NoKey => pubkey'[i] = pubkey[i]
    BY <1>1, <2>1 DEF Keyless
  <2>3. QED
    BY <2>2 DEF KeyStep
<1>3. ASSUME NEW tx \in TransferTx, NEW i \in Ids, Transfer(tx, i)
      PROVE  KeyStep
  BY <1>3, TransferEffect DEF KeyStep
<1>4. ASSUME NEW tx \in RotateTx, NEW i \in Ids, RotateKey(tx, i)
      PROVE  KeyStep
  <2>1. Len(log') = Len(log) + 1 /\ log'[Len(log')] = [tx |-> tx, by |-> i]
    BY <1>4, RotateEffect, AppendedLeaf DEF Tx
  <2>2. /\ pubkey' = [pubkey EXCEPT ![i] = tx.newKey] /\ tx.signer = pubkey[i]
        /\ tx.type = "rotate_key"
    BY <1>4, RotateEffect, TxFields DEF HoldsKey
  <2>3. \A j \in Ids : j # i => pubkey'[j] = pubkey[j]
    BY <1>1, <2>2
  <2>4. SignedRotation(i, log'[Len(log')])
    <3>1. log'[Len(log')].tx = tx /\ log'[Len(log')].by = i
      BY <2>1
    <3>2. tx.newKey = pubkey'[i]
      BY <1>1, <2>2
    <3>3. QED
      BY <2>2, <3>1, <3>2 DEF SignedRotation
  <2>5. QED
    BY <2>1, <2>3, <2>4 DEF KeyStep
<1>5. ASSUME NEW tx \in ReclaimTx, ReclaimInvalid(tx)
      PROVE  KeyStep
  BY <1>5, ReclaimEffect DEF KeyStep
<1>6. ASSUME NEW i \in Ids, NEW k \in Keys, Register(i, k)
      PROVE  KeyStep
  <2>1. pubkey[i] = NoKey /\ pubkey' = [pubkey EXCEPT ![i] = k]
    BY <1>6 DEF Register, NotActivated
  <2>2. QED
    BY <1>1, <2>1 DEF KeyStep
<1>7. QED
  BY <1>2, <1>3, <1>4, <1>5, <1>6 DEF Next

\* A key that an account has is replaced by nothing but a rotate_key that this
\* key signed; no registration, genesis or transfer touches it.
THEOREM EveryKeyChangeIsSigned == Spec => KeyChangesAreSigned
<1>1. TypeOK /\ Keyless /\ [Next]_vars => [KeyStep]_vars
  BY NextKeys
<1>2. QED
  BY <1>1, TypeCorrect, AlwaysKeyless, PTL DEF Spec, KeyChangesAreSigned

\* Every step leaves the points of a negative id alone, or returns some of them.
LEMMA NextStranded == TypeOK /\ Keyless /\ Keyless' /\ [Next]_vars => [StrandedStep]_vars
<1> SUFFICES ASSUME TypeOK, Keyless, Keyless', Next
             PROVE  StrandedStep
  OBVIOUS
<1> DEFINE Alone == \A i \in Ids : i < TreasuryDscID => balance'[i] = balance[i]
<1>1. ASSUME Alone
      PROVE  StrandedStep
  BY <1>1 DEF StrandedStep, Keyless
<1>2. /\ balance \in [Ids -> Nat] /\ TreasuryDscID \in Ids
      /\ \A i \in Ids : i < TreasuryDscID => i # TreasuryDscID
      /\ \A i \in Ids : i > TreasuryDscID => ~ (i < TreasuryDscID)
  BY IdsAssumption DEF TypeOK, TreasuryDscID
<1>3. ASSUME NEW tx \in GenesisTx, Genesis(tx)
      PROVE  StrandedStep
  <2>1. balance' = [balance EXCEPT ![TreasuryDscID] = SupplyCap]
    BY <1>3 DEF Genesis
  <2>2. QED
    BY <1>1, <1>2, <2>1
<1>4. ASSUME NEW tx \in TransferTx, NEW i \in Ids, Transfer(tx, i)
      PROVE  StrandedStep
  <2>1. /\ tx.to \in Ids /\ tx.to > TreasuryDscID
        /\ balance' = [balance EXCEPT ![i] = balance[i] - tx.amount,
                                      ![tx.to] = balance[tx.to] + tx.amount]
    BY <1>4, TransferEffect DEF Transfer, UserId
  <2>2. pubkey[i] # NoKey
    BY <1>4, TransferEffect, TxFields, KeysAssumption DEF HoldsKey
  <2>3. \A j \in Ids : j < TreasuryDscID => j # i /\ j # tx.to
    BY <1>2, <2>1, <2>2 DEF Keyless
  <2>4. QED
    BY <1>1, <1>2, <2>1, <2>3
<1>5. ASSUME NEW tx \in RotateTx, NEW i \in Ids, RotateKey(tx, i)
      PROVE  StrandedStep
  BY <1>1, <1>5, RotateEffect
<1>6. ASSUME NEW tx \in ReclaimTx, ReclaimInvalid(tx)
      PROVE  StrandedStep
  <2>1. /\ tx.from \in Ids /\ tx.from # TreasuryDscID
        /\ tx.amount \in Nat /\ tx.amount > 0
        /\ balance[tx.from] - tx.amount \in Nat
        /\ balance[TreasuryDscID] + tx.amount \in Nat
        /\ balance' = [balance EXCEPT ![tx.from] = balance[tx.from] - tx.amount,
                                      ![TreasuryDscID] = balance[TreasuryDscID] + tx.amount]
    BY <1>6, ReclaimEffect
  <2>2. /\ balance'[tx.from] = balance[tx.from] - tx.amount
        /\ balance'[TreasuryDscID] = balance[TreasuryDscID] + tx.amount
        /\ \A j \in Ids : j < TreasuryDscID /\ j # tx.from => balance'[j] = balance[j]
    BY <1>2, <2>1
  <2>3. balance[tx.from] \in Nat /\ balance[TreasuryDscID] \in Nat
    BY <1>2, <2>1
  <2>4. /\ balance'[tx.from] < balance[tx.from]
        /\ balance'[tx.from] + balance'[TreasuryDscID]
             = balance[tx.from] + balance[TreasuryDscID]
    BY <2>1, <2>2, <2>3
  <2>5. QED
    BY <2>2, <2>4 DEF StrandedStep, Keyless
<1>7. ASSUME NEW i \in Ids, NEW k \in Keys, Register(i, k)
      PROVE  StrandedStep
  BY <1>1, <1>7 DEF Register
<1>8. QED
  BY <1>3, <1>4, <1>5, <1>6, <1>7 DEF Next

\* The points of a negative id can only go back to the treasury, whatever is
\* signed, registered or rotated.
THEOREM StrandedPointsReturn == Spec => StrandedPointsOnlyReturn
<1>1. TypeOK /\ Keyless /\ Keyless' /\ [Next]_vars => [StrandedStep]_vars
  BY NextStranded
<1>2. QED
  BY <1>1, TypeCorrect, AlwaysKeyless, PTL DEF Spec, StrandedPointsOnlyReturn

-----------------------------------------------------------------------------
(* The accounts and the public log: the nonces count the leaves, and the    *)
(* balances are what the log replays to.                                    *)

\* How the log looks after a leaf: the old leaves, and the new one behind them.
LEMMA LogGrows ==
    ASSUME TypeOK, NEW tx \in Tx, NEW i \in Ids, AppendLeaf(tx, i)
    PROVE  /\ Len(log) \in Nat /\ DOMAIN log = 1 .. Len(log)
           /\ IsFiniteSet(DOMAIN log)
           /\ DOMAIN log' = DOMAIN log \cup {Len(log) + 1}
           /\ Len(log) + 1 \notin DOMAIN log
           /\ \A n \in DOMAIN log : log'[n] = log[n] /\ n \in Nat /\ n <= Len(log)
           /\ log'[Len(log) + 1] = [tx |-> tx, by |-> i]
<1>1. [tx |-> tx, by |-> i] \in Entry
  BY DEF Entry
<1>2. log \in Seq(Entry) /\ log' = Append(log, [tx |-> tx, by |-> i])
  BY DEF TypeOK, AppendLeaf
<1>3. Len(log) \in Nat /\ DOMAIN log = 1 .. Len(log)
  BY <1>2, LenProperties
<1>4. /\ Len(log') = Len(log) + 1 /\ log' \in Seq(Entry)
      /\ \A n \in 1 .. Len(log) : log'[n] = log[n]
      /\ log'[Len(log) + 1] = [tx |-> tx, by |-> i]
  BY <1>1, <1>2, AppendProperties
<1>5. DOMAIN log' = 1 .. Len(log) + 1
  BY <1>4, LenProperties
<1>6. IsFiniteSet(1 .. Len(log))
  BY <1>3, FS_Interval
<1>7. QED
  BY <1>3, <1>4, <1>5, <1>6

-----------------------------------------------------------------------------
(* Nonces.                                                                  *)

\* A leaf other than the genesis is one more of the account whose nonce it used.
LEMMA NonceLeavesGrow ==
    ASSUME TypeOK, NEW tx \in Tx, NEW i \in Ids, AppendLeaf(tx, i), NEW j \in Ids
    PROVE  NonceLeaves(j)' = IF j = i /\ tx.type # "genesis"
                             THEN NonceLeaves(j) \cup {Len(log) + 1}
                             ELSE NonceLeaves(j)
<1>1. /\ DOMAIN log' = DOMAIN log \cup {Len(log) + 1}
      /\ Len(log) + 1 \notin DOMAIN log
      /\ \A n \in DOMAIN log : log'[n] = log[n]
  BY LogGrows
<1>2. log'[Len(log) + 1].tx = tx /\ log'[Len(log) + 1].by = i
  <2>1. log'[Len(log) + 1] = [tx |-> tx, by |-> i]
    BY LogGrows
  <2>2. QED
    BY <2>1
<1>3. NonceLeaves(j)' = {n \in DOMAIN log' : log'[n].by = j /\ log'[n].tx.type # "genesis"}
  BY DEF NonceLeaves
<1>4. NonceLeaves(j) = {n \in DOMAIN log : log[n].by = j /\ log[n].tx.type # "genesis"}
  BY DEF NonceLeaves
<1>5. QED
  BY <1>1, <1>2, <1>3, <1>4, Zenon

\* An account's leaves are finitely many positions of the log.
LEMMA NonceLeavesFinite ==
    ASSUME TypeOK, NEW i \in Ids
    PROVE  /\ IsFiniteSet(NonceLeaves(i))
           /\ \A n \in NonceLeaves(i) : n \in 1 .. Len(log)
           /\ Len(log) \in Nat
<1>1. Len(log) \in Nat /\ DOMAIN log = 1 .. Len(log)
  BY LenProperties DEF TypeOK
<1>2. IsFiniteSet(1 .. Len(log))
  BY <1>1, FS_Interval
<1>3. NonceLeaves(i) \in SUBSET (1 .. Len(log))
  BY <1>1 DEF NonceLeaves
<1>4. QED
  BY <1>1, <1>2, <1>3, FS_Subset

\* A leaf with the next nonce keeps the nonces in step with the leaves.
LEMMA NextNonceKeepsCount ==
    ASSUME TypeOK, NoncesCountLeaves, NEW tx \in Tx, NEW i \in Ids,
           AppendLeaf(tx, i), tx.type # "genesis", tx.nonce = nonce[i] + 1,
           nonce' = [nonce EXCEPT ![i] = tx.nonce]
    PROVE  NoncesCountLeaves'
<1> DEFINE new == Len(log) + 1
<1>1. /\ Len(log) \in Nat /\ new \notin DOMAIN log
      /\ \A n \in DOMAIN log : log'[n] = log[n]
      /\ log'[new] = [tx |-> tx, by |-> i]
  BY LogGrows
<1>2. NonceLeaves(i)' = NonceLeaves(i) \cup {new}
  BY NonceLeavesGrow
<1>3. \A j \in Ids : j # i => NonceLeaves(j)' = NonceLeaves(j)
  BY NonceLeavesGrow
<1>4. \A j \in Ids : /\ IsFiniteSet(NonceLeaves(j))
                     /\ \A n \in NonceLeaves(j) : n \in 1 .. Len(log) /\ log'[n] = log[n]
  <2>1. \A j \in Ids : \A n \in NonceLeaves(j) : n \in DOMAIN log
    BY DEF NonceLeaves
  <2>2. QED
    BY <1>1, <2>1, NonceLeavesFinite
<1>5. new \notin NonceLeaves(i)
  BY <1>1, <1>4
<1>6. Cardinality(NonceLeaves(i)') = Cardinality(NonceLeaves(i)) + 1
  BY <1>2, <1>4, <1>5, FS_AddElement
<1>7. \A j \in Ids : nonce[j] = Cardinality(NonceLeaves(j))
  BY DEF NoncesCountLeaves
<1>8. \A j \in Ids : nonce'[j] = IF j = i THEN tx.nonce ELSE nonce[j]
  BY DEF TypeOK
<1>9. ASSUME NEW j \in Ids
      PROVE  nonce'[j] = Cardinality(NonceLeaves(j)')
  BY <1>3, <1>6, <1>7, <1>8
<1>10. ASSUME NEW j \in Ids, NEW n \in NonceLeaves(j)'
       PROVE  log'[n].tx.nonce = Cardinality({m \in NonceLeaves(j)' : m <= n})
  <2>1. CASE j = i /\ n = new
    <3>1. {m \in NonceLeaves(j)' : m <= n} = NonceLeaves(j)'
      BY <1>1, <1>2, <1>4, <2>1
    <3>2. log'[n].tx.nonce = nonce[i] + 1
      BY <1>1, <2>1
    <3>3. QED
      BY <1>6, <1>7, <2>1, <3>1, <3>2
  <2>2. CASE ~ (j = i /\ n = new)
    <3>1. n \in NonceLeaves(j)
      BY <1>2, <1>3, <1>10, <2>2
    <3>2. {m \in NonceLeaves(j)' : m <= n} = {m \in NonceLeaves(j) : m <= n}
      <4>1. n \in 1 .. Len(log)
        BY <1>4, <3>1
      <4>2. ~ (new <= n)
        BY <1>1, <4>1
      <4>3. QED
        BY <1>2, <1>3, <4>2
    <3>3. log[n].tx.nonce = Cardinality({m \in NonceLeaves(j) : m <= n})
      BY <3>1 DEF NoncesCountLeaves
    <3>4. log'[n] = log[n]
      BY <1>4, <3>1
    <3>5. QED
      BY <3>2, <3>3, <3>4
  <2>3. QED
    BY <2>1, <2>2
<1>11. QED
  BY <1>9, <1>10 DEF NoncesCountLeaves

\* A step without a leaf leaves the count alone.
LEMMA SameLogKeepsCount ==
    ASSUME NoncesCountLeaves, UNCHANGED <<nonce, log>>
    PROVE  NoncesCountLeaves'
<1>1. \A i \in Ids : NonceLeaves(i)' = NonceLeaves(i)
  BY DEF NonceLeaves
<1>2. QED
  BY <1>1 DEF NoncesCountLeaves

\* Before the genesis nobody has leaves; a legacy log has one of the treasury.
LEMMA InitNonces == Init => NoncesCountLeaves
<1>1. Cardinality({}) = 0 /\ Cardinality({2}) = 1
  BY FS_EmptySet, FS_Singleton
<1>2. ASSUME InitEmpty
      PROVE  NoncesCountLeaves
  <2>1. \A i \in Ids : NonceLeaves(i) = {} /\ nonce[i] = 0
    BY <1>2 DEF InitEmpty, NonceLeaves
  <2>2. QED
    BY <1>1, <2>1 DEF NoncesCountLeaves
<1>3. ASSUME InitLegacy
      PROVE  NoncesCountLeaves
  <2>1. /\ nonce = [i \in Ids |-> IF i = TreasuryDscID THEN 1 ELSE 0]
        /\ \E k, v, a :
             log = << [tx |-> [type |-> "genesis", signer |-> k, to |-> k,
                               amount |-> SupplyCap], by |-> TreasuryDscID],
                      [tx |-> [type |-> "transfer", signer |-> k, from |-> k, to |-> v,
                               amount |-> a, nonce |-> 1], by |-> TreasuryDscID] >>
    BY <1>3 DEF InitLegacy
  <2>2. /\ DOMAIN log = {1, 2}
        /\ log[1].tx.type = "genesis" /\ log[2].tx.type = "transfer"
        /\ log[2].by = TreasuryDscID /\ log[2].tx.nonce = 1
    BY <2>1
  <2>3. \A i \in Ids : NonceLeaves(i) = IF i = TreasuryDscID THEN {2} ELSE {}
    BY <2>2 DEF NonceLeaves
  <2>4. {m \in {2} : m <= 2} = {2}
    OBVIOUS
  <2>5. QED
    BY <1>1, <2>1, <2>2, <2>3, <2>4 DEF NoncesCountLeaves
<1>4. QED
  BY <1>2, <1>3 DEF Init

\* Every step keeps the nonces in step with the leaves.
LEMMA NextNonces == TypeOK /\ NoncesCountLeaves /\ [Next]_vars => NoncesCountLeaves'
<1> SUFFICES ASSUME TypeOK, NoncesCountLeaves, [Next]_vars
             PROVE  NoncesCountLeaves'
  OBVIOUS
<1>1. ASSUME NEW tx \in GenesisTx, Genesis(tx)
      PROVE  NoncesCountLeaves'
  <2>1. /\ tx \in Tx /\ tx.type = "genesis" /\ TreasuryDscID \in Ids
        /\ AppendLeaf(tx, TreasuryDscID) /\ log = <<>>
        /\ nonce' = [nonce EXCEPT ![TreasuryDscID] = 0]
    BY <1>1, IdsAssumption DEF Genesis, AppendLeaf, GenesisTx, Tx
  <2>2. \A i \in Ids : NonceLeaves(i) = {}
    BY <2>1 DEF NonceLeaves
  <2>3. \A i \in Ids : NonceLeaves(i)' = {}
    BY <2>1, <2>2, NonceLeavesGrow
  <2>4. Cardinality({}) = 0
    BY FS_EmptySet
  <2>5. \A i \in Ids : nonce[i] = 0
    BY <2>2, <2>4 DEF NoncesCountLeaves
  <2>6. \A i \in Ids : nonce'[i] = 0
    BY <2>1, <2>5 DEF TypeOK
  <2>7. QED
    BY <2>3, <2>4, <2>6 DEF NoncesCountLeaves
<1>2. ASSUME NEW tx \in TransferTx, NEW i \in Ids, Transfer(tx, i)
      PROVE  NoncesCountLeaves'
  <2>1. /\ tx \in Tx /\ tx.type # "genesis" /\ tx.to \in Ids /\ i # tx.to
        /\ AppendLeaf(tx, i) /\ tx.nonce = nonce[i] + 1 /\ tx.nonce \in Nat
        /\ nonce' = [nonce EXCEPT ![i] = tx.nonce, ![tx.to] = nonce[tx.to]]
    BY <1>2, TransferEffect, TxFields DEF Tx
  <2>2. nonce' = [nonce EXCEPT ![i] = tx.nonce]
    BY <2>1 DEF TypeOK
  <2>3. QED
    BY <2>1, <2>2, NextNonceKeepsCount
<1>3. ASSUME NEW tx \in RotateTx, NEW i \in Ids, RotateKey(tx, i)
      PROVE  NoncesCountLeaves'
  <2>1. /\ tx \in Tx /\ tx.type # "genesis"
        /\ AppendLeaf(tx, i) /\ tx.nonce = nonce[i] + 1
        /\ nonce' = [nonce EXCEPT ![i] = tx.nonce]
    BY <1>3, RotateEffect, TxFields DEF Tx
  <2>2. QED
    BY <2>1, NextNonceKeepsCount
<1>4. ASSUME NEW tx \in ReclaimTx, ReclaimInvalid(tx)
      PROVE  NoncesCountLeaves'
  <2>1. /\ tx \in Tx /\ tx.type # "genesis" /\ TreasuryDscID \in Ids
        /\ AppendLeaf(tx, TreasuryDscID) /\ tx.nonce = nonce[TreasuryDscID] + 1
        /\ nonce' = [nonce EXCEPT ![TreasuryDscID] = tx.nonce]
    BY <1>4, ReclaimEffect, TxFields DEF Tx
  <2>2. QED
    BY <2>1, NextNonceKeepsCount
<1>5. ASSUME NEW i \in Ids, NEW k \in Keys, Register(i, k)
      PROVE  NoncesCountLeaves'
  BY <1>5, SameLogKeepsCount DEF Register
<1>6. ASSUME UNCHANGED vars
      PROVE  NoncesCountLeaves'
  BY <1>6, SameLogKeepsCount DEF vars
<1>7. QED
  BY <1>1, <1>2, <1>3, <1>4, <1>5, <1>6 DEF Next

\* The leaves of an account carry the nonces 1, 2, 3, ... whatever is submitted
\* again and under whatever keys: no payload is applied twice and none skipped.
THEOREM NoncesAreConsecutive == Spec => []NoncesCountLeaves
<1>1. TypeOK /\ NoncesCountLeaves /\ [Next]_vars => NoncesCountLeaves'
  BY NextNonces
<1>2. QED
  BY <1>1, InitNonces, TypeCorrect, PTL DEF Spec

-----------------------------------------------------------------------------
(* Balances.                                                                *)

\* The sum of a function on the positions 1 and 2.
LEMMA TotalOfTwo ==
    ASSUME NEW f \in [{1, 2} -> Nat]
    PROVE  Total(f) = f[1] + f[2]
<1> DEFINE none == [n \in {1, 2} |-> 0]
           one == [none EXCEPT ![1] = f[1]]
<1>1. IsFiniteSet({1, 2})
  <2>1. 1 .. 2 = {1, 2}
    OBVIOUS
  <2>2. 1 \in Int /\ 2 \in Int
    OBVIOUS
  <2>3. IsFiniteSet(1 .. 2)
    BY <2>2, FS_Interval
  <2>4. QED
    BY <2>1, <2>3
<1>2. /\ none \in [{1, 2} -> Nat] /\ none[1] = 0 /\ \A n \in {1, 2} : none[n] = 0
      /\ one \in [{1, 2} -> Nat] /\ one[2] = 0
      /\ f[1] \in Nat /\ f[2] \in Nat
      /\ f = [one EXCEPT ![2] = f[2]]
  OBVIOUS
<1>3. Total(none) = 0
  BY <1>2, TotalZero
<1>4. Total(one) = Total(none) + (f[1] - none[1])
  <2>1. none[1] <= f[1]
    BY <1>2
  <2> HIDE DEF none
  <2>2. QED
    BY <1>1, <1>2, <2>1, TotalAdds
<1> HIDE DEF one, none
<1>5. Total([one EXCEPT ![2] = f[2]]) = Total(one) + (f[2] - one[2])
  <2>1. PICK d, v : d = 2 /\ v = f[2]
    OBVIOUS
  <2>2. one \in [{1, 2} -> Nat] /\ d \in {1, 2} /\ v \in Nat /\ one[d] <= v
    BY <1>2, <2>1
  <2>3. Total([one EXCEPT ![d] = v]) = Total(one) + (v - one[d])
    BY <1>1, <2>2, TotalAdds
  <2>4. QED
    BY <2>1, <2>3
<1>6. Total(f) = Total([one EXCEPT ![2] = f[2]])
  BY <1>2, Zenon
<1>7. QED
  BY <1>2, <1>3, <1>4, <1>5, <1>6

\* The sum of what the leaves credit to, and debit from, account i.
Credits(i) == [n \in DOMAIN log |-> CreditOf(log[n], i)]
Debits(i) == [n \in DOMAIN log |-> DebitOf(log[n], i)]

\* The amounts in the log are natural numbers, although payloads may name any.
NaturalAmounts ==
    \A n \in DOMAIN log : log[n].tx.type # "rotate_key" => log[n].tx.amount \in Nat

\* Then so are the credits and debits of every leaf, and their sums.
LEMMA ReplayTypes ==
    ASSUME TypeOK, NaturalAmounts, NEW j \in Ids
    PROVE  /\ Credits(j) \in [DOMAIN log -> Nat] /\ Total(Credits(j)) \in Nat
           /\ Debits(j) \in [DOMAIN log -> Nat] /\ Total(Debits(j)) \in Nat
<1>1. IsFiniteSet(DOMAIN log)
  <2>1. Len(log) \in Nat /\ DOMAIN log = 1 .. Len(log)
    BY LenProperties DEF TypeOK
  <2>2. QED
    BY <2>1, FS_Interval
<1>2. Credits(j) \in [DOMAIN log -> Nat] /\ Debits(j) \in [DOMAIN log -> Nat]
  <2>1. ASSUME NEW n \in DOMAIN log
        PROVE  CreditOf(log[n], j) \in Nat /\ DebitOf(log[n], j) \in Nat
    BY DEF NaturalAmounts, CreditOf, DebitOf
  <2>2. QED
    BY <2>1 DEF Credits, Debits
<1>3. QED
  BY <1>1, <1>2, TotalType

\* A leaf adds its own credit and debit to the sums.
LEMMA ReplayGrows ==
    ASSUME TypeOK, NaturalAmounts, NEW tx \in Tx, NEW i \in Ids, AppendLeaf(tx, i),
           tx.type # "rotate_key" => tx.amount \in Nat, NEW j \in Ids
    PROVE  /\ NaturalAmounts'
           /\ Total(Credits(j)') = Total(Credits(j)) + CreditOf([tx |-> tx, by |-> i], j)
           /\ Total(Debits(j)') = Total(Debits(j)) + DebitOf([tx |-> tx, by |-> i], j)
<1> DEFINE new == Len(log) + 1
           leaf == [tx |-> tx, by |-> i]
<1>1. /\ IsFiniteSet(DOMAIN log) /\ DOMAIN log' = DOMAIN log \cup {new}
      /\ new \notin DOMAIN log /\ log'[new] = leaf
      /\ \A n \in DOMAIN log : log'[n] = log[n]
  BY LogGrows
<1>2. leaf.tx = tx
  OBVIOUS
<1> HIDE DEF new, leaf
<1>3. NaturalAmounts'
  BY <1>1, <1>2 DEF NaturalAmounts
<1>4. CreditOf(leaf, j) \in Nat /\ DebitOf(leaf, j) \in Nat
  BY <1>2 DEF CreditOf, DebitOf, Tx, GenesisTx, TransferTx, RotateTx, ReclaimTx
<1>5. /\ Credits(j) \in [DOMAIN log -> Nat] /\ Total(Credits(j)) \in Nat
      /\ Debits(j) \in [DOMAIN log -> Nat] /\ Total(Debits(j)) \in Nat
  BY ReplayTypes
<1>6. /\ Credits(j)' \in [DOMAIN log' -> Nat] /\ Credits(j)'[new] = CreditOf(leaf, j)
      /\ \A n \in DOMAIN log' : n # new => n \in DOMAIN log /\ Credits(j)'[n] = Credits(j)[n]
  <2>1. Credits(j)' = [n \in DOMAIN log' |-> CreditOf(log'[n], j)]
    BY DEF Credits
  <2>2. \A n \in DOMAIN log : Credits(j)[n] = CreditOf(log[n], j) /\ CreditOf(log[n], j) \in Nat
    BY <1>5 DEF Credits
  <2>3. QED
    BY <1>1, <1>4, <2>1, <2>2
<1>7. /\ Debits(j)' \in [DOMAIN log' -> Nat] /\ Debits(j)'[new] = DebitOf(leaf, j)
      /\ \A n \in DOMAIN log' : n # new => n \in DOMAIN log /\ Debits(j)'[n] = Debits(j)[n]
  <2>1. Debits(j)' = [n \in DOMAIN log' |-> DebitOf(log'[n], j)]
    BY DEF Debits
  <2>2. \A n \in DOMAIN log : Debits(j)[n] = DebitOf(log[n], j) /\ DebitOf(log[n], j) \in Nat
    BY <1>5 DEF Debits
  <2>3. QED
    BY <1>1, <1>4, <2>1, <2>2
<1>8. new \in DOMAIN log' /\ 0 \in Nat
  BY <1>1
<1>9. Total(Credits(j)') = Total(Credits(j)) + (Credits(j)'[new] - 0)
  <2>1. 0 <= Credits(j)'[new]
    BY <1>4, <1>6
  <2>2. QED
    BY <1>1, <1>5, <1>6, <1>8, <2>1, TotalGrows
<1>10. Total(Debits(j)') = Total(Debits(j)) + (Debits(j)'[new] - 0)
  <2>1. 0 <= Debits(j)'[new]
    BY <1>4, <1>7
  <2>2. QED
    BY <1>1, <1>5, <1>7, <1>8, <2>1, TotalGrows
<1>11. /\ Total(Credits(j)') = Total(Credits(j)) + CreditOf(leaf, j)
       /\ Total(Debits(j)') = Total(Debits(j)) + DebitOf(leaf, j)
  BY <1>4, <1>5, <1>6, <1>7, <1>9, <1>10
<1>12. QED
  BY <1>3, <1>11 DEF leaf

\* The invariant: the amounts are natural, and the balances replay the log.
Replays == NaturalAmounts /\ BalancesReplayLog

\* BalancesReplayLog in terms of the sums above.
LEMMA ReplayMeaning ==
    /\ BalancesReplayLog <=> \A j \in Ids : balance[j] = Total(Credits(j)) - Total(Debits(j))
    /\ BalancesReplayLog' <=> \A j \in Ids : balance'[j] = Total(Credits(j)') - Total(Debits(j)')
BY DEF BalancesReplayLog, Credits, Debits

\* A step that appends a leaf and changes the balances by what it says keeps it.
LEMMA LeafKeepsReplay ==
    ASSUME TypeOK, Replays, NEW tx \in Tx, NEW i \in Ids, AppendLeaf(tx, i),
           tx.type # "rotate_key" => tx.amount \in Nat,
           \A j \in Ids : balance'[j] = balance[j] + CreditOf([tx |-> tx, by |-> i], j)
                                                   - DebitOf([tx |-> tx, by |-> i], j)
    PROVE  Replays'
<1> DEFINE leaf == [tx |-> tx, by |-> i]
<1>1. TreasuryDscID \in Ids /\ NaturalAmounts
  BY IdsAssumption DEF Replays
<1>2. NaturalAmounts'
  BY <1>1, ReplayGrows
<1>3. leaf.tx = tx
  OBVIOUS
<1>4. \A j \in Ids : balance'[j] = balance[j] + CreditOf(leaf, j) - DebitOf(leaf, j)
  OBVIOUS
<1>5. \A j \in Ids : /\ Total(Credits(j)') = Total(Credits(j)) + CreditOf(leaf, j)
                     /\ Total(Debits(j)') = Total(Debits(j)) + DebitOf(leaf, j)
  BY <1>1, ReplayGrows
<1> HIDE DEF leaf
<1>6. \A j \in Ids : CreditOf(leaf, j) \in Nat /\ DebitOf(leaf, j) \in Nat
  BY <1>3 DEF CreditOf, DebitOf, Tx, GenesisTx, TransferTx, RotateTx, ReclaimTx
<1>7. \A j \in Ids : Total(Credits(j)) \in Nat /\ Total(Debits(j)) \in Nat
  BY <1>1, ReplayTypes
<1>8. \A j \in Ids : balance[j] = Total(Credits(j)) - Total(Debits(j))
  BY ReplayMeaning DEF Replays
<1>9. \A j \in Ids : balance'[j] = Total(Credits(j)') - Total(Debits(j)')
  BY <1>4, <1>5, <1>6, <1>7, <1>8
<1>10. QED
  BY <1>2, <1>9, ReplayMeaning DEF Replays

\* A step without a leaf leaves the balances alone.
LEMMA SameLogKeepsReplay ==
    ASSUME Replays, UNCHANGED <<balance, log>>
    PROVE  Replays'
BY DEF Replays, NaturalAmounts, BalancesReplayLog

\* The empty log replays to zero, the legacy one to the two balances it tells of.
LEMMA InitReplays == Init => Replays
<1>1. ASSUME InitEmpty
      PROVE  Replays
  <2>1. DOMAIN log = {} /\ \A j \in Ids : balance[j] = 0
    BY <1>1 DEF InitEmpty
  <2>2. \A j \in Ids : Credits(j) \in [{} -> Nat] /\ Debits(j) \in [{} -> Nat]
    BY <2>1 DEF Credits, Debits
  <2>3. \A j \in Ids : Total(Credits(j)) = 0 /\ Total(Debits(j)) = 0
    BY <2>2, TotalZero
  <2>4. BalancesReplayLog
    BY <2>1, <2>3, ReplayMeaning
  <2>5. QED
    BY <2>1, <2>4 DEF Replays, NaturalAmounts
<1>2. ASSUME InitLegacy
      PROVE  Replays
  <2>1. PICK k \in Keys, v \in Ids, a \in Amounts \cap (1 .. SupplyCap) :
          /\ v < TreasuryDscID
          /\ balance = [i \in Ids |-> CASE i = TreasuryDscID -> SupplyCap - a
                                        [] i = v -> a
                                        [] OTHER -> 0]
          /\ log = << [tx |-> [type |-> "genesis", signer |-> k, to |-> k,
                               amount |-> SupplyCap], by |-> TreasuryDscID],
                      [tx |-> [type |-> "transfer", signer |-> k, from |-> k, to |-> v,
                               amount |-> a, nonce |-> 1], by |-> TreasuryDscID] >>
    BY <1>2 DEF InitLegacy
  <2>2. a \in Nat /\ SupplyCap \in Nat
    BY SupplyCapAssumption
  <2>3. v # TreasuryDscID
    BY <2>1, IdsAssumption DEF TreasuryDscID
  <2>4. /\ DOMAIN log = {1, 2}
        /\ log[1].tx.type = "genesis" /\ log[1].tx.amount = SupplyCap
        /\ log[2].tx.type = "transfer" /\ log[2].tx.amount = a
        /\ log[2].tx.to = v /\ log[2].by = TreasuryDscID
    BY <2>1
  <2>5. ASSUME NEW j \in Ids
        PROVE  /\ CreditOf(log[1], j) = IF j = TreasuryDscID THEN SupplyCap ELSE 0
               /\ CreditOf(log[2], j) = IF j = v THEN a ELSE 0
               /\ DebitOf(log[1], j) = 0
               /\ DebitOf(log[2], j) = IF j = TreasuryDscID THEN a ELSE 0
    BY <2>4 DEF CreditOf, DebitOf
  <2>6. ASSUME NEW j \in Ids
        PROVE  balance[j] = Total(Credits(j)) - Total(Debits(j))
    <3>1. /\ Credits(j)[1] = IF j = TreasuryDscID THEN SupplyCap ELSE 0
          /\ Credits(j)[2] = IF j = v THEN a ELSE 0
          /\ Debits(j)[1] = 0
          /\ Debits(j)[2] = IF j = TreasuryDscID THEN a ELSE 0
          /\ Credits(j) \in [{1, 2} -> Nat] /\ Debits(j) \in [{1, 2} -> Nat]
      BY <2>2, <2>4, <2>5 DEF Credits, Debits
    <3>2. /\ Total(Credits(j)) = Credits(j)[1] + Credits(j)[2]
          /\ Total(Debits(j)) = Debits(j)[1] + Debits(j)[2]
      BY <3>1, TotalOfTwo
    <3>3. balance[j] = IF j = TreasuryDscID THEN SupplyCap - a ELSE IF j = v THEN a ELSE 0
      BY <2>1, <2>3
    <3>4. QED
      BY <2>2, <2>3, <3>1, <3>2, <3>3
  <2>7. NaturalAmounts
    BY <2>2, <2>4 DEF NaturalAmounts
  <2>8. QED
    BY <2>6, <2>7, ReplayMeaning DEF Replays
<1>3. QED
  BY <1>1, <1>2 DEF Init

\* Every step keeps the balances equal to the replay.
LEMMA NextReplays == TypeOK /\ SupplyConserved /\ Replays /\ [Next]_vars => Replays'
<1> SUFFICES ASSUME TypeOK, SupplyConserved, Replays, [Next]_vars
             PROVE  Replays'
  OBVIOUS
<1>1. balance \in [Ids -> Nat] /\ TreasuryDscID \in Ids /\ IsFiniteSet(Ids)
  BY IdsAssumption DEF TypeOK
<1>2. ASSUME NEW tx \in GenesisTx, Genesis(tx)
      PROVE  Replays'
  <2>1. /\ tx \in Tx /\ tx.type = "genesis" /\ tx.amount = SupplyCap
        /\ AppendLeaf(tx, TreasuryDscID) /\ log = <<>>
        /\ balance' = [balance EXCEPT ![TreasuryDscID] = SupplyCap]
    BY <1>2 DEF Genesis, AppendLeaf, GenesisTx, Tx
  <2>2. Total(balance) = 0
    BY <2>1 DEF SupplyConserved, TotalBalance
  <2>3. balance[TreasuryDscID] = 0
    BY <1>1, <2>2, TotalBounds
  <2> DEFINE leaf == [tx |-> tx, by |-> TreasuryDscID]
  <2>4. leaf.tx = tx
    OBVIOUS
  <2>5. \A j \in Ids : balance'[j] = balance[j] + CreditOf(leaf, j) - DebitOf(leaf, j)
    <3> HIDE DEF leaf
    <3>1. \A j \in Ids : /\ CreditOf(leaf, j) = IF j = TreasuryDscID THEN SupplyCap ELSE 0
                         /\ DebitOf(leaf, j) = 0
      BY <2>1, <2>4 DEF CreditOf, DebitOf
    <3>2. QED
      BY <1>1, <2>1, <2>3, <3>1, SupplyCapAssumption
  <2>6. tx.amount \in Nat
    BY <2>1, SupplyCapAssumption
  <2>7. QED
    BY <1>1, <2>1, <2>5, <2>6, LeafKeepsReplay
<1>3. ASSUME NEW tx \in TransferTx, NEW i \in Ids, Transfer(tx, i)
      PROVE  Replays'
  <2>1. /\ tx \in Tx /\ tx.type = "transfer" /\ tx.to \in Ids /\ i # tx.to
        /\ AppendLeaf(tx, i) /\ tx.amount \in Nat
        /\ balance[i] - tx.amount \in Nat /\ balance[tx.to] + tx.amount \in Nat
        /\ balance' = [balance EXCEPT ![i] = balance[i] - tx.amount,
                                      ![tx.to] = balance[tx.to] + tx.amount]
    BY <1>3, TransferEffect, TxFields DEF Tx
  <2> DEFINE leaf == [tx |-> tx, by |-> i]
  <2>2. leaf.tx = tx /\ leaf.by = i
    OBVIOUS
  <2>3. \A j \in Ids : balance'[j] = balance[j] + CreditOf(leaf, j) - DebitOf(leaf, j)
    <3> HIDE DEF leaf
    <3>1. \A j \in Ids : /\ CreditOf(leaf, j) = IF j = tx.to THEN tx.amount ELSE 0
                         /\ DebitOf(leaf, j) = IF j = i THEN tx.amount ELSE 0
      BY <2>1, <2>2 DEF CreditOf, DebitOf
    <3>2. QED
      BY <1>1, <2>1, <3>1
  <2>4. QED
    BY <2>1, <2>3, LeafKeepsReplay
<1>4. ASSUME NEW tx \in RotateTx, NEW i \in Ids, RotateKey(tx, i)
      PROVE  Replays'
  <2>1. tx \in Tx /\ tx.type = "rotate_key" /\ AppendLeaf(tx, i) /\ balance' = balance
    BY <1>4, RotateEffect, TxFields DEF Tx
  <2> DEFINE leaf == [tx |-> tx, by |-> i]
  <2>2. leaf.tx = tx
    OBVIOUS
  <2>3. \A j \in Ids : balance'[j] = balance[j] + CreditOf(leaf, j) - DebitOf(leaf, j)
    <3> HIDE DEF leaf
    <3>1. \A j \in Ids : CreditOf(leaf, j) = 0 /\ DebitOf(leaf, j) = 0
      BY <2>1, <2>2 DEF CreditOf, DebitOf
    <3>2. QED
      BY <1>1, <2>1, <3>1
  <2>4. QED
    BY <2>1, <2>3, LeafKeepsReplay
<1>5. ASSUME NEW tx \in ReclaimTx, ReclaimInvalid(tx)
      PROVE  Replays'
  <2>1. /\ tx \in Tx /\ tx.type = "reclaim_invalid" /\ tx.from \in Ids
        /\ tx.from # TreasuryDscID /\ AppendLeaf(tx, TreasuryDscID) /\ tx.amount \in Nat
        /\ balance[tx.from] - tx.amount \in Nat
        /\ balance[TreasuryDscID] + tx.amount \in Nat
        /\ balance' = [balance EXCEPT ![tx.from] = balance[tx.from] - tx.amount,
                                      ![TreasuryDscID] = balance[TreasuryDscID] + tx.amount]
    BY <1>5, ReclaimEffect, TxFields DEF Tx
  <2> DEFINE leaf == [tx |-> tx, by |-> TreasuryDscID]
  <2>2. leaf.tx = tx /\ leaf.by = TreasuryDscID
    OBVIOUS
  <2>3. \A j \in Ids : balance'[j] = balance[j] + CreditOf(leaf, j) - DebitOf(leaf, j)
    <3> HIDE DEF leaf
    <3>1. \A j \in Ids : /\ CreditOf(leaf, j) = IF j = TreasuryDscID THEN tx.amount ELSE 0
                         /\ DebitOf(leaf, j) = IF j = tx.from THEN tx.amount ELSE 0
      BY <2>1, <2>2 DEF CreditOf, DebitOf
    <3>2. QED
      BY <1>1, <2>1, <3>1
  <2>4. QED
    BY <1>1, <2>1, <2>3, LeafKeepsReplay
<1>6. ASSUME NEW i \in Ids, NEW k \in Keys, Register(i, k)
      PROVE  Replays'
  BY <1>6, SameLogKeepsReplay DEF Register
<1>7. ASSUME UNCHANGED vars
      PROVE  Replays'
  BY <1>7, SameLogKeepsReplay DEF vars
<1>8. QED
  BY <1>2, <1>3, <1>4, <1>5, <1>6, <1>7 DEF Next

\* Whoever replays the public log finds every balance of the accounts table,
\* for any number of accounts and leaves.
THEOREM LogTellsBalances == Spec => []BalancesReplayLog
<1>1. TypeOK /\ SupplyConserved /\ Replays /\ [Next]_vars => Replays'
  BY NextReplays
<1>2. Replays => BalancesReplayLog
  BY DEF Replays
<1>3. QED
  BY <1>1, <1>2, InitReplays, TypeCorrect, SupplyIsConserved, PTL DEF Spec
=============================================================================
