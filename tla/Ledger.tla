------------------------------- MODULE Ledger -------------------------------
(***************************************************************************)
(* The points ledger as its callers may think of it: every accepted         *)
(* transaction (internal/ledger/apply.go, Apply) and every registration     *)
(* (internal/api/server.go, register) takes effect in one atomic step on    *)
(* the committed database.  Module LedgerPG gives the same operations       *)
(* statement by statement, as PostgreSQL transactions that interleave.      *)
(*                                                                         *)
(* A refused request changes nothing (the transaction rolls back), so it is *)
(* a stuttering step; each error return of the code is a conjunct of the    *)
(* guard of the action.  A signature is abstracted to the key it verifies   *)
(* under: tx.signer is the key for which VerifySig succeeds.                *)
(***************************************************************************)
EXTENDS Totals, Sequences

CONSTANTS
    Ids,        \* the discourse_id values in play: < 0 legacy, 0 treasury, > 0 users
    Keys,       \* ed25519 public keys
    NoKey,      \* the NULL pubkey of an account that was never activated
    SupplyCap,  \* the fixed supply (50_000_000 in the code)
    Amounts,    \* the amounts that submitted payloads name
    MaxLog      \* bound: the number of leaves after which no transaction is accepted

TreasuryDscID == 0

ASSUME IdsAssumption ==
    /\ Ids \subseteq Int
    /\ IsFiniteSet(Ids)
    /\ TreasuryDscID \in Ids
ASSUME KeysAssumption == NoKey \notin Keys
ASSUME SupplyCapAssumption == SupplyCap \in Nat \ {0}
ASSUME AmountsAssumption == Amounts \subseteq Int /\ SupplyCap \in Amounts
ASSUME MaxLogAssumption == MaxLog \in Nat \ {0}

VARIABLES
    rows,     \* the ids that have a row in table accounts
    pubkey,   \* accounts.pubkey
    nonce,    \* accounts.nonce
    balance,  \* accounts.balance
    log       \* table transactions in leaf order; [tx, by] with by the account
              \* whose nonce the leaf used (history: the table has the key only)

accounts == <<rows, pubkey, nonce, balance>>
vars == <<rows, pubkey, nonce, balance, log>>

-----------------------------------------------------------------------------
(* The payloads that clients sign.                                          *)

Nonces == 1 .. MaxLog

GenesisTx  == [type : {"genesis"}, signer : Keys, to : Keys, amount : Amounts]
TransferTx == [type : {"transfer"}, signer : Keys, from : Keys, to : Ids,
               amount : Amounts, nonce : Nonces]
RotateTx   == [type : {"rotate_key"}, signer : Keys, oldKey : Keys, newKey : Keys,
               nonce : Nonces]
ReclaimTx  == [type : {"reclaim_invalid"}, signer : Keys, admin : Keys, from : Ids,
               amount : Amounts, nonce : Nonces]

Tx == GenesisTx \cup TransferTx \cup RotateTx \cup ReclaimTx

-----------------------------------------------------------------------------
(* Faulty variants of the helpers below, one for each bug a property must    *)
(* catch: a guard that is missing or off by one, a leaf that is not written. *)

AnyAmount(a) == a # 0
AnyRecipient(id) == TRUE
SelfAllowed(i, id) == TRUE
NonceAhead(n, i) == n > nonce[i]
NoFundsCheck(i, a) == TRUE
NoUniqueKey(i, k) == TRUE
AnyActivation(i) == TRUE
ReclaimNotLogged(tx, i) ==
    /\ Len(log) < MaxLog
    /\ log = <<>> <=> tx.type = "genesis"
    /\ log' = IF tx.type = "reclaim_invalid" THEN log
              ELSE Append(log, [tx |-> tx, by |-> i])

-----------------------------------------------------------------------------
(* The checks, and the store's operations.                                  *)

PositiveAmount(a) == a > 0

\* A transfer goes to a user's id; negative ids and the treasury are refused.
UserId(id) == id > TreasuryDscID

NotSelf(i, id) == i # id

NextNonce(n, i) == n = nonce[i] + 1

HasFunds(i, a) == balance[i] >= a

\* GetAccountByPubKey answers row i.
HoldsKey(i, k) == i \in rows /\ pubkey[i] = k

\* The UNIQUE constraint on accounts.pubkey lets row i have key k.
KeyFreeFor(i, k) == \A j \in rows : pubkey[j] = k => j = i

\* The row, if there is one, waits for its first key.
NotActivated(i) == pubkey[i] = NoKey

\* The total that TotalBalance reads.
TotalBalance == Total(balance)

\* Apply inserts the leaf; the first leaf is the genesis and no other is.
AppendLeaf(tx, i) ==
    /\ Len(log) < MaxLog
    /\ log = <<>> <=> tx.type = "genesis"
    /\ log' = Append(log, [tx |-> tx, by |-> i])

-----------------------------------------------------------------------------
(* The transactions of Apply.                                               *)

Genesis(tx) ==
    /\ tx.amount = SupplyCap
    /\ tx.signer = tx.to
    /\ KeyFreeFor(TreasuryDscID, tx.to)
    /\ rows' = rows \cup {TreasuryDscID}
    /\ pubkey' = [pubkey EXCEPT ![TreasuryDscID] = tx.to]
    /\ nonce' = [nonce EXCEPT ![TreasuryDscID] = 0]
    /\ balance' = [balance EXCEPT ![TreasuryDscID] = SupplyCap]
    /\ AppendLeaf(tx, TreasuryDscID)
    /\ Total(balance') = SupplyCap

\* Both rows are read first and written whole, the sender's before the
\* recipient's: were they the same row, the second write would win.
Transfer(tx, i) ==
    /\ PositiveAmount(tx.amount)
    /\ UserId(tx.to)
    /\ tx.from = tx.signer
    /\ HoldsKey(i, tx.from)
    /\ NotSelf(i, tx.to)
    /\ NextNonce(tx.nonce, i)
    /\ HasFunds(i, tx.amount)
    /\ rows' = rows \cup {tx.to}
    /\ nonce' = [nonce EXCEPT ![i] = tx.nonce, ![tx.to] = nonce[tx.to]]
    /\ balance' = [balance EXCEPT ![i] = balance[i] - tx.amount,
                                  ![tx.to] = balance[tx.to] + tx.amount]
    /\ AppendLeaf(tx, i)
    /\ UNCHANGED pubkey

RotateKey(tx, i) ==
    /\ tx.signer = tx.oldKey
    /\ HoldsKey(i, tx.oldKey)
    /\ NextNonce(tx.nonce, i)
    /\ KeyFreeFor(i, tx.newKey)
    /\ nonce' = [nonce EXCEPT ![i] = tx.nonce]
    /\ pubkey' = [pubkey EXCEPT ![i] = tx.newKey]
    /\ AppendLeaf(tx, i)
    /\ UNCHANGED <<rows, balance>>

ReclaimInvalid(tx) ==
    /\ PositiveAmount(tx.amount)
    /\ tx.from < TreasuryDscID
    /\ tx.signer = tx.admin
    /\ HoldsKey(TreasuryDscID, tx.admin)
    /\ NextNonce(tx.nonce, TreasuryDscID)
    /\ tx.from \in rows
    /\ NotActivated(tx.from)
    /\ HasFunds(tx.from, tx.amount)
    /\ nonce' = [nonce EXCEPT ![TreasuryDscID] = tx.nonce]
    /\ balance' = [balance EXCEPT ![tx.from] = balance[tx.from] - tx.amount,
                                  ![TreasuryDscID] = balance[TreasuryDscID] + tx.amount]
    /\ AppendLeaf(tx, TreasuryDscID)
    /\ Total(balance') = SupplyCap
    /\ UNCHANGED <<rows, pubkey>>

-----------------------------------------------------------------------------
(* POST /me/register: attach a first key, creating the row if there is none. *)
(* The same key again is a stuttering step, another key is refused (409).    *)
Register(i, k) ==
    /\ i > TreasuryDscID
    /\ NotActivated(i)
    /\ KeyFreeFor(i, k)
    /\ rows' = rows \cup {i}
    /\ pubkey' = [pubkey EXCEPT ![i] = k]
    /\ UNCHANGED <<nonce, balance, log>>

-----------------------------------------------------------------------------
(* A new deployment starts empty.  One that ran an older release may hold    *)
(* points on negative ids (Discourse's system users), which that release     *)
(* rewarded: reclaim_invalid exists to move them back.                       *)

InitEmpty ==
    /\ rows = {}
    /\ pubkey = [i \in Ids |-> NoKey]
    /\ nonce = [i \in Ids |-> 0]
    /\ balance = [i \in Ids |-> 0]
    /\ log = <<>>

InitLegacy ==
    \E k \in Keys, v \in Ids, a \in Amounts \cap (1 .. SupplyCap) :
        /\ v < TreasuryDscID
        /\ rows = {TreasuryDscID, v}
        /\ pubkey = [i \in Ids |-> IF i = TreasuryDscID THEN k ELSE NoKey]
        /\ nonce = [i \in Ids |-> IF i = TreasuryDscID THEN 1 ELSE 0]
        /\ balance = [i \in Ids |-> CASE i = TreasuryDscID -> SupplyCap - a
                                      [] i = v -> a
                                      [] OTHER -> 0]
        /\ log = << [tx |-> [type |-> "genesis", signer |-> k, to |-> k,
                             amount |-> SupplyCap], by |-> TreasuryDscID],
                    [tx |-> [type |-> "transfer", signer |-> k, from |-> k, to |-> v,
                             amount |-> a, nonce |-> 1], by |-> TreasuryDscID] >>

Init == InitEmpty \/ InitLegacy

Next ==
    \/ \E tx \in GenesisTx : Genesis(tx)
    \/ \E tx \in TransferTx, i \in Ids : Transfer(tx, i)
    \/ \E tx \in RotateTx, i \in Ids : RotateKey(tx, i)
    \/ \E tx \in ReclaimTx : ReclaimInvalid(tx)
    \/ \E i \in Ids, k \in Keys : Register(i, k)

Spec == Init /\ [][Next]_vars

-----------------------------------------------------------------------------
(* Properties.                                                              *)

Entry == [tx : Tx, by : Ids]

\* Every variable has its type.  The tables accounts and transactions hold
\* what their column types and CHECK (balance >= 0) allow.
TypeOK ==
    /\ rows \subseteq Ids
    /\ pubkey \in [Ids -> Keys \cup {NoKey}]
    /\ nonce \in [Ids -> Nat]
    /\ balance \in [Ids -> Nat]
    /\ log \in Seq(Entry)

\* The supply is conserved: nothing exists before the genesis leaf, and after
\* it the balances sum to SupplyCap for ever.  Apply re-reads the sum only for
\* genesis and reclaim_invalid, so transfers, rotations and registrations have
\* to keep it without the check.
SupplyConserved == TotalBalance = IF log = <<>> THEN 0 ELSE SupplyCap

\* What leaf e adds to, and takes from, the balance of account i.
CreditOf(e, i) ==
    IF \/ e.tx.type \in {"genesis", "reclaim_invalid"} /\ i = TreasuryDscID
       \/ e.tx.type = "transfer" /\ i = e.tx.to
    THEN e.tx.amount ELSE 0

DebitOf(e, i) ==
    IF \/ e.tx.type = "transfer" /\ i = e.by
       \/ e.tx.type = "reclaim_invalid" /\ i = e.tx.from
    THEN e.tx.amount ELSE 0

\* Every balance is what replaying the public log gives: the sum of the leaves
\* that credit the account less the sum of those that debit it.  The balances
\* are a table of their own, which Apply updates next to the insert of a leaf.
BalancesReplayLog ==
    \A i \in Ids :
        balance[i] = Total([n \in DOMAIN log |-> CreditOf(log[n], i)])
                     - Total([n \in DOMAIN log |-> DebitOf(log[n], i)])

\* The leaves that used up a nonce of account i.
NonceLeaves(i) == {n \in DOMAIN log : log[n].by = i /\ log[n].tx.type # "genesis"}

\* The nonces of an account run without gap or repetition: its k-th leaf has
\* nonce k, and the stored nonce is their number.  So a payload is charged to
\* an account once at most, whatever keys it used and however often the
\* payload is submitted again, and the next payload to sign is never skipped.
NoncesCountLeaves ==
    \A i \in Ids :
        /\ nonce[i] = Cardinality(NonceLeaves(i))
        /\ \A n \in NonceLeaves(i) :
              log[n].tx.nonce = Cardinality({m \in NonceLeaves(i) : m <= n})

\* At most one account holds a key, so GetAccountByPubKey has one answer and a
\* rotation or registration never takes over the key of another account; an id
\* that has no row holds none.
OneHolderPerKey ==
    /\ \A i, j \in Ids : (i # j /\ pubkey[i] = pubkey[j]) => pubkey[i] = NoKey
    /\ \A i \in Ids \ rows : pubkey[i] = NoKey

\* A balance falls only by a leaf that says so: either the account's own key
\* signed a transfer of that amount, or the treasury's key signed the return
\* of that amount from a negative id that has no key.
SignedDebit(i, e) ==
    /\ balance[i] - balance'[i] = e.tx.amount
    /\ \/ e.tx.type = "transfer" /\ e.by = i /\ e.tx.signer = pubkey[i]
       \/ /\ e.tx.type = "reclaim_invalid" /\ i < TreasuryDscID
          /\ pubkey[i] = NoKey /\ e.tx.signer = pubkey[TreasuryDscID]

DebitStep ==
    \A i \in Ids : balance'[i] < balance[i] =>
        Len(log') = Len(log) + 1 /\ SignedDebit(i, log'[Len(log')])

DebitsAreSigned == [][DebitStep]_vars

\* The key of an account is set once by registration (the treasury's by the
\* genesis) and afterwards changes only by a rotate_key leaf that the key in
\* force signed: "account already has a different pubkey; use rotate_key".
SignedRotation(i, e) ==
    /\ e.tx.type = "rotate_key" /\ e.by = i
    /\ e.tx.signer = pubkey[i] /\ e.tx.newKey = pubkey'[i]

KeyStep ==
    \A i \in Ids : (pubkey[i] # NoKey /\ pubkey'[i] # pubkey[i]) =>
        Len(log') = Len(log) + 1 /\ SignedRotation(i, log'[Len(log')])

KeyChangesAreSigned == [][KeyStep]_vars

\* Points on a negative id have one way to go: they never grow, the id never
\* gets a key that could spend them, and what leaves it arrives at the treasury.
StrandedStep ==
    \A i \in Ids : i < TreasuryDscID =>
        /\ pubkey'[i] = NoKey
        /\ \/ balance'[i] = balance[i]
           \/ /\ balance'[i] < balance[i]
              /\ balance'[i] + balance'[TreasuryDscID] = balance[i] + balance[TreasuryDscID]

StrandedPointsOnlyReturn == [][StrandedStep]_vars
=============================================================================
