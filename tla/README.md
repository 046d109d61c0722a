# The points ledger in TLA+

This directory is the verification project of the Discourse points system: TLA+
modules translated from the Go sources under `src/ledger/sidecar` and the
JavaScript of the theme under `src/theme`, TLC
configurations that check them on small instances, and theorems that TLAPS proves for
every instance: every safety property that a passing run checks, of the ledger, its
PostgreSQL transactions, the rewards, the tree heads, the Merkle tree and its
verifiers, the audit, the rate limiter, the sessions and the theme's wallet.
`PROJECT.json` maps every definition to the
lines it models, and lists the runs, the mutants that show each property can fail,
the hazards, the findings and the theorems. `S/` below stands for `src/ledger/sidecar/`.

## 1. The system

A sidecar process beside a Discourse forum keeps a ledger of points with a fixed
supply. Its database is PostgreSQL, shared with command-line tools that run at the
same time. Users sign transactions in the browser; an administrator's key owns the
treasury; an append-only log of the transactions is published as a Merkle tree with
signed heads.

| component | state it keeps | operations | what makes it correct |
|---|---|---|---|
| Ledger core, `S/internal/ledger` | none of its own; reads and writes the tables `accounts`, `transactions` | `Apply` of genesis, transfer, rotate_key, reclaim_invalid | supply conserved, balances = replay of the log, every debit signed, nonces without gap, one account per key |
| PostgreSQL store, `S/internal/store` | the tables, the advisory lock, row locks | the statements of one transaction; reward reservations; history; migrations | concurrent transactions take effect one at a time; every request ends, circles of waits included |
| Wallet API, `S/internal/api/server.go` | none | register, submitTx; reading handlers | a registration never changes points, nonces or an existing key |
| Rate limiter, `S/internal/api/security.go` | a token bucket per client | `allow` | no client exceeds rate and burst |
| Rewards, `S/internal/rewards` | `reward_events`, `reward_config`, a mutex per process | `PayRewardOnce` from webhooks and from the distribution command | each event paid once, and eventually |
| Log service, `S/internal/txlog`, `S/internal/api/log.go` | a snapshot cache per process, table `checkpoints` | tree head, proofs, listings | caches are prefixes of the log, one verifiable head per size |
| Merkle tree, `S/internal/merkle` | none | roots, inclusion and consistency proofs, their verifiers | proofs accepted exactly when they should be |
| OTS anchoring, `S/internal/ots`, `S/internal/admin`, `ledger-admin` | `checkpoints.ots_receipt` | anchor the head | a receipt belongs to the head it is stored with |
| Single sign-on, `S/internal/auth` | signed state and session cookies in the browser | login, callback, logout | a session only for a login that the same browser began, in time; the latest login succeeds unless its cookie crossed the reply to another callback |
| Admin server, `S/internal/admin` | a session secret per run, a signed cookie, a CSRF token per tab | challenge, login, session, configuration, anchoring | a write only with a value that this run of the server signed, in time |
| Commands `ledger-admin`, `ledger-verify` | none | init, distribute, reclaim, anchor; audit of a server | an honest server passes, an accepted log is the one the root commits to |
| Theme, `src/theme` | balance cache, batch queue, dialog state | fetch, invalidate, tip | views show the tip, stale entries only by overlap, loads end, tips repeat only after lost replies |
| Explorer, bot client | none | read and render; post a message | (no state) |

How they interact. All writers meet in the database: `Apply` runs under one
advisory lock, the register handler under none; the reward workers call `Apply`
with the treasury's key, as do the administrator's browser and the commands, so
they compete for the treasury's nonce; the log service reads `transactions` while
`Apply` extends it, through a cache whose mutex is not held during the query; the
sidecar and the commands share `checkpoints`; verifiers see only what the log API
answers, through the rate limiter and one request at a time while the log grows.
The theme talks to the wallet API over HTTP and keeps its own cache; its views, its
requests and the tip dialog meet in that cache and in one event.

What is hard. Interleavings of statements at READ COMMITTED; reads used after
another transaction has committed; crashes between the commit of a payment and the
completion of its reservation; reservations that expire under a slow worker; lost
replies; two processes with different keys for tree heads; tree shapes around the
powers of two; a clock that is read before the mutex that orders its readings;
several tabs, late callbacks, late replies and restarts around cookies; answers that arrive after
the cache was invalidated. `PROJECT.json` lists each as a hazard at its line.

## 2. The modules

```
Totals ── TotalsTheorems                sums over a function, and lemmas about them
   │
 Ledger ── MCLedger, LedgerProofs       the atomic ledger
 LedgerPG ── MCLedgerPG, LedgerPGProofs PostgreSQL transactions; INSTANCE Ledger
 Rewards  ── MCRewards, RewardsProofs   payments of reward events
 TxLog    ── MCTxLog, TxLogProofs       cache, tree heads, anchoring
 Merkle      ─┐                         trees, proofs, verifiers
 RateLimiter ─┤                         token buckets
              Audit ── MCAudit, AuditProofs   ledger-verify against a growing log
 Sessions ── MCSessions, SessionsProofs wallet and admin sessions
 Wallet   ── MCWallet, WalletProofs     the theme's balances and tips
```

**Totals** defines `Total(f)`, `SELECT SUM(balance)`, as the number of pairs
`<<d, k>>` with `k \in 1 .. f[d]`. A count needs no recursion, which is what makes
conservation provable.

**Ledger** is the specification of what callers may rely on: every accepted
transaction and every registration is one atomic step on the committed tables
(`rows`, `pubkey`, `nonce`, `balance`, and the `log`). Each error return of
`apply.go` is a conjunct of a guard, a refused request a stutter. A signed payload
is a record, and `tx.signer` the key under which its signature verifies. Every leaf
carries, as a history value, the account whose nonce it used. The initial states
are an empty database and one of an older release that holds points on a negative
id, the case reclaim_invalid exists for.

**LedgerPG** takes the same requests apart into the statements of `pgstore.go`:
`LockLedger`, `LastTx`, `ReadSigner`, `ReadOther`, `ReadRegistrant`, one `Write`
per row statement, `InsertTx`, `CheckSupply`, `Commit`, and `Abort` at any point (an
error, a cancelled request, a crash). A transaction sees the committed rows and its
own. A row statement has two steps, as in PostgreSQL: `TakeRow` locks the row and
waits for the transaction that has it (`RowWait`); `Write`, with the row locked, waits
in the unique index for a transaction that holds the key to be written (`KeyWait`),
and fails if the key is then taken. Transactions can so wait in a circle: a
registration of user 1 with the key of user 2 has locked row 1 and waits for the key,
while a transfer from user 2 to user 1, whose row with that key is written and not
committed, waits for row 1. `Victim` is the deadlock detector (error 40P01): it aborts a
transaction of a circle.

What the environment sends is a constant: `Work`, the requests that each process may
serve, in any order and any number of times; registrations that create a row, that
overlap funding and that overlap each other are among them. Nothing about their order
is assumed. The history variable `overtaken` becomes true when a registration is
committed over a row that another transaction has created, or has given a different
key, since it was read. `L == INSTANCE Ledger WITH` the committed tables is the
refinement mapping, and `ImplementsLedger` says that every step that changes the tables
is an action of Ledger, up to the first step that makes `overtaken` true; findings 1
and 2 are what happens from there on.

**Rewards** is `PayRewardOnce` in several processes: read the amount, delete an old
reservation, insert one, lock the process's mutex, read the treasury's row and sign,
`Apply` (one step here: LedgerPG shows that it is atomic), complete or release. Other
signers with the treasury's key, changes of the configuration, and the faults
(crash, lost reply of a commit, database error, a worker slower than the 15 minutes
of a reservation) are actions of their own.

**TxLog** has requests of several processes: `Ask` reads the tree size, `LookUp`
and `Install` hold the mutex, `Query` does not; `InsertCheckpoint`, `LoadCheckpoint`
and `BackfillPubKey` are the statements of `persistCheckpoint`; `ReadReceipt` and
`StoreReceipt` anchor. A root is represented by the leaves below it.

**Merkle** translates `tree.go` operator by operator over a hash without
collisions, and adds a server, whose log may be a fork of the one that the client
knows (`fork`, the positions it has replaced: one leaf, or a leaf and every later one), and an answer that may differ from the server's in one hash (replaced,
dropped or added). Every recursion of the code is a recursive function here, on
slices of the list, on a position of the proof, or on the two sizes, which
`AuditProofs` shows to exist.

**RateLimiter** is `allow`: `Arrive` reads the time, `Allow` is what happens under
the mutex (the removal of idle buckets included), and `Tick` lets a request wait up
to `MaxStall`. Time has a unit in which the rate is whole; tokens are float64 in the
code and integers here, and may become negative in both when times run backwards.
`served` is a history of what was let through.

**Audit** composes Merkle and RateLimiter: `ledger-verify` fetches the tree head,
the leaves page by page, sampled inclusion proofs and a consistency proof, each a
request that the limiter admits or refuses (`Send`, `Refuse`, one `Answer...` action
per request, which includes the checks that `main` makes of it), while the server's
log grows, is forked, or a page is altered. One predicate, `intact`, stands for the
checks of a leaf's payload, hash and signature. The signer signs the payload only, so a
forking server can give the later leaves new `prev_hash` and `tx_hash` fields and keep
their signatures: a fork that replaces every position from j on is a replaced leaf
whose successors are chained anew, one that replaces a single position keeps the
chain of the true log. A behaviour has either an audit or, as in Merkle, a client that
asks for single proofs.

**Sessions** has the wallet's login (`Login`, external `SSOProvider`, `Callback`,
`Logout`) and the admin page's (`LoginChallenge`, `AdminLogin`, `Whoami`,
`AdminLogout`, `Restart` with a new secret), with cookies that browsers drop when
they expire. A handler of the wallet reads the cookies of its request; what it sets or
clears is in a `reply` that arrives later, after the replies of other requests, or never
(`Arrive`, `Lose`). The reply to an accepted callback clears the state cookie by its
name, so it also clears the one that a login has set meanwhile. A signed value of the
admin page is a record of what the secret covers: a challenge has a nonce and a session
none, which is all that tells them apart, and nothing reads it. `ChallengeAsCookie`
therefore lets a client send a challenge as `fp_admin_session`, and `Whoami` derives a
CSRF token from it as from any value that verifies.

**Wallet** is one page of the forum: views that mount, load and unmount, the cache,
the requests in flight, the queue and its timer, batches with their fallback, the
event after a tip, and the dialog's submission with a reply that may be lost. A task
of the page runs to its end before the next, so each is one step. A balance is
represented by the number of tips it reflects.

Every module starts with the variants that the mutants of `PROJECT.json` put in
place of one of its definitions; each shows that a property can fail.

## 3. The runs

| run | instance | question |
|---|---|---|
| `ledger` | ids -1, 0, 1, 2; three keys (symmetric); supply 3; amounts -1..3; five leaves | does every sequence of accepted requests keep the ledger's invariants? |
| `ledger_pg` | a desk with the treasury's key and two goroutines for users 1 and 2, each with up to five requests that it repeats: registrations before and after the row exists, of one user by both goroutines, with the user's own key, the other's and one that the other rotates to; transfers in both directions, to oneself and to a user that only receives; four leaves | do the interleaved statements implement the atomic ledger until a registration overtakes, what can overlapping registrations do at worst, and what can close a circle of waits? |
| `ledger_pg_waits` | genesis, one funding, a registration with the own key or with the key of the other user, a transfer from that one; three leaves; fairness | does every request end, through row, key and circular waits? |
| `register_supply`, `register_replay` | two goroutines that serve the same user, one with the desk; five leaves | findings 1 and 2 |
| `rewards` | two handlers of one process and a command; one event; funds for three payments; an outside signer; one change of the configuration; up to two faults of any kind; fairness | how much can faults cost, are retries caused by others only, and are delivered events paid in the end? |
| `rewards_crash` | one crash | finding 3 |
| `txlog` | two requests of a sidecar and one of a command; two keys (symmetric), two leaves, clock, a restart, a legacy row | does the unlocked query keep the cache a growing prefix, is there one verifiable head per size, do receipts match? |
| `audit` | single proofs over trees of up to seven leaves, all one-hash alterations, forks of one leaf and of all leaves from one on; audits of up to two leaves in pages of one, one other request from the same address, buckets of two tokens, idle ones dropped after four of five units | are exactly the right proofs accepted, does an honest log pass while it grows, what does an accepted log commit the server to, is every client kept within its budget and refused only beyond it? |
| `audit_replay` | the same | finding 4 |
| `sessions` | two browsers, two users, two logins, two replies under way; two admin tabs, two keys, one restart; lifetimes of one second, a clock of three | whose session can a browser have, and which logins and writes are let through? |
| `wallet` | one account, two views, three requests of the views, two submissions, two tips | what do views show after a tip, do loads end, when is a tip sent twice? |

Why the bounds are enough to be interesting. Three keys let a key be freed by a
rotation and taken by another account. Five leaves hold genesis, funding, a
transfer back, a rotation and a reclaim in any order, four leaves any three of them
after the genesis, and every writer may repeat its requests, so replays are tried.
Three leaves are genesis, the funding of user 2 and its transfer to user 1, whose
registration with user 2's key closes the circle that `ledger_pg_waits` is about.
Two goroutines of one user and a desk are the smallest setting of the registration
races. Two attempts (eight in the code) with one outside transaction reach both
outcomes of the retry loop. Two faults show whether one fault enables another.
Two requests that share a cache let a slow one overtake another. Seven leaves have
splits of every kind below eight: full, one over and one under a power of two; an
audit of two leaves in pages of one has two pages, a sample and a consistency
proof, so five requests against a bucket of two, and in two leaves a replaced one has
a true one before or after it. The limiter's constants satisfy
its assumption with equality, so that a bucket dropped one unit earlier would be
seen, and its clock passes the first removal. Two logins and two replies are what it
takes for a login of a second tab to pass the reply to the first one's callback, or
for an answer to reach the other browser; the clock outlives a login and a session. Two views of one account are what the
queue's overwritten callbacks, joined requests and the shared event need; accounts
in one batch do not affect each other.

The named bounds are `MaxLog`, `MaxAttempts`, `MaxOutside`, `MaxChanges`,
`MaxFaults`, `MaxSize`, `MaxClock`, `MaxRestarts`, `MaxLeaves`, `MaxAudit`,
`MaxStall`, `MaxLogins`, `MaxTips`, `MaxLoads` and `MaxSubmits`; each occurs in a
guard. Deadlock is not checked where the system really stops: at the bounds, and
once every request has been answered.

### Properties

Ledger: `SupplyConserved` (the code re-sums only after genesis and reclaim, the
other operations must keep it unchecked), `BalancesReplayLog` (the balance columns
equal what the public log replays to), `NoncesCountLeaves` (an account's leaves have
the nonces 1, 2, 3, ...: none is applied twice and none skipped), `OneHolderPerKey`,
and three statements about steps: `DebitsAreSigned`, `KeyChangesAreSigned`,
`StrandedPointsOnlyReturn`.

LedgerPG: `ImplementsLedger`; `CirclesNeedRegistration` (in every set of
transactions that wait for each other there is a registration that has locked its row
and waits for a key; two transfers that write the same rows in opposite orders never
do, which row locks alone would not give and the advisory lock does);
`RequestsFinish`; and `RacesOnlyLose`: even overlapping registrations create no points
and change the balance of nobody but the registrant. That circles do exist costs their
victims an error and no more: nothing in the repository promises the contrary, so it is
no finding.

Rewards: `RetriesNeedOutsiders`, `ExtraPaymentsNeedFaults` (one payment too many per
fault at most, so none without), `CompletedIsFinal`, `WorkersEnd`,
`DeliveredIsPaid`.

TxLog: `SnapshotsArePrefixes`, `CachesGrow`, `IssuedVerify`, `OneTreeHeadPerSize`,
`ReceiptsMatch`. Merkle: `RootIsBottomUp` (the recursive split computes the tree
that the package comment describes), completeness and soundness of both verifiers.

RateLimiter: `WithinBudget` (in any interval at most a bucket and what flows into
it) and `RefusalsAreEarned` (a refused client had its whole budget in some interval
up to then, up to what flows in during `MaxStall`). Audit: `HonestServerPasses` and
`AcceptedIsCommitted`: the accepted log is the one below the signed root, and no leaf
that was replaced has a true one after it. That the leaves are the true ones is more
than an audit can say: a server that replaces a leaf, chains all later ones anew and
signs the new head is accepted, and only a client that has kept an older head finds
out, by `ConsistencySound`. What the chain of `prev_hash` adds to the root is that such a
server cannot return to the true log.

Sessions: `SessionsAreOwn`; `LatestLoginSucceeds` (of all that callbacks, logouts,
other browsers' links and lost or overtaken replies can do, only one thing costs a
browser the state cookie of its latest login: that cookie crossed the reply to an
accepted callback on its way); `AdminWritesAreFresh` (a write is let through with a
session that the admin key was used for recently enough, or with a challenge that is
in time, never with a value of an earlier run of the server or an expired one).

Wallet: `StaleNeedsOverlap`, `ShownIncludesTip`, `LoadsSettle` and
`TipsNeedLostReplies`. `LoadsSettle` has a premise: no request fails together with
its fallback. Without it TLC finds a view that stays in "loading": the `finally` of
a failed load (`wallet-api.js:83`) forgets the newer request of the same account
that an event has queued meanwhile, the next view queues another one, and
`wallet-api.js:89` replaces the callbacks that were waiting.

### Fairness

LedgerPG: weak fairness of the statements that never wait, and strong fairness of
`LockLedger`, `TakeRow` and `Write`, because PostgreSQL queues those who wait for the
advisory lock, a row or a key in order of arrival and so lets nobody be overtaken for
ever. Weak fairness of `Victim`: the detector runs for whoever has waited for
`deadlock_timeout`, and a circle lasts until one of its transactions is aborted.
No request is assumed to arrive and none to fail. Rewards: weak fairness of a
worker's own steps (a goroutine that can run does), strong fairness of `LockMutex`
(a Go mutex that a goroutine waits for long enough is handed to it), and weak
fairness of the passing of 15 minutes. `DeliveredIsPaid` assumes, as its premise,
that Discourse or a command keeps delivering the event. Wallet: a timer of the
browser fires, and a request is answered or fails; nobody is assumed to tip.

## 4. What is proved

Each component's theorems are in a module of their own, `...Proofs` (one,
`AuditProofs`, for the tree, the limiter and the audit that uses both), which first
states the inductive invariant, then the lemmas about data and about single steps,
and the theorems last. The theorems hold for every value of the constants that
satisfies the named assumptions of the modules (finite sets of ids and workers,
bounds that are natural numbers, `None` and `NoKey` different from everything else);
TLC evaluates the assumptions in the runs, and every inductive invariant was checked
with TLC on small instances before it was proved. The induction over steps is the
temporal rule that LS4 applies in the last step of each theorem.

`TotalsTheorems` proves the lemmas about `Total`: it is a natural number, grows by
what one entry grows by or a new entry has (`TotalGrows`, `TotalAdds`), bounds every
entry (`TotalBounds`) and is unchanged when an amount moves from one entry to
another (`TotalMove`). They rest on the library's theorems about finite sets.

**Ledger.** `LedgerProofs` proves every property that the run `ledger`
checks, for every finite set of ids that contains the treasury's, any keys, any
positive supply, any amounts and any bound on the log:

- `TypeCorrect`: `Spec => []TypeOK`. `TypeOK` is inductive by itself: what keeps a
  balance natural is the guard `HasFunds` together with `NotSelf`.
- `SupplyIsConserved`: `Spec => []SupplyConserved`. The inductive invariant is
  `TypeOK /\ SupplyConserved`: the type gives `Total` its arithmetic. A transfer is
  an instance of `TotalMove`, a registration and a rotation leave the column alone,
  genesis and reclaim re-read the sum, and the two kinds of initial state are computed.
- `KeyNamesOneAccount`: `Spec => []OneHolderPerKey`. Its second conjunct (an id
  without a row has no key) is what makes it inductive: the UNIQUE constraint speaks
  about rows only, and a transfer creates one.
- `EveryDebitIsSigned`: `Spec => DebitsAreSigned`, a property of steps, from the
  first two. Supply is needed for the genesis, which overwrites the treasury's row:
  as nothing exists before it, it takes nothing away.
- `EveryKeyChangeIsSigned` and `StrandedPointsReturn`: the two other properties of
  steps, from the invariant `Keyless` (a negative id never has a key, and the
  treasury has none before the genesis, which overwrites its key).
- `NoncesAreConsecutive`: `Spec => []NoncesCountLeaves`, inductive with the types. A
  leaf with the next nonce is one more element of the account's set of leaves, and
  the earlier ones keep their rank.
- `LogTellsBalances`: `Spec => []BalancesReplayLog`. The strengthening is
  `NaturalAmounts`: payloads may name negative amounts, leaves do not, so the sums
  over the log have their meaning. A leaf extends the domain of the summed function
  by one (`TotalGrows`).

**PostgreSQL transactions.** `LedgerPGProofs`, for any processes and requests:

- `TypeCorrect`, `AppliesExclude` (one transaction at a time is past `LockLedger`)
  and `CirclesAreRegistrations` follow from `Inv`: the advisory lock is held exactly by
  a transaction of Apply that is past its first statement (`LockHeld`), no two
  transactions have locked one row (`RowsApart`), what the holder has decided from
  the log is still so (`Decided`), and a registration writes once (`OneWrite`).
  Whoever is waited for holds the advisory lock or is a registration with a locked row
  (`WaitedFor`); a registration in that state waits for keys only. So a circle
  without such a registration would consist of the holder of the lock alone, which does
  not wait for itself.
- `OverlapsOnlyLose`: `Spec => []RacesOnlyLose`, with registrations that overlap
  anything. `RaceInv` adds that each balance a transaction has read, will write or
  has written is at most what the log gives plus what its own leaf will add
  (`BalancesFit`), exactly that for an id that nobody registers, and that the
  transaction writes every row that its leaf touches (`Covers`).
- `Refinement`: `Spec => ImplementsLedger`, with no assumption about what the users
  send. The invariant is `~ overtaken => OrderlyInv`. `OrderlyInv` says that
  what the holder of the lock has read is still committed (`StillMay`), that the
  statements left and the rows written are together those of the atomic action
  (`AsPlanned`), that a checked sum is still the sum (`SupplySeen`), that a registration has
  written its key and nothing else into the row it read, or a new empty one
  (`Enrolled`), and that a written key is on no other row (`KeysApart`). A commit that does not overtake is then the
  action of module Ledger for its request (`CommitImplements`; for a second
  registration with the same key, no change at all), and it leaves the plans
  of all other open transactions valid (`RegisterOthers`, `ApplyOthers`). Once
  `overtaken` is true the refinement is false: findings 1 and 2.
- `OrderlyLedger` and `OrderlySteps` carry the ledger's theorems over: conservation,
  replay, nonces and keys, and the three properties of steps, hold of the interleaved
  transactions until `overtaken` is true. They reuse the step lemmas of `LedgerProofs`.

**Rewards.** `RewardsProofs`, for any workers, processes, events and amounts:
`FaultsBoundPayments`, `RetriesAreOthersDoing`, `CompletedRowsStay`, `TypeCorrect`,
and `PaidOnceWithoutFaults`: if `MaxFaults = 0`, no event is ever paid twice. The
invariant counts (`Accounted`): the payments of an event, the workers that may still
pay it or make way for another, and one more if its reservation is free, are at most
one more than the faults so far. For retries it says that every attempt but the last
was answered by a leaf of another process, as the mutex keeps the workers of one
process apart (`Exclusive`, `Retries`).

**Tree heads.** `TxLogProofs`, for any processes, requests and restarts: the caches
are prefixes (`CachesArePrefixes`) because what a request has got is a prefix that it
extends to its target (`Works`), even if another has installed more meanwhile; a
cache only grows (`CachesOnlyGrow`); every answer verifies and is the only one of its
size (`AnswersVerify`, `OneTreeHead`) because every row is signed over what it says
(`RowsVerify`) and every answer is a row of the table, completed by the key that
signed it (`IssuedAreStored`), which the backfill of an old row does not change; a
receipt is for its row (`ReceiptsAreForTheirRows`).

**Sessions.** `SessionsProofs`, for any browsers, connections, users, tabs and
lifetimes: `SessionsAreTheirOwners` needs that a state cookie, in the browser or in a
reply, is for a login of its own browser (`StatesAreOwn`, `RepliesAreOwn`) and that a
session ends in time after an answer to one (`SessionsComeFromLogins`);
`LatestLoginIsAccepted` that the cookie is for the browser's latest login until that is
answered, too old or crossed (`LatestIsHeld`), and that the reply to an accepted
callback still under way belongs to the latest login or has crossed it
(`CrossingsAreKnown`); `AdminWritesAreSigned` that the admin cookie is a challenge, is of
an earlier run, or was minted for a signature and ends in time (`CookieIsMinted`).

**Wallet.** `WalletProofs`, for any accounts, views, requests, submissions and tips:
`CacheAfterTips` from `Marked` (an answer that lacks an announced change is for a
request that was under way then), `ViewsAfterTips` from `Awaited` (the answer that a
view waits for includes the tip that it is to show; the listeners of a tip wait for
requests with new numbers, all of an account for the same), and `OneTipPerReply` from
`DialogInv`, which counts the tips applied or still on their way against the lost
replies.

**Rate limiter.** `AuditProofs` proves `BudgetIsKept`:
`LimiterSpec => []WithinBudget`, for every
rate, bucket, set of clients and requests and any waiting time for the mutex, under
the assumption `IdleBucketsFillUp`: an idle bucket fills up before it is dropped,
`Burst <= Rate * (IdleAfter - 2 * MaxStall)`, which the defaults satisfy and nothing
in the code enforces for a configured rate and burst. The invariant `LimiterInv`
values a bucket at a fixed time (`Worth`, its tokens less what flowed in until its
last use), which a refill does not change: what a client was served is missing from
that value (`Spent`), the value is bounded below although times run backwards
(`Solvent`), and a client without a bucket has waited long enough to have gathered
what it was served (`Forgotten`). The other direction is `RefusalsAreDeserved`:
`LimiterSpec => RefusalsAreEarned`. Every bucket was full at some time, and what it
lacks since then was served to requests that had read the time at most `MaxStall`
before (`FullOnce`). Audit runs the same actions among its own.

**Merkle tree.** `AuditProofs` proves the five properties of the tree for trees of
any size. Three groups of lemmas lead there:

- *Recursion.* `RecursionDefines` shows once that a recursion whose steps look only
  at arguments of a smaller measure has a solution, and `SolutionsAgree` that it has
  no other; both use that a set of numbers has a least element (`LeastNumber`, from the
  library's well-foundedness of `<`). Each recursive function of Merkle is an
  instance, and every induction below is a least counterexample that does not exist.
- *Roots.* `SplitPoint` gives the split of a tree its number: the one power of two
  below the size and at least half of it. `NodeHashInjective`, the absence of
  collisions, makes a root name its children, so `RootsCommit`: trees of one size
  with one root have the same leaves. `RootsAreBottomUp` shows that splitting and
  pairing level by level give the same root.
- *Verifiers.* `InclusionVerified` and `ConsistencyVerified` say exactly which answers
  are accepted: the server's proof for the leaves of the tree and nothing else. For
  consistency, the loop that shifts the two sizes is followed from the deepest slice
  that `subProof` stops at (`SliceProved`) up to the root (`WalkExtends`), and the
  omitted root of an old tree that is itself a slice is `RootLeftOut`.

`InclusionProofsAccepted`, `InclusionProofsBind`, `ConsistencyProofsAccepted` and
`ConsistencyProofsBind` follow with `ProofInv`: the log is as long as it may be,
and an answer that nobody altered is the proof that was asked for. The one assumption about hashes is in
the model: `NodeHash` and `LeafHash` have no collisions.

**Audit.** `AcceptedLogsAreCommitted` rests on `SeenInv`: the tree head and the
leaves are of the log as it is or was before the fork, and once proofs are asked for
the checks of the leaves have passed (`Checked`). Equal roots make the leaves those of
the head (`RootsCommit`), whatever the fork; a true leaf after a replaced one breaks the
chain, because it names the true leaf before it. `HonestAuditsPass` rests on
`HonestInv` (while nothing is forked, altered or refused, every leaf that was read is
in its place) and on the completeness of the two verifiers, since the log may have
grown after the tree head. `AuditedServer` and `AuditedLimiter` show that each action
of the audit is a step of Merkle's server and of the limiter or leaves them alone, so
that `AuditedProofs` has the theorems of both while an audit runs.

Only model-checked:

- liveness, which TLAPS does not support here: `RequestsFinish`, `WorkersEnd`,
  `DeliveredIsPaid` and `LoadsSettle`;
- the four runs that show the findings.

## 5. Findings

1. `register_supply`. The register handler (`S/internal/api/server.go:225`) reads
   the account without the ledger's lock and, having seen no row, upserts one with
   balance 0. A transfer that creates and funds the row in between is erased: the
   supply is no longer conserved, and every later reclaim fails its own check.
   `src/ledger/README.md:10` promises a conservation invariant.
2. `register_replay`. The same read lets a slow duplicate of a registration write
   nonce 0 after the account has spent, and an applied payload is accepted again.
   `src/SECURITY.md:31` counts replay as defended. By the same interleaving
   the second of two registrations with different keys replaces the first key, which
   `S/internal/api/server.go:268` says only rotate_key does: the atomic ledger satisfies
   `KeyChangesAreSigned`, and the interleaved one until `overtaken`, as `OrderlySteps`
   proves; that such an overlap exists is shown by this run's trace.
3. `rewards_crash`. A payment commits before its reservation is completed, and an
   incomplete reservation expires: a crash in between has the event paid again,
   against "same event must not pay twice" in
   `S/internal/store/migrations/0001_init.sql`. A lost reply and a worker slower
   than 15 minutes have the same effect; `ExtraPaymentsNeedFaults` shows that each
   of them costs one payment at most.
4. `audit_replay`. `ledger-verify` is documented to replay the ledger; its `main`
   never calls the replay and only counts the transactions, so a log whose last leaf
   is a signed transfer of points that its signer does not have is accepted.

The first three share a remedy: do in one transaction, under the ledger's lock, what
the code does in several.

## 6. Not modelled, and why

- Encoding: canonical JSON, hex and base64, SHA-256, HMAC and Ed25519 are abstracted
  to records, sequences and keys. Two payloads are equal when their fields are.
- Integer width: amounts are int64, and no sum exceeds the supply of 50 million.
- The reading handlers, listings, dashboard, explorer, history modal and tip button
  change no state. `UserHistory` finds entries by the key in force and so misses those
  of a former key: one query over one state, not a matter of interleaving.
- The bot client and the submission to the calendars are HTTP.
- `Migrate` and the connection pool: what two starting processes, or as many listings
  as the pool has connections, do to each other is decided by PostgreSQL's catalogue
  locks and the driver, which the repository does not state.
- The security headers, the Origin check of admin writes (`sameOriginWrite`) and the
  development header that replaces a session keep no state.
- An audit of an empty tree, which ends at once.
- The theme's cryptography: pure functions of a library.
- The memory store of the tests stands for the same contract as the tables.

## 7. Plan

The modules that were planned are written, and every safety property of the passing
runs is proved. What is left is to state more:

1. *Abstract specifications.* A reservation that is paid once, which the workers of
   Rewards refine while there are no faults; a balance that a view reads from the
   server, which Wallet refines up to the staleness that it admits.
2. *Replay.* The audit's leaves as ledger transactions, so that what finding 4 shows
   on one log can be stated against module Ledger.
