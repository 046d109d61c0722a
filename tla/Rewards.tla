------------------------------ MODULE Rewards ------------------------------
(***************************************************************************)
(* The payment of rewards (internal/rewards/webhook.go, PayRewardOnce, and  *)
(* the reward_events table of internal/store/pgstore.go), as the sidecar's  *)
(* webhook handlers and the ledger-admin backfill run it at the same time.  *)
(*                                                                         *)
(* A worker reads the configured amount, reserves the event (two SQL        *)
(* statements), signs and applies a transfer from the treasury under the    *)
(* mutex of its process, and completes the reservation.  Apply is one step  *)
(* here (module LedgerPG shows that it is atomic).  Of the ledger only what *)
(* the treasury's key has signed matters: its nonce is the number of those  *)
(* leaves, its balance what they have left of its funds.                    *)
(***************************************************************************)
EXTENDS Totals, Sequences

CONSTANTS
    Workers,      \* goroutines that pay rewards
    ProcessOf,    \* ProcessOf[w]: the operating-system process of worker w
    Events,       \* the (event_type, event_key) pairs
    Outsider,     \* whoever else signs with the treasury's key
    None,         \* no event, no holder
    Amounts,      \* the amounts an administrator may configure; 0 disables
    Funds,        \* what the treasury holds at the start
    MaxAttempts,  \* how often a transfer with a refused nonce is signed (8 in the code)
    MaxOutside,   \* bound: transactions of the outsider
    MaxChanges,   \* bound: changes of the configuration
    FaultKinds,   \* the faults that may happen
    MaxFaults     \* bound: how many faults happen

Faults == {"crash", "lost_reply", "db_error", "overrun"}

ASSUME WorkersAssumption == DOMAIN ProcessOf = Workers /\ IsFiniteSet(Workers)
ASSUME AmountsAssumption == Amounts \subseteq Nat /\ Funds \in Nat
ASSUME BoundsAssumption ==
    /\ MaxAttempts \in Nat \ {0} /\ MaxOutside \in Nat
    /\ MaxChanges \in Nat /\ MaxFaults \in Nat
    /\ FaultKinds \subseteq Faults

Processes == {ProcessOf[w] : w \in Workers}

ASSUME NamesAssumption == None \notin Workers \cup Events /\ Outsider \notin Processes

VARIABLES
    amount,   \* reward_config: what each event pays, 0 if it is disabled
    row,      \* reward_events: "absent"; "reserved" (no tx_hash) or "stale", the
              \* same 15 minutes later; "paid" (with a tx_hash)
    hash,     \* reward_events.tx_hash, as the position of the leaf
    leaves,   \* the leaves that the treasury's key signed: [event, by, amount]
    mutex,    \* adminSignMu of each process: its holder
    pc,       \* the step of PayRewardOnce that each worker takes next
    job,      \* its local variables: [event, amount, nonce, attempt, leaf]
    first,    \* history: how many leaves there were at its first attempt
    changes,  \* how often the configuration changed
    faults    \* how many faults happened

table == <<row, hash>>
bounds == <<changes, faults>>
vars == <<amount, row, hash, leaves, mutex, pc, job, first, changes, faults>>

-----------------------------------------------------------------------------
(* Faulty variants of the definitions below.                                *)

MutexIgnored(w) == TRUE
MutexKept(w) == mutex
ReleasesAny(e) == TRUE
SweepsNothing(e) == FALSE
SweepsFresh(e) == row[e] # "paid"
NoFundsCheck(a) == TRUE

-----------------------------------------------------------------------------
(* The treasury's account.                                                  *)

Nonce == Len(leaves)

Spent == Total([n \in DOMAIN leaves |-> leaves[n].amount])

HasFunds(a) == Funds - Spent >= a

Signed(e, by, a) == Append(leaves, [event |-> e, by |-> by, amount |-> a])

-----------------------------------------------------------------------------
(* PayRewardOnce.                                                           *)

Goto(w, label) == pc' = [pc EXCEPT ![w] = label]

NoJob == [event |-> None, amount |-> 0, nonce |-> 0, attempt |-> 0, leaf |-> 0]

End(w) ==
    /\ Goto(w, "idle")
    /\ job' = [job EXCEPT ![w] = NoJob]
    /\ first' = [first EXCEPT ![w] = 0]

\* A webhook or a line of the backfill: GetRewardAmount.  A disabled event ends
\* here.  Discourse may deliver an event again, at any time.
GetRewardAmount(w, e) ==
    /\ pc[w] = "idle"
    /\ amount[e] > 0
    /\ job' = [job EXCEPT ![w] = [NoJob EXCEPT !.event = e, !.amount = amount[e]]]
    /\ Goto(w, "sweep")
    /\ UNCHANGED <<amount, table, leaves, mutex, first, bounds>>

\* TryReserveRewardEvent, first statement: delete a reservation that is old.
Sweeps(e) == row[e] = "stale"

Sweep(w) ==
    LET e == job[w].event IN
    /\ pc[w] = "sweep"
    /\ row' = [row EXCEPT ![e] = IF Sweeps(e) THEN "absent" ELSE @]
    /\ Goto(w, "reserve")
    /\ UNCHANGED <<amount, hash, leaves, mutex, job, first, bounds>>

\* Its second statement: INSERT ... ON CONFLICT DO NOTHING.
Reserves(e) == row[e] = "absent"

Reserve(w) ==
    LET e == job[w].event IN
    /\ pc[w] = "reserve"
    /\ \/ /\ Reserves(e)
          /\ row' = [row EXCEPT ![e] = IF @ = "absent" THEN "reserved" ELSE @]
          /\ Goto(w, "lock")
          /\ UNCHANGED <<job, first>>
       \/ ~ Reserves(e) /\ End(w) /\ UNCHANGED row  \* already paid or in-flight
    /\ UNCHANGED <<amount, hash, leaves, mutex, bounds>>

MutexFree(w) == mutex[ProcessOf[w]] = None

LockMutex(w) ==
    /\ pc[w] = "lock"
    /\ MutexFree(w)
    /\ mutex' = [mutex EXCEPT ![ProcessOf[w]] = w]
    /\ Goto(w, "sign")
    /\ UNCHANGED <<amount, table, leaves, job, first, bounds>>

\* The mutex as worker w leaves it when it returns from signAndApplyTransfer.
Unlocked(w) == [mutex EXCEPT ![ProcessOf[w]] = None]

\* signAndApplyTransfer returns an error: the reservation is released next.
Fail(w) ==
    /\ mutex' = Unlocked(w)
    /\ Goto(w, "release")
    /\ UNCHANGED <<table, job>>

\* signAndApplyTransferOnce reads the treasury's row and signs for the next nonce.
Sign(w) ==
    /\ pc[w] = "sign"
    /\ first' = [first EXCEPT ![w] = IF job[w].attempt = 0 THEN Nonce ELSE @]
    /\ IF HasFunds(job[w].amount)
       THEN /\ job' = [job EXCEPT ![w].nonce = Nonce + 1]
            /\ Goto(w, "apply")
            /\ UNCHANGED <<table, mutex>>
       ELSE Fail(w)
    /\ UNCHANGED <<amount, leaves, bounds>>

NonceAccepted(w) == job[w].nonce = Nonce + 1

ApplyAccepted(w) ==
    /\ pc[w] = "apply"
    /\ NonceAccepted(w) /\ HasFunds(job[w].amount)
    /\ leaves' = Signed(job[w].event, ProcessOf[w], job[w].amount)
    /\ job' = [job EXCEPT ![w].leaf = Len(leaves) + 1]
    /\ mutex' = Unlocked(w)
    /\ Goto(w, "complete")
    /\ UNCHANGED <<amount, table, first, bounds>>

\* Only ErrBadNonce is tried again.
ApplyRefused(w) ==
    /\ pc[w] = "apply"
    /\ \/ /\ ~ NonceAccepted(w)
          /\ job[w].attempt + 1 < MaxAttempts
          /\ job' = [job EXCEPT ![w].attempt = @ + 1]
          /\ Goto(w, "sign")
          /\ UNCHANGED <<table, mutex>>
       \/ /\ IF NonceAccepted(w) THEN ~ HasFunds(job[w].amount)
             ELSE job[w].attempt + 1 = MaxAttempts
          /\ Fail(w)
    /\ UNCHANGED <<amount, leaves, first, bounds>>

\* ReleaseRewardEvent deletes the row unless it has a tx_hash.  It does not know
\* whose reservation it is.
Releases(e) == row[e] # "paid"

Release(w) ==
    LET e == job[w].event IN
    /\ pc[w] = "release"
    /\ row' = [row EXCEPT ![e] = IF Releases(e) THEN "absent" ELSE @]
    /\ End(w)
    /\ UNCHANGED <<amount, hash, leaves, mutex, bounds>>

\* CompleteRewardEvent keeps the tx_hash of a row that already has one, and
\* returns an error if that is another one.
Complete(w) ==
    LET e == job[w].event IN
    /\ pc[w] = "complete"
    /\ row' = [row EXCEPT ![e] = "paid"]
    /\ hash' = [hash EXCEPT ![e] = IF row[e] = "paid" THEN @ ELSE job[w].leaf]
    /\ End(w)
    /\ UNCHANGED <<amount, leaves, mutex, bounds>>

-----------------------------------------------------------------------------
(* Time, the other users of the treasury's key, and faults.                 *)

\* The worker holds the reservation of e, or believes that it does.
Claims(w, e) ==
    job[w].event = e /\ pc[w] \in {"lock", "sign", "apply", "release", "complete"}

\* Fifteen minutes pass.  A worker that still works on the event is overrun.
GrowStale(e) ==
    /\ row[e] = "reserved"
    /\ ~ \E w \in Workers : Claims(w, e)
    /\ row' = [row EXCEPT ![e] = "stale"]
    /\ UNCHANGED <<amount, hash, leaves, mutex, pc, job, first, bounds>>

Fault(kind) ==
    /\ kind \in FaultKinds
    /\ faults < MaxFaults
    /\ faults' = faults + 1

Overrun(e) ==
    /\ Fault("overrun")
    /\ row[e] = "reserved"
    /\ \E w \in Workers : Claims(w, e)
    /\ row' = [row EXCEPT ![e] = "stale"]
    /\ UNCHANGED <<amount, hash, leaves, mutex, pc, job, first, changes>>

\* The commit succeeds but its answer is lost, so Apply returns an error.
LoseReply(w) ==
    /\ Fault("lost_reply")
    /\ pc[w] = "apply"
    /\ NonceAccepted(w) /\ HasFunds(job[w].amount)
    /\ leaves' = Signed(job[w].event, ProcessOf[w], job[w].amount)
    /\ Fail(w)
    /\ UNCHANGED <<amount, first, changes>>

\* A statement fails: the database is away, or the request was cancelled.
DbError(w) ==
    /\ Fault("db_error")
    /\ \/ pc[w] \in {"sweep", "reserve", "release", "complete"} /\ End(w)
                                                  /\ UNCHANGED <<table, mutex>>
       \/ pc[w] \in {"sign", "apply"} /\ Fail(w) /\ UNCHANGED first
    /\ UNCHANGED <<amount, leaves, changes>>

\* The process dies; what it had committed stays.
Crash(q) ==
    /\ Fault("crash")
    /\ pc' = [w \in Workers |-> IF ProcessOf[w] = q THEN "idle" ELSE pc[w]]
    /\ job' = [w \in Workers |-> IF ProcessOf[w] = q THEN NoJob ELSE job[w]]
    /\ first' = [w \in Workers |-> IF ProcessOf[w] = q THEN 0 ELSE first[w]]
    /\ mutex' = [mutex EXCEPT ![q] = None]
    /\ UNCHANGED <<amount, table, leaves, changes>>

\* The administrator's browser or another command signs with the same key.
OutsideTx ==
    /\ Cardinality({n \in DOMAIN leaves : leaves[n].by = Outsider}) < MaxOutside
    /\ HasFunds(1)
    /\ leaves' = Signed(None, Outsider, 1)
    /\ UNCHANGED <<amount, table, mutex, pc, job, first, bounds>>

\* The admin UI's updateRewardConfig.
SetAmount(e, a) ==
    /\ changes < MaxChanges
    /\ amount' = [amount EXCEPT ![e] = a]
    /\ changes' = changes + 1
    /\ UNCHANGED <<table, leaves, mutex, pc, job, first, faults>>

-----------------------------------------------------------------------------
Init ==
    /\ amount \in [Events -> Amounts]
    /\ row = [e \in Events |-> "absent"]
    /\ hash = [e \in Events |-> 0]
    /\ leaves = <<>>
    /\ mutex = [q \in Processes |-> None]
    /\ pc = [w \in Workers |-> "idle"]
    /\ job = [w \in Workers |-> NoJob]
    /\ first = [w \in Workers |-> 0]
    /\ changes = 0
    /\ faults = 0

\* What a worker does by itself once it has started.
Proceed(w) ==
    \/ Sweep(w) \/ Reserve(w) \/ Sign(w) \/ ApplyAccepted(w) \/ ApplyRefused(w)
    \/ Release(w) \/ Complete(w)

Next ==
    \/ \E w \in Workers : Proceed(w) \/ LockMutex(w) \/ LoseReply(w) \/ DbError(w)
    \/ \E w \in Workers, e \in Events : GetRewardAmount(w, e)
    \/ \E e \in Events : GrowStale(e) \/ Overrun(e)
    \/ \E e \in Events, a \in Amounts : SetAmount(e, a)
    \/ \E q \in Processes : Crash(q)
    \/ OutsideTx

Spec == Init /\ [][Next]_vars

\* A worker that has started goes on (a Go mutex hands itself to the goroutine
\* that has waited longest, hence SF), and time passes.  Nothing makes an event
\* arrive, and nothing makes a fault happen.
Fairness ==
    /\ \A w \in Workers : WF_vars(Proceed(w)) /\ SF_vars(LockMutex(w))
    /\ \A e \in Events : WF_vars(GrowStale(e))

FairSpec == Spec /\ Fairness

-----------------------------------------------------------------------------
(* Properties.                                                              *)

Payments(e) == {n \in DOMAIN leaves : leaves[n].event = e}

\* The tables, locals and the treasury's balance have their types: in
\* particular the treasury is never overdrawn.
TypeOK ==
    /\ amount \in [Events -> Amounts]
    /\ row \in [Events -> {"absent", "reserved", "stale", "paid"}]
    /\ hash \in [Events -> 0 .. Len(leaves)]
    /\ leaves \in Seq([event : Events \cup {None}, by : Processes \cup {Outsider}, amount : Nat])
    /\ Spent <= Funds
    /\ \A q \in Processes : mutex[q] \in {None} \cup {w \in Workers : ProcessOf[w] = q}
    /\ pc \in [Workers -> {"idle", "sweep", "reserve", "lock", "sign", "apply", "release",
                           "complete"}]
    /\ job \in [Workers -> [event : Events \cup {None}, amount : Amounts \cup {0}, nonce : Nat,
                            attempt : 0 .. MaxAttempts - 1, leaf : 0 .. Len(leaves)]]

\* "Reward dedup table: same event must not pay twice" (0001_init.sql): however
\* often an event is delivered, to whichever process.
PaidAtMostOnce == \A e \in Events : Cardinality(Payments(e)) <= 1

\* With faults an event can be paid again, but each fault costs one payment at
\* most: there is no chain reaction of releases and stolen reservations.
ExtraPaymentsNeedFaults == \A e \in Events : Cardinality(Payments(e)) <= 1 + faults

\* A completed row points at a leaf that paid its event, and stays as it is,
\* although slower workers still release, complete and sweep the same event.
CompletedIsFinal ==
    [][\A e \in Events :
          /\ row'[e] = "paid" => hash'[e] \in Payments(e)'
          /\ row[e] = "paid" => row'[e] = "paid" /\ hash'[e] = hash[e]]_vars

\* A worker signs again only because somebody outside its process used the
\* nonce, once for each attempt: workers of one process never collide, so it
\* takes MaxAttempts transactions of others to make a payment fail.
RetriesNeedOutsiders ==
    \A w \in Workers : pc[w] # "idle" =>
        job[w].attempt <= Cardinality({n \in DOMAIN leaves :
                              n > first[w] /\ leaves[n].by # ProcessOf[w]})

\* A worker that has started ends.
WorkersEnd == \A w \in Workers : pc[w] # "idle" ~> pc[w] = "idle"

\* An event that is delivered again and again is paid in the end, although a
\* process died with its reservation or gave up: unless the treasury runs dry.
Delivered(e) == \E w \in Workers : pc[w] = "sweep" /\ job[w].event = e

DeliveredIsPaid ==
    \A e \in Events : []<>Delivered(e) => <>(row[e] = "paid" \/ ~ HasFunds(amount[e]))
=============================================================================
