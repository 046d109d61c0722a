--------------------------- MODULE RewardsProofs ---------------------------
(***************************************************************************)
(* Theorems about the payment of rewards, for any number of workers,        *)
(* processes and events, any amounts and any number of faults.              *)
(***************************************************************************)
EXTENDS Rewards, TotalsTheorems, SequenceTheorems

-----------------------------------------------------------------------------
(* The inductive invariant.                                                 *)

Types ==
    /\ TypeOK
    /\ mutex = [q \in Processes |-> mutex[q]] /\ first \in [Workers -> Nat]
    /\ faults \in 0 .. MaxFaults

\* A worker has the mutex of its process while it signs.
Exclusive == \A w \in Workers : pc[w] \in {"sign", "apply"} => mutex[ProcessOf[w]] = w

\* The leaves of other processes up to leaf m, since the first attempt of w.
Others(w, m) == {n \in 1 .. m : n > first[w] /\ leaves[n].by # ProcessOf[w]}

\* Every attempt but the last was answered by a leaf of somebody else, and so are
\* all the leaves since worker w has read the nonce.
Retries(w) ==
    /\ first[w] <= Len(leaves)
    /\ pc[w] \in {"idle", "sweep", "reserve", "lock"} => job[w].attempt = 0
    /\ job[w].attempt <= Cardinality(Others(w, Len(leaves)))
    /\ pc[w] = "apply" =>
          /\ job[w].nonce \in first[w] + 1 .. Len(leaves) + 1
          /\ job[w].attempt <= Cardinality(Others(w, job[w].nonce - 1))
          /\ \A n \in job[w].nonce .. Len(leaves) : leaves[n].by # ProcessOf[w]

\* A completed row, and a worker that is about to complete one, has its payment.
Completed ==
    /\ \A e \in Events : row[e] = "paid" => hash[e] \in Payments(e)
    /\ \A w \in Workers : pc[w] = "complete" => job[w].leaf \in Payments(job[w].event)

\* The workers that may still pay event e, or make way for another to do so.
Owing(e) == {w \in Workers : job[w].event = e /\ pc[w] \in {"lock", "sign", "apply", "release"}}

\* The reservation is there to be taken, now or as soon as it is old.
Free(e) ==
    \/ row[e] \in {"absent", "stale"}
    \/ row[e] = "reserved" /\ ~ \E w \in Workers : Claims(w, e)

\* What is paid, and what may be paid without another fault.
Accounted(e) ==
    Cardinality(Payments(e)) + Cardinality(Owing(e)) + (IF Free(e) THEN 1 ELSE 0) <= 1 + faults

Inv ==
    /\ Types /\ Exclusive /\ Completed
    /\ \A w \in Workers : Retries(w)
    /\ \A e \in Events : Accounted(e)

-----------------------------------------------------------------------------
(* The leaves.                                                              *)

LeafSet == [event : Events \cup {None}, by : Processes \cup {Outsider}, amount : Nat]

\* A leaf that is signed comes after the others.
LEMMA SignedLeaf ==
    ASSUME leaves \in Seq(LeafSet), NEW e \in Events \cup {None},
           NEW by \in Processes \cup {Outsider}, NEW a \in Nat, leaves' = Signed(e, by, a)
    PROVE  /\ leaves' \in Seq(LeafSet) /\ Len(leaves) \in Nat /\ Len(leaves') = Len(leaves) + 1
           /\ DOMAIN leaves = 1 .. Len(leaves) /\ DOMAIN leaves' = 1 .. Len(leaves) + 1
           /\ \A n \in 1 .. Len(leaves) : leaves'[n] = leaves[n]
           /\ leaves'[Len(leaves) + 1] = [event |-> e, by |-> by, amount |-> a]
<1> PICK leaf : leaf = [event |-> e, by |-> by, amount |-> a]
  OBVIOUS
<1>1. leaf \in LeafSet /\ leaves' = Append(leaves, leaf)
  BY DEF LeafSet, Signed
<1>2. QED
  BY <1>1, AppendProperties, LenProperties

\* The amounts of the leaves are a function with values in Nat.
LEMMA AmountsType ==
    ASSUME leaves \in Seq(LeafSet)
    PROVE  /\ [n \in DOMAIN leaves |-> leaves[n].amount] \in [DOMAIN leaves -> Nat]
           /\ IsFiniteSet(DOMAIN leaves) /\ Spent \in Nat
<1>1. DOMAIN leaves = 1 .. Len(leaves) /\ Len(leaves) \in Nat
  BY LenProperties
<1>2. \A n \in DOMAIN leaves : leaves[n] \in LeafSet
  BY <1>1, ElementOfSeq
<1>3. [n \in DOMAIN leaves |-> leaves[n].amount] \in [DOMAIN leaves -> Nat]
  BY <1>2 DEF LeafSet
<1>4. IsFiniteSet(DOMAIN leaves)
  BY <1>1, FS_Interval
<1>5. QED
  BY <1>3, <1>4, TotalType DEF Spent

\* What is spent grows by the amount of the new leaf.
LEMMA SpentGrows ==
    ASSUME leaves \in Seq(LeafSet), NEW e \in Events \cup {None},
           NEW by \in Processes \cup {Outsider}, NEW a \in Nat, leaves' = Signed(e, by, a)
    PROVE  Spent' = Spent + a
<1>0. PICK D, E, f, g, d : /\ D = DOMAIN leaves /\ f = [n \in DOMAIN leaves |-> leaves[n].amount]
                          /\ E = DOMAIN leaves' /\ g = [n \in DOMAIN leaves' |-> leaves'[n].amount]
                          /\ d = Len(leaves) + 1
  OBVIOUS
<1>1. /\ leaves' \in Seq(LeafSet) /\ Len(leaves) \in Nat
      /\ D = 1 .. Len(leaves) /\ E = 1 .. Len(leaves) + 1
      /\ \A n \in 1 .. Len(leaves) : leaves'[n] = leaves[n]
      /\ leaves'[d] = [event |-> e, by |-> by, amount |-> a]
  BY <1>0, SignedLeaf
<1>2. f \in [D -> Nat] /\ IsFiniteSet(D)
  BY <1>0, AmountsType
<1>3. \A n \in E : leaves'[n] \in LeafSet
  BY <1>0, <1>1, ElementOfSeq, LenProperties
<1>4. g \in [E -> Nat]
  BY <1>0, <1>3 DEF LeafSet
<1>5. E = D \cup {d} /\ d \in E /\ d \notin D
  BY <1>0, <1>1
<1>6. \A n \in E : n # d => n \in D /\ n \in 1 .. Len(leaves)
  BY <1>1, <1>5
<1>7. \A n \in E : n # d => n \in D /\ g[n] = f[n]
  BY <1>0, <1>1, <1>6
<1>8. g[d] = a
  BY <1>0, <1>1, <1>5
<1>9. PICK m \in Nat : m = 0
  OBVIOUS
<1>10. (d \in D => f[d] = m) /\ (d \notin D => m = 0) /\ m <= g[d]
  BY <1>5, <1>8, <1>9
<1>11. Total(g) = Total(f) + (g[d] - m)
  BY <1>2, <1>4, <1>5, <1>7, <1>10, TotalGrows
<1>12. Total(f) \in Nat
  BY <1>2, TotalType
<1>13. Spent = Total(f) /\ Spent' = Total(g)
  BY <1>0 DEF Spent
<1>14. QED
  BY <1>8, <1>9, <1>11, <1>12, <1>13

-----------------------------------------------------------------------------
(* The steps of a worker.                                                   *)

Steps(w) ==
    \/ Proceed(w) \/ LockMutex(w) \/ LoseReply(w) \/ DbError(w)
    \/ \E e \in Events : GetRewardAmount(w, e)

Labels == {"idle", "sweep", "reserve", "lock", "sign", "apply", "release", "complete"}
Jobs(n) == [event : Events \cup {None}, amount : Amounts \cup {0}, nonce : Nat,
            attempt : 0 .. MaxAttempts - 1, leaf : 0 .. n]

\* A job is its fields.
LEMMA JobFields ==
    ASSUME NEW n, NEW j \in Jobs(n)
    PROVE  /\ j = [event |-> j.event, amount |-> j.amount, nonce |-> j.nonce,
                   attempt |-> j.attempt, leaf |-> j.leaf]
           /\ j.event \in Events \cup {None} /\ j.amount \in Amounts \cup {0}
           /\ j.nonce \in Nat /\ j.attempt \in 0 .. MaxAttempts - 1 /\ j.leaf \in 0 .. n
BY DEF Jobs

\* A job with another nonce is a job.
LEMMA WithNonce ==
    ASSUME NEW n, NEW j \in Jobs(n), NEW k \in Nat, NEW new, new = [j EXCEPT !.nonce = k]
    PROVE  new \in Jobs(n) /\ new.nonce = k /\ new.attempt = j.attempt /\ new.event = j.event
BY JobFields DEF Jobs

\* A job with another attempt is a job.
LEMMA WithAttempt ==
    ASSUME NEW n, NEW j \in Jobs(n), NEW k \in 0 .. MaxAttempts - 1,
           NEW new, new = [j EXCEPT !.attempt = k]
    PROVE  new \in Jobs(n) /\ new.attempt = k /\ new.event = j.event
BY JobFields DEF Jobs

\* A job with another leaf is a job, although there are more leaves.
LEMMA WithLeaf ==
    ASSUME NEW n, NEW j \in Jobs(n), NEW m, \A i \in 0 .. n : i \in 0 .. m,
           NEW k \in 0 .. m, NEW new, new = [j EXCEPT !.leaf = k]
    PROVE  new \in Jobs(m) /\ new.leaf = k /\ new.attempt = j.attempt /\ new.event = j.event
BY JobFields DEF Jobs

\* Only the variables of worker w change, the mutex of its process and a row.
Frame(w) ==
    /\ pc' = [pc EXCEPT ![w] = pc'[w]] /\ job' = [job EXCEPT ![w] = job'[w]]
    /\ first' = [first EXCEPT ![w] = first'[w]]
    /\ mutex' = [mutex EXCEPT ![ProcessOf[w]] = mutex'[ProcessOf[w]]]
    /\ amount' = amount /\ changes' = changes

\* What a worker has is of its type.
LEMMA WorkerTypes ==
    ASSUME Types, NEW w \in Workers
    PROVE  /\ ProcessOf[w] \in Processes /\ Len(leaves) \in Nat /\ leaves \in Seq(LeafSet)
           /\ job[w] \in Jobs(Len(leaves)) /\ job[w].amount \in Nat /\ job[w].event \in Events \cup {None}
           /\ job[w].attempt \in Nat /\ job[w].nonce \in Nat /\ MaxAttempts \in Nat
           /\ pc = [v \in Workers |-> pc[v]] /\ job = [v \in Workers |-> job[v]]
           /\ first[w] \in Nat /\ NoJob \in Jobs(Len(leaves)) /\ Nonce \in Nat
<1>1. ProcessOf[w] \in Processes
  BY WorkersAssumption DEF Processes
<1>2. /\ leaves \in Seq(LeafSet) /\ job \in [Workers -> Jobs(Len(leaves))]
      /\ pc = [v \in Workers |-> pc[v]] /\ job = [v \in Workers |-> job[v]] /\ first[w] \in Nat
  BY DEF Types, TypeOK, LeafSet, Jobs
<1>3. Len(leaves) \in Nat
  BY <1>2, LenProperties
<1>4. MaxAttempts \in Nat /\ MaxAttempts > 0 /\ Amounts \subseteq Nat
  BY BoundsAssumption, AmountsAssumption
<1>5. job[w] \in Jobs(Len(leaves))
  BY <1>2
<1>6. /\ job[w].amount \in Nat /\ job[w].event \in Events \cup {None}
      /\ job[w].attempt \in Nat /\ job[w].nonce \in Nat
  <2>1. /\ job[w].amount \in Amounts \cup {0} /\ job[w].event \in Events \cup {None}
        /\ job[w].attempt \in 0 .. MaxAttempts - 1 /\ job[w].nonce \in Nat
    BY <1>5 DEF Jobs
  <2>2. job[w].amount \in Nat
    BY <1>4, <2>1
  <2>3. QED
    BY <1>4, <2>1, <2>2
<1>7. NoJob \in Jobs(Len(leaves))
  BY <1>3, <1>4 DEF NoJob, Jobs
<1>8. QED
  BY <1>1, <1>2, <1>3, <1>4, <1>5, <1>6, <1>7 DEF Nonce

\* A worker that ends has no job.
LEMMA Ending ==
    ASSUME Types, NEW w \in Workers, End(w)
    PROVE  /\ pc'[w] = "idle" /\ job'[w] = NoJob /\ first'[w] = 0
           /\ pc' = [pc EXCEPT ![w] = pc'[w]] /\ job' = [job EXCEPT ![w] = job'[w]]
           /\ first' = [first EXCEPT ![w] = first'[w]]
BY WorkerTypes DEF End, Goto, Types

\* A worker that fails gives the mutex back, and keeps its job.
LEMMA Failing ==
    ASSUME Types, NEW w \in Workers, Fail(w)
    PROVE  /\ pc'[w] = "release" /\ job'[w] = job[w] /\ row' = row /\ hash' = hash
           /\ mutex'[ProcessOf[w]] = None
           /\ pc' = [pc EXCEPT ![w] = pc'[w]] /\ job' = [job EXCEPT ![w] = job'[w]]
           /\ mutex' = [mutex EXCEPT ![ProcessOf[w]] = mutex'[ProcessOf[w]]]
BY WorkerTypes DEF Fail, Unlocked, Goto, table, Types

\* The variables of the other workers and processes do not change.
LEMMA Framed ==
    ASSUME Types, NEW w \in Workers, Steps(w)
    PROVE  Frame(w)
<1>1. /\ pc = [v \in Workers |-> pc[v]] /\ job = [v \in Workers |-> job[v]]
      /\ mutex = [q \in Processes |-> mutex[q]] /\ first = [v \in Workers |-> first[v]]
      /\ ProcessOf[w] \in Processes
  BY WorkerTypes DEF Types
<1>2. CASE Sweep(w) \/ LockMutex(w) \/ ApplyAccepted(w)
  BY <1>1, <1>2 DEF Sweep, LockMutex, ApplyAccepted, Unlocked, Goto, Frame, bounds
<1>3. ASSUME NEW e \in Events, GetRewardAmount(w, e)
      PROVE  Frame(w)
  BY <1>1, <1>3 DEF GetRewardAmount, Goto, Frame, bounds
<1>4. CASE Reserve(w)
  <2>1. CASE End(w)
    BY <1>1, <1>4, <2>1, Ending DEF Reserve, Frame, bounds
  <2>2. CASE ~ End(w)
    BY <1>1, <1>4, <2>2 DEF Reserve, Goto, Frame, bounds
  <2>3. QED
    BY <2>1, <2>2
<1>5. CASE Sign(w)
  <2>1. first' = [first EXCEPT ![w] = first'[w]] /\ amount' = amount /\ changes' = changes
    BY <1>1, <1>5 DEF Sign, bounds
  <2>2. CASE Fail(w)
    BY <2>1, <2>2, Failing DEF Frame
  <2>3. CASE ~ Fail(w)
    BY <1>1, <1>5, <2>1, <2>3 DEF Sign, Goto, Frame
  <2>4. QED
    BY <2>2, <2>3
<1>6. CASE ApplyRefused(w)
  <2>1. first' = first /\ amount' = amount /\ changes' = changes
    BY <1>6 DEF ApplyRefused, bounds
  <2>2. CASE Fail(w)
    BY <1>1, <2>1, <2>2, Failing DEF Frame
  <2>3. CASE ~ Fail(w)
    BY <1>1, <1>6, <2>1, <2>3 DEF ApplyRefused, Goto, Frame
  <2>4. QED
    BY <2>2, <2>3
<1>7. CASE LoseReply(w)
  BY <1>1, <1>7, Failing DEF LoseReply, Frame
<1>8. CASE DbError(w)
  <2>1. CASE Fail(w) /\ UNCHANGED first
    BY <1>1, <1>8, <2>1, Failing DEF DbError, Frame
  <2>2. CASE End(w) /\ UNCHANGED mutex
    BY <1>1, <1>8, <2>2, Ending DEF DbError, Frame
  <2>3. QED
    BY <1>8, <2>1, <2>2 DEF DbError
<1>9. CASE Release(w) \/ Complete(w)
  BY <1>1, <1>9, Ending DEF Release, Complete, Frame, bounds
<1>10. QED
  BY <1>2, <1>3, <1>4, <1>5, <1>6, <1>7, <1>8, <1>9 DEF Steps, Proceed

\* What a step of a worker may do to the leaves, the tables and the faults.
LEMMA Effects ==
    ASSUME Types, NEW w \in Workers, Steps(w)
    PROVE  /\ \/ leaves' = leaves
              \/ /\ leaves' = Signed(job[w].event, ProcessOf[w], job[w].amount)
                 /\ pc[w] = "apply" /\ NonceAccepted(w) /\ HasFunds(job[w].amount)
           /\ row' \in [Events -> {"absent", "reserved", "stale", "paid"}]
           /\ faults' \in 0 .. MaxFaults /\ faults <= faults'
           /\ pc'[w] \in Labels
<1>1. row \in [Events -> {"absent", "reserved", "stale", "paid"}] /\ faults \in 0 .. MaxFaults
  BY DEF Types, TypeOK
<1>2. MaxFaults \in Nat
  BY BoundsAssumption
<1>3. faults' \in 0 .. MaxFaults /\ faults <= faults'
  <2>1. faults' = faults \/ (faults < MaxFaults /\ faults' = faults + 1)
    BY DEF Steps, Proceed, Sweep, Reserve, LockMutex, Sign, ApplyAccepted, ApplyRefused,
       Release, Complete, LoseReply, DbError, GetRewardAmount, Fault, bounds
  <2>2. QED
    BY <1>1, <1>2, <2>1
<1>4. row' \in [Events -> {"absent", "reserved", "stale", "paid"}]
  BY <1>1 DEF Steps, Proceed, Sweep, Reserve, LockMutex, Sign, ApplyAccepted, ApplyRefused,
     Release, Complete, LoseReply, DbError, GetRewardAmount, Fail, table
<1>5. \/ leaves' = leaves
      \/ /\ leaves' = Signed(job[w].event, ProcessOf[w], job[w].amount)
         /\ pc[w] = "apply" /\ NonceAccepted(w) /\ HasFunds(job[w].amount)
  BY DEF Steps, Proceed, Sweep, Reserve, LockMutex, Sign, ApplyAccepted, ApplyRefused,
     Release, Complete, LoseReply, DbError, GetRewardAmount
<1>6. pc'[w] \in Labels
  BY WorkerTypes DEF Steps, Proceed, Sweep, Reserve, LockMutex, Sign, ApplyAccepted, ApplyRefused,
     Release, Complete, LoseReply, DbError, GetRewardAmount, Goto, Fail, End, Labels
<1>7. QED
  BY <1>3, <1>4, <1>5, <1>6

\* The leaves stay, or there is one more.
Extends(e, by, a) ==
    /\ e \in Events \cup {None} /\ by \in Processes \cup {Outsider} /\ a \in Nat
    /\ leaves' = Signed(e, by, a) /\ HasFunds(a)

\* The treasury pays for a leaf out of its funds.
LEMMA LeavesTyped ==
    ASSUME Types, leaves' = leaves \/ \E e, by, a : Extends(e, by, a)
    PROVE  /\ leaves' \in Seq(LeafSet) /\ Spent' <= Funds
           /\ Len(leaves) \in Nat /\ Len(leaves') \in Nat /\ Len(leaves) <= Len(leaves')
           /\ \A n \in 1 .. Len(leaves) : leaves'[n] = leaves[n] /\ n \in 1 .. Len(leaves')
<1>1. /\ leaves \in Seq(LeafSet) /\ Len(leaves) \in Nat /\ Spent <= Funds /\ Spent \in Nat
      /\ Funds \in Nat
  BY AmountsType, LenProperties, AmountsAssumption DEF Types, TypeOK, LeafSet
<1>2. CASE leaves' = leaves
  BY <1>1, <1>2 DEF Spent
<1>3. ASSUME NEW e, NEW by, NEW a, Extends(e, by, a)
      PROVE  /\ leaves' \in Seq(LeafSet) /\ Spent' <= Funds
             /\ Len(leaves') = Len(leaves) + 1
             /\ \A n \in 1 .. Len(leaves) : leaves'[n] = leaves[n]
  <2>1. /\ e \in Events \cup {None} /\ by \in Processes \cup {Outsider} /\ a \in Nat
        /\ leaves' = Signed(e, by, a) /\ Funds - Spent >= a
    BY <1>3 DEF Extends, HasFunds
  <2>2. Spent' = Spent + a
    BY <1>1, <2>1, SpentGrows
  <2>3. Spent' <= Funds
    BY <1>1, <2>1, <2>2
  <2>4. QED
    BY <1>1, <2>1, <2>3, SignedLeaf
<1>4. CASE \E e, by, a : Extends(e, by, a)
  <2>1. /\ leaves' \in Seq(LeafSet) /\ Spent' <= Funds
        /\ Len(leaves') = Len(leaves) + 1
        /\ \A n \in 1 .. Len(leaves) : leaves'[n] = leaves[n]
    BY <1>3, <1>4
  <2>2. QED
    BY <1>1, <2>1
<1>5. QED
  BY <1>2, <1>4

\* The leaves of others remain.
LEMMA OthersGrow ==
    ASSUME Types, NEW v \in Workers, first'[v] = first[v],
           leaves' = leaves \/ \E e, by, a : Extends(e, by, a)
    PROVE  /\ Cardinality(Others(v, Len(leaves))) \in Nat
           /\ Cardinality(Others(v, Len(leaves))') \in Nat
           /\ Cardinality(Others(v, Len(leaves))) <= Cardinality(Others(v, Len(leaves))')
<1>1. /\ Len(leaves) \in Nat /\ Len(leaves') \in Nat
      /\ \A n \in 1 .. Len(leaves) : leaves'[n] = leaves[n] /\ n \in 1 .. Len(leaves')
  BY LeavesTyped
<1>2. IsFiniteSet(Others(v, Len(leaves))') /\ IsFiniteSet(Others(v, Len(leaves)))
  <2>1. IsFiniteSet(1 .. Len(leaves)) /\ IsFiniteSet(1 .. Len(leaves'))
    BY <1>1, FS_Interval
  <2>2. QED
    BY <2>1, FS_Subset DEF Others
<1>3. Others(v, Len(leaves)) \subseteq Others(v, Len(leaves))'
  BY <1>1 DEF Others
<1>4. QED
  BY <1>2, <1>3, FS_Subset, FS_CardinalityType

\* A worker that takes no step is as far with its attempts as before: the leaves
\* that come in while it applies are by others.
LEMMA KeepsRetries ==
    ASSUME Types, NEW v \in Workers, Retries(v),
           pc'[v] = pc[v], job'[v] = job[v], first'[v] = first[v],
           \/ leaves' = leaves
           \/ \E e, by, a : Extends(e, by, a) /\ (pc[v] = "apply" => by # ProcessOf[v])
    PROVE  Retries(v)'
<1>1. /\ Len(leaves) \in Nat /\ Len(leaves') \in Nat /\ Len(leaves) <= Len(leaves')
      /\ \A n \in 1 .. Len(leaves) : leaves'[n] = leaves[n] /\ n \in 1 .. Len(leaves')
      /\ job[v].attempt \in Nat /\ job[v].nonce \in Nat /\ first[v] \in Nat
  BY WorkerTypes, LeavesTyped
<1>2. first'[v] <= Len(leaves') /\ job'[v].attempt = job[v].attempt
  BY <1>1 DEF Retries
<1>3. job[v].attempt <= Cardinality(Others(v, Len(leaves))')
  BY <1>1, OthersGrow DEF Retries
<1>4. ASSUME pc[v] = "apply"
      PROVE  /\ job[v].nonce \in first[v] + 1 .. Len(leaves') + 1
             /\ job[v].attempt <= Cardinality(Others(v, job[v].nonce - 1)')
             /\ \A n \in job[v].nonce .. Len(leaves') : leaves'[n].by # ProcessOf[v]
  <2>1. /\ job[v].nonce \in first[v] + 1 .. Len(leaves) + 1
        /\ job[v].attempt <= Cardinality(Others(v, job[v].nonce - 1))
        /\ \A n \in job[v].nonce .. Len(leaves) : leaves[n].by # ProcessOf[v]
    BY <1>4 DEF Retries
  <2>2. \A n \in 1 .. job[v].nonce - 1 : n \in 1 .. Len(leaves)
    BY <1>1, <2>1
  <2>3. Others(v, job[v].nonce - 1)' = Others(v, job[v].nonce - 1)
    BY <1>1, <2>2 DEF Others
  <2>4. \A n \in job[v].nonce .. Len(leaves') : leaves'[n].by # ProcessOf[v]
    <3>1. CASE leaves' = leaves
      BY <2>1, <3>1
    <3>2. ASSUME NEW e, NEW by, NEW a, Extends(e, by, a), by # ProcessOf[v]
          PROVE  \A n \in job[v].nonce .. Len(leaves') : leaves'[n].by # ProcessOf[v]
      <4>1. /\ Len(leaves') = Len(leaves) + 1
            /\ leaves'[Len(leaves) + 1] = [event |-> e, by |-> by, amount |-> a]
        <5>1. /\ leaves \in Seq(LeafSet) /\ e \in Events \cup {None} /\ a \in Nat
              /\ by \in Processes \cup {Outsider} /\ leaves' = Signed(e, by, a)
          BY <3>2 DEF Extends, Types, TypeOK, LeafSet
        <5>2. QED
          BY <5>1, SignedLeaf
      <4>2. \A n \in job[v].nonce .. Len(leaves') :
                n = Len(leaves) + 1 \/ (n \in job[v].nonce .. Len(leaves) /\ n \in 1 .. Len(leaves))
        BY <1>1, <2>1, <4>1
      <4>3. QED
        BY <1>1, <2>1, <3>2, <4>1, <4>2
    <3>3. QED
      BY <1>4, <3>1, <3>2
  <2>5. job[v].nonce \in first[v] + 1 .. Len(leaves') + 1
    BY <1>1, <2>1
  <2>6. QED
    BY <2>1, <2>3, <2>4, <2>5
<1>5. QED
  BY <1>2, <1>3, <1>4 DEF Retries, Others

\* A payment stays, and a leaf for an event is a payment of it.
LEMMA PaymentsGrow ==
    ASSUME Types, NEW x, leaves' = leaves \/ \E e, by, a : Extends(e, by, a)
    PROVE  Payments(x) \subseteq Payments(x)'
<1>1. \A n \in 1 .. Len(leaves) : leaves'[n] = leaves[n] /\ n \in 1 .. Len(leaves')
  BY LeavesTyped
<1>2. DOMAIN leaves = 1 .. Len(leaves) /\ DOMAIN leaves' = 1 .. Len(leaves')
  BY LeavesTyped, LenProperties DEF Types, TypeOK
<1>3. QED
  BY <1>1, <1>2 DEF Payments

\* The payments of an event are counted, and so are the workers that owe it.
LEMMA Counted ==
    ASSUME Types, NEW x
    PROVE  /\ IsFiniteSet(Payments(x)) /\ Cardinality(Payments(x)) \in Nat
           /\ IsFiniteSet(Owing(x)) /\ Cardinality(Owing(x)) \in Nat
           /\ faults \in Nat
<1>1. IsFiniteSet(DOMAIN leaves)
  BY AmountsType DEF Types, TypeOK, LeafSet
<1>2. IsFiniteSet(Payments(x)) /\ IsFiniteSet(Owing(x))
  BY <1>1, FS_Subset, WorkersAssumption DEF Payments, Owing
<1>3. QED
  BY <1>2, FS_CardinalityType DEF Types

\* A leaf is one payment more of its event, and none of another.
LEMMA PaymentsCount ==
    ASSUME Types, NEW e, NEW by, NEW a, Extends(e, by, a), NEW x
    PROVE  /\ x = e => /\ Payments(x)' = Payments(x) \cup {Len(leaves) + 1}
                       /\ Cardinality(Payments(x)') = Cardinality(Payments(x)) + 1
           /\ x # e => Payments(x)' = Payments(x)
<1>1. /\ Len(leaves) \in Nat
      /\ DOMAIN leaves = 1 .. Len(leaves) /\ DOMAIN leaves' = 1 .. Len(leaves) + 1
      /\ \A n \in 1 .. Len(leaves) : leaves'[n] = leaves[n]
      /\ leaves'[Len(leaves) + 1] = [event |-> e, by |-> by, amount |-> a]
  BY SignedLeaf DEF Extends, Types, TypeOK, LeafSet
<1>2. /\ \A n \in 1 .. Len(leaves) + 1 : n = Len(leaves) + 1 \/ n \in 1 .. Len(leaves)
      /\ \A n \in 1 .. Len(leaves) : n # Len(leaves) + 1 /\ n \in 1 .. Len(leaves) + 1
      /\ Len(leaves) + 1 \in 1 .. Len(leaves) + 1
  BY <1>1
<1>3. leaves'[Len(leaves) + 1].event = e
  BY <1>1
<1>4. x # e => Payments(x)' = Payments(x)
  BY <1>1, <1>2, <1>3 DEF Payments
<1>5. /\ x = e => Payments(x)' = Payments(x) \cup {Len(leaves) + 1}
      /\ Len(leaves) + 1 \notin Payments(x)
  BY <1>1, <1>2, <1>3 DEF Payments
<1>6. Cardinality(Payments(x) \cup {Len(leaves) + 1}) = Cardinality(Payments(x)) + 1
  BY <1>5, Counted, FS_AddElement
<1>7. QED
  BY <1>4, <1>5, <1>6

\* A step of worker w takes it off those that owe, or adds it to them.
LEMMA OwingCount ==
    ASSUME Types, NEW w \in Workers, Frame(w), NEW x
    PROVE  /\ (w \in Owing(x) <=> w \in Owing(x)') => Owing(x)' = Owing(x)
           /\ w \in Owing(x) /\ w \notin Owing(x)' =>
                  Cardinality(Owing(x)') = Cardinality(Owing(x)) - 1
           /\ w \notin Owing(x) /\ w \in Owing(x)' =>
                  Cardinality(Owing(x)') = Cardinality(Owing(x)) + 1
<1>1. \A v \in Workers : v # w => (v \in Owing(x) <=> v \in Owing(x)')
  BY WorkerTypes DEF Frame, Owing
<1>2. Owing(x) \subseteq Workers /\ Owing(x)' \subseteq Workers
  BY DEF Owing
<1>3. (w \in Owing(x) <=> w \in Owing(x)') => Owing(x)' = Owing(x)
  BY <1>1, <1>2
<1>4. w \in Owing(x) /\ w \notin Owing(x)' => Owing(x)' = Owing(x) \ {w}
  BY <1>1, <1>2
<1>5. w \notin Owing(x) /\ w \in Owing(x)' => Owing(x)' = Owing(x) \cup {w}
  BY <1>1, <1>2
<1>6. /\ w \in Owing(x) => Cardinality(Owing(x) \ {w}) = Cardinality(Owing(x)) - 1
      /\ w \notin Owing(x) => Cardinality(Owing(x) \cup {w}) = Cardinality(Owing(x)) + 1
  BY Counted, FS_AddElement, FS_RemoveElement
<1>7. QED
  BY <1>3, <1>4, <1>5, <1>6

\* A reservation that keeps its state and its claims is as free as before.
LEMMA FreeSame ==
    ASSUME Types, NEW w \in Workers, Frame(w), NEW x \in Events, row'[x] = row[x],
           Claims(w, x) <=> Claims(w, x)'
    PROVE  Free(x)' <=> Free(x)
<1>1. \A v \in Workers : v # w => (Claims(v, x) <=> Claims(v, x)')
  BY WorkerTypes DEF Frame, Claims
<1>2. (\E v \in Workers : Claims(v, x)') <=> (\E v \in Workers : Claims(v, x))
  BY <1>1
<1>3. QED
  BY <1>2 DEF Free

\* The sum does not grow by more than the faults.
LEMMA AccountsAdd ==
    ASSUME Types, Types', NEW x \in Events, Accounted(x), NEW dp \in Int, NEW do \in Int,
           Cardinality(Payments(x)') = Cardinality(Payments(x)) + dp,
           Cardinality(Owing(x)') = Cardinality(Owing(x)) + do,
           dp + do + (IF Free(x)' THEN 1 ELSE 0) <=
               (IF Free(x) THEN 1 ELSE 0) + (faults' - faults)
    PROVE  Accounted(x)'
<1>1. /\ Cardinality(Payments(x)) \in Nat /\ Cardinality(Owing(x)) \in Nat
      /\ faults \in Nat /\ faults' \in Nat
  BY Counted DEF Types
<1>2. PICK f, g : f = (IF Free(x) THEN 1 ELSE 0) /\ g = (IF Free(x)' THEN 1 ELSE 0)
  OBVIOUS
<1>3. f \in Int /\ g \in Int /\ dp + do + g <= f + (faults' - faults)
  BY <1>2
<1>4. Cardinality(Payments(x)) + Cardinality(Owing(x)) + f <= 1 + faults
  BY <1>2 DEF Accounted
<1>5. Cardinality(Payments(x)') + Cardinality(Owing(x)') + g <= 1 + faults'
  <2>1. PICK p, o, m, n : /\ p = Cardinality(Payments(x)) /\ o = Cardinality(Owing(x))
                          /\ m = faults /\ n = faults'
    OBVIOUS
  <2>2. /\ p \in Int /\ o \in Int /\ m \in Int /\ n \in Int /\ f \in Int /\ g \in Int
    BY <1>1, <1>3, <2>1
  <2>3. p + o + f <= 1 + m
    BY <1>4, <2>1
  <2>4. dp + do + g <= f + (n - m)
    BY <1>3, <2>1
  <2>5. \A a, b, c, d, h, k, i, j \in Int :
            a + b + c <= 1 + d /\ h + k + i <= c + (j - d) => (a + h) + (b + k) + i <= 1 + j
    OBVIOUS
  <2>6. (p + dp) + (o + do) + g <= 1 + n
    BY <2>2, <2>3, <2>4, <2>5
  <2>7. QED
    BY <2>1, <2>6
<1>6. QED
  BY <1>2, <1>5 DEF Accounted

-----------------------------------------------------------------------------
(* A step of a worker keeps the invariant, if it keeps what concerns it.    *)

\* The types.
LEMMA TypesStep ==
    ASSUME Types, NEW w \in Workers, Steps(w), job'[w] \in Jobs(Len(leaves')),
           first'[w] \in Nat, mutex'[ProcessOf[w]] \in {None, w, mutex[ProcessOf[w]]},
           hash' \in [Events -> 0 .. Len(leaves')]
    PROVE  Types'
<1>1. /\ Frame(w) /\ ProcessOf[w] \in Processes
      /\ leaves' = leaves \/ \E e, by, a : Extends(e, by, a)
  BY Framed, Effects, WorkerTypes DEF Extends
<1>2. /\ leaves' \in Seq(LeafSet) /\ Spent' <= Funds
      /\ Len(leaves) \in Nat /\ Len(leaves') \in Nat /\ Len(leaves) <= Len(leaves')
  BY <1>1, LeavesTyped
<1>3. /\ row' \in [Events -> {"absent", "reserved", "stale", "paid"}]
      /\ faults' \in 0 .. MaxFaults /\ pc'[w] \in Labels
  BY Effects
<1>4. pc' \in [Workers -> Labels]
  BY <1>1, <1>3 DEF Types, TypeOK, Frame, Labels
<1>5. job' \in [Workers -> Jobs(Len(leaves'))]
  <2>1. job \in [Workers -> Jobs(Len(leaves))]
    BY DEF Types, TypeOK, Jobs
  <2>2. \A j \in Jobs(Len(leaves)) : j \in Jobs(Len(leaves'))
    BY <1>2 DEF Jobs
  <2>3. job \in [Workers -> Jobs(Len(leaves'))]
    BY <2>1, <2>2
  <2>4. QED
    BY <1>1, <2>3 DEF Frame
<1>6. first' \in [Workers -> Nat]
  BY <1>1 DEF Types, Frame
<1>7. /\ mutex' = [q \in Processes |-> mutex'[q]]
      /\ \A q \in Processes : mutex'[q] \in {None} \cup {v \in Workers : ProcessOf[v] = q}
  <2>1. /\ mutex = [q \in Processes |-> mutex[q]]
        /\ \A q \in Processes : mutex[q] \in {None} \cup {v \in Workers : ProcessOf[v] = q}
    BY DEF Types, TypeOK
  <2>2. /\ mutex' = [q \in Processes |-> mutex'[q]]
        /\ \A q \in Processes : q # ProcessOf[w] => mutex'[q] = mutex[q]
    BY <1>1, <2>1 DEF Frame
  <2>3. mutex'[ProcessOf[w]] \in {None} \cup {v \in Workers : ProcessOf[v] = ProcessOf[w]}
    BY <1>1, <2>1
  <2>4. QED
    BY <2>1, <2>2, <2>3
<1>8. amount' \in [Events -> Amounts]
  BY <1>1 DEF Types, TypeOK, Frame
<1>9. QED
  BY <1>2, <1>3, <1>4, <1>5, <1>6, <1>7, <1>8 DEF Types, TypeOK, Labels, Jobs, LeafSet

\* The mutex: nobody takes it from a worker that has it.
LEMMA ExclusiveStep ==
    ASSUME Inv, NEW w \in Workers, Steps(w),
           pc'[w] \in {"sign", "apply"} => mutex'[ProcessOf[w]] = w,
           mutex'[ProcessOf[w]] # mutex[ProcessOf[w]] => mutex[ProcessOf[w]] \in {None, w}
    PROVE  Exclusive'
<1>1. Types /\ Frame(w) /\ ProcessOf[w] \in Processes
  BY Framed, WorkerTypes DEF Inv
<1>2. ASSUME NEW v \in Workers, v # w, pc'[v] \in {"sign", "apply"}
      PROVE  mutex'[ProcessOf[v]] = v
  <2>1. pc[v] = pc'[v] /\ mutex[ProcessOf[v]] = v /\ v # None /\ ProcessOf[v] \in Processes
    BY <1>1, <1>2, WorkerTypes, NamesAssumption DEF Inv, Exclusive, Frame
  <2>2. ProcessOf[v] # ProcessOf[w] => mutex'[ProcessOf[v]] = mutex[ProcessOf[v]]
    BY <1>1, <2>1 DEF Frame, Types
  <2>3. QED
    BY <1>2, <2>1, <2>2
<1>3. QED
  BY <1>2 DEF Exclusive

\* The attempts of the other workers: those of the same process do not apply.
LEMMA RetriesStep ==
    ASSUME Inv, NEW w \in Workers, Steps(w), Retries(w)'
    PROVE  \A v \in Workers : Retries(v)'
<1>1. Types /\ Frame(w)
  BY Framed DEF Inv
<1>2. ASSUME NEW v \in Workers, v # w
      PROVE  Retries(v)'
  <2>1. pc'[v] = pc[v] /\ job'[v] = job[v] /\ first'[v] = first[v]
    BY <1>1, <1>2, WorkerTypes DEF Frame, Types
  <2>2. \/ leaves' = leaves
        \/ \E e, by, a : Extends(e, by, a) /\ (pc[v] = "apply" => by # ProcessOf[v])
    <3>1. CASE leaves' = leaves
      BY <3>1
    <3>2. CASE leaves' # leaves
      <4>1. Extends(job[w].event, ProcessOf[w], job[w].amount) /\ pc[w] = "apply"
        BY <1>1, <3>2, Effects, WorkerTypes DEF Extends
      <4>2. pc[v] = "apply" => ProcessOf[w] # ProcessOf[v]
        BY <1>2, <4>1 DEF Inv, Exclusive
      <4>3. QED
        BY <4>1, <4>2
    <3>3. QED
      BY <3>1, <3>2
  <2>3. QED
    BY <1>1, <2>1, <2>2, KeepsRetries DEF Inv
<1>3. QED
  BY <1>2

\* The rows that are completed, or about to be.
LEMMA CompletedStep ==
    ASSUME Inv, NEW w \in Workers, Steps(w),
           \A e \in Events : row'[e] = "paid" =>
               hash'[e] \in Payments(e)' \/ (row[e] = "paid" /\ hash'[e] = hash[e]),
           pc'[w] = "complete" => (job[w].leaf \in Payments(job[w].event))'
    PROVE  Completed'
<1>1. /\ Types /\ Frame(w) /\ Completed
      /\ leaves' = leaves \/ \E e, by, a : Extends(e, by, a)
  BY Framed, Effects, WorkerTypes DEF Inv, Extends
<1>2. \A e \in Events : row'[e] = "paid" => hash'[e] \in Payments(e)'
  BY <1>1, PaymentsGrow DEF Completed
<1>3. ASSUME NEW v \in Workers, v # w, pc'[v] = "complete"
      PROVE  (job[v].leaf \in Payments(job[v].event))'
  <2>1. pc[v] = "complete" /\ job'[v] = job[v]
    BY <1>1, <1>3, WorkerTypes DEF Frame
  <2>2. PICK e : e = job[v].event
    OBVIOUS
  <2>3. job[v].leaf \in Payments(e)'
    BY <1>1, <2>1, <2>2, PaymentsGrow DEF Completed
  <2>4. QED
    BY <2>1, <2>2, <2>3 DEF Payments
<1>4. QED
  BY <1>2, <1>3 DEF Completed, Payments

\* The first attempt of a worker needs no leaf of others.
LEMMA FirstAttempt ==
    ASSUME Types', NEW w \in Workers, job'[w].attempt = 0, first'[w] <= Len(leaves'),
           pc'[w] # "apply"
    PROVE  Retries(w)'
<1>1. Len(leaves') \in Nat
  BY LenProperties DEF Types, TypeOK
<1>2. IsFiniteSet(Others(w, Len(leaves))')
  <2>1. IsFiniteSet(1 .. Len(leaves'))
    BY <1>1, FS_Interval
  <2>2. QED
    BY <2>1, FS_Subset DEF Others
<1>3. 0 <= Cardinality(Others(w, Len(leaves))')
  BY <1>2, FS_CardinalityType
<1>4. QED
  BY <1>3 DEF Retries

\* Nor does a worker that goes on without another attempt need one more.
LEMMA SameAttempt ==
    ASSUME Types, NEW w \in Workers, Retries(w), job'[w].attempt = job[w].attempt,
           first'[w] = first[w], pc'[w] \in {"release", "complete"},
           leaves' = leaves \/ \E e, by, a : Extends(e, by, a)
    PROVE  Retries(w)'
<1>1. /\ Len(leaves) \in Nat /\ Len(leaves') \in Nat /\ Len(leaves) <= Len(leaves')
      /\ first[w] \in Nat /\ job[w].attempt \in Nat
  BY LeavesTyped, WorkerTypes
<1>2. job[w].attempt <= Cardinality(Others(w, Len(leaves))')
  BY <1>1, OthersGrow DEF Retries
<1>3. first'[w] <= Len(leaves')
  BY <1>1 DEF Retries
<1>4. QED
  BY <1>2, <1>3 DEF Retries

\* What may be paid of event x stays the same when nothing about x changes.
LEMMA AccountedSame ==
    ASSUME Types, Types', NEW w \in Workers, Frame(w), NEW x \in Events, Accounted(x),
           Payments(x)' = Payments(x), row'[x] = row[x], faults <= faults',
           w \in Owing(x) <=> w \in Owing(x)', Claims(w, x) <=> Claims(w, x)'
    PROVE  Accounted(x)'
<1>1. Owing(x)' = Owing(x) /\ (Free(x)' <=> Free(x))
  BY OwingCount, FreeSame
<1>2. /\ Cardinality(Payments(x)) \in Nat /\ Cardinality(Owing(x)) \in Nat
      /\ faults \in Nat /\ faults' \in Nat
  BY Counted DEF Types
<1>3. PICK p, o, f : /\ p = Cardinality(Payments(x)) /\ o = Cardinality(Owing(x))
                     /\ f = (IF Free(x) THEN 1 ELSE 0)
  OBVIOUS
<1>4. p + o + f <= 1 + faults /\ p + o + f \in Int
  BY <1>2, <1>3 DEF Accounted
<1>5. p + o + f <= 1 + faults'
  BY <1>2, <1>4
<1>6. QED
  BY <1>1, <1>3, <1>5 DEF Accounted

\* Nothing about event x changes in a step of a worker that has another job.
LEMMA AccountedElsewhere ==
    ASSUME Types, Types', NEW w \in Workers, Steps(w), NEW x \in Events, Accounted(x),
           x # job[w].event, pc'[w] \in {"idle", "sweep"} \/ job'[w].event = job[w].event
    PROVE  Accounted(x)'
<1>1. Frame(w) /\ faults <= faults'
  BY Framed, Effects
<1>2. Payments(x)' = Payments(x)
  <2>1. CASE leaves' = leaves
    BY <2>1 DEF Payments
  <2>2. CASE leaves' # leaves
    <3>1. Extends(job[w].event, ProcessOf[w], job[w].amount)
      BY <2>2, Effects, WorkerTypes DEF Extends
    <3>2. QED
      BY <3>1, PaymentsCount
  <2>3. QED
    BY <2>1, <2>2
<1>3. row'[x] = row[x]
  <2>1. CASE Sweep(w) \/ Reserve(w) \/ Release(w) \/ Complete(w)
    <3>1. row' = row \/ \E v : row' = [row EXCEPT ![job[w].event] = v]
      BY <2>1 DEF Sweep, Reserve, Release, Complete
    <3>2. row = [e \in Events |-> row[e]]
      BY DEF Types, TypeOK
    <3>3. QED
      BY <3>1, <3>2
  <2>2. CASE row' = row
    BY <2>2
  <2>3. QED
    BY <2>1, <2>2 DEF Steps, Proceed, LockMutex, Sign, ApplyAccepted, ApplyRefused,
       LoseReply, DbError, GetRewardAmount, Fail, table
<1>4. ~ Claims(w, x) /\ ~ Claims(w, x)' /\ w \notin Owing(x) /\ w \notin Owing(x)'
  BY DEF Claims, Owing
<1>5. QED
  BY <1>1, <1>2, <1>3, <1>4, AccountedSame

-----------------------------------------------------------------------------
(* The steps of a worker.                                                   *)

\* The steps that leave the tables alone.
LEMMA LocalStep ==
    ASSUME Inv, NEW w \in Workers, Steps(w), UNCHANGED <<leaves, row, hash>>,
           job'[w] \in Jobs(Len(leaves)), first'[w] \in Nat,
           mutex'[ProcessOf[w]] \in {None, w, mutex[ProcessOf[w]]},
           pc'[w] \in {"sign", "apply"} => mutex'[ProcessOf[w]] = w,
           mutex'[ProcessOf[w]] # mutex[ProcessOf[w]] => mutex[ProcessOf[w]] \in {None, w},
           Types' => Retries(w)', pc'[w] # "complete",
           \A x \in Events : /\ w \in Owing(x) <=> w \in Owing(x)'
                             /\ Claims(w, x) <=> Claims(w, x)'
    PROVE  Inv'
<1>1. Types /\ hash \in [Events -> 0 .. Len(leaves)]
  BY DEF Inv, Types, TypeOK
<1>2. Types'
  BY <1>1, TypesStep
<1>3. Exclusive' /\ \A v \in Workers : Retries(v)'
  BY <1>2, ExclusiveStep, RetriesStep
<1>4. Completed'
  BY CompletedStep
<1>5. Frame(w) /\ faults <= faults'
  BY <1>1, Framed, Effects
<1>6. \A x \in Events : Payments(x)' = Payments(x) /\ row'[x] = row[x] /\ Accounted(x)
  BY DEF Payments, Inv
<1>7. \A x \in Events : Accounted(x)'
  BY <1>1, <1>2, <1>5, <1>6, AccountedSame
<1>8. QED
  BY <1>2, <1>3, <1>4, <1>7 DEF Inv

\* A worker starts.
LEMMA StartStep ==
    ASSUME Inv, NEW w \in Workers, NEW e \in Events, GetRewardAmount(w, e)
    PROVE  Inv'
<1>1. Types /\ Steps(w) /\ Retries(w)
  BY DEF Inv, Steps
<1>2. /\ pc[w] = "idle" /\ pc'[w] = "sweep" /\ first' = first /\ mutex' = mutex
      /\ job'[w] = [NoJob EXCEPT !.event = e, !.amount = amount[e]]
      /\ UNCHANGED <<leaves, row, hash>>
  BY <1>1, WorkerTypes DEF GetRewardAmount, Goto, table
<1>3. job'[w] \in Jobs(Len(leaves)) /\ job'[w].attempt = 0 /\ first'[w] \in Nat
  <2>1. job'[w] = [event |-> e, amount |-> amount[e], nonce |-> 0, attempt |-> 0, leaf |-> 0]
    BY <1>2 DEF NoJob
  <2>2. amount[e] \in Amounts /\ Len(leaves) \in Nat /\ first[w] \in Nat
    BY <1>1, WorkerTypes DEF Types, TypeOK
  <2>3. 0 \in 0 .. MaxAttempts - 1 /\ 0 \in 0 .. Len(leaves)
    BY <2>2, BoundsAssumption
  <2>4. [event |-> e, amount |-> amount[e], nonce |-> 0, attempt |-> 0, leaf |-> 0]
            \in Jobs(Len(leaves))
    BY <2>2, <2>3 DEF Jobs
  <2>5. job'[w] \in Jobs(Len(leaves))
    BY <2>1, <2>4
  <2>6. job'[w].attempt = 0
    BY <2>1
  <2>7. QED
    BY <1>2, <2>2, <2>5, <2>6
<1>4. Types' => Retries(w)'
  BY <1>1, <1>2, <1>3, FirstAttempt DEF Retries
<1>5. \A x \in Events : /\ w \notin Owing(x) /\ w \notin Owing(x)'
                        /\ ~ Claims(w, x) /\ ~ Claims(w, x)'
  BY <1>2 DEF Owing, Claims
<1>6. QED
  BY <1>1, <1>2, <1>3, <1>4, <1>5, LocalStep

\* A worker ends: the event is taken, or a statement failed that changed nothing.
LEMMA EndStep ==
    ASSUME Inv, NEW w \in Workers, Steps(w), pc[w] \in {"sweep", "reserve"}, End(w),
           UNCHANGED <<leaves, row, hash, mutex>>
    PROVE  Inv'
<1>1. Types /\ pc'[w] = "idle" /\ job'[w] = NoJob /\ first'[w] = 0
  BY Ending DEF Inv
<1>2. job'[w] \in Jobs(Len(leaves)) /\ job'[w].attempt = 0 /\ Len(leaves) \in Nat
  BY <1>1, WorkerTypes DEF NoJob
<1>3. Types' => Retries(w)'
  BY <1>1, <1>2, FirstAttempt
<1>4. \A x \in Events : /\ w \notin Owing(x) /\ w \notin Owing(x)'
                        /\ ~ Claims(w, x) /\ ~ Claims(w, x)'
  BY <1>1 DEF Owing, Claims
<1>5. QED
  BY <1>1, <1>2, <1>3, <1>4, LocalStep

\* A worker waits for the mutex, and gets it.
LEMMA LockStep ==
    ASSUME Inv, NEW w \in Workers, LockMutex(w)
    PROVE  Inv'
<1>1. Types /\ Steps(w) /\ Retries(w) /\ ProcessOf[w] \in Processes
  BY WorkerTypes DEF Inv, Steps
<1>2. /\ pc[w] = "lock" /\ pc'[w] = "sign" /\ first' = first /\ job' = job
      /\ mutex[ProcessOf[w]] = None /\ mutex'[ProcessOf[w]] = w
      /\ UNCHANGED <<leaves, row, hash>>
  BY <1>1, WorkerTypes DEF LockMutex, MutexFree, Goto, table, Types
<1>3. /\ job'[w] \in Jobs(Len(leaves)) /\ job'[w].attempt = 0 /\ first'[w] \in Nat
      /\ first'[w] <= Len(leaves)
  BY <1>1, <1>2, WorkerTypes DEF Retries
<1>4. Types' => Retries(w)'
  BY <1>2, <1>3, FirstAttempt
<1>5. \A x \in Events : /\ w \in Owing(x) <=> w \in Owing(x)'
                        /\ Claims(w, x) <=> Claims(w, x)'
  BY <1>2 DEF Owing, Claims
<1>6. QED
  BY <1>1, <1>2, <1>3, <1>4, <1>5, LocalStep

\* A worker fails without a leaf, and gives the mutex back.
LEMMA FailStep ==
    ASSUME Inv, NEW w \in Workers, Steps(w), pc[w] \in {"sign", "apply"}, Fail(w),
           leaves' = leaves, Types' => Retries(w)', first'[w] \in Nat
    PROVE  Inv'
<1>1. /\ Types /\ pc'[w] = "release" /\ job'[w] = job[w] /\ row' = row /\ hash' = hash
      /\ mutex[ProcessOf[w]] = w /\ mutex'[ProcessOf[w]] = None
  BY Failing DEF Inv, Exclusive
<1>2. job'[w] \in Jobs(Len(leaves))
  BY <1>1, WorkerTypes
<1>3. \A x \in Events : /\ w \in Owing(x) <=> w \in Owing(x)'
                        /\ Claims(w, x) <=> Claims(w, x)'
  BY <1>1 DEF Owing, Claims
<1>4. QED
  BY <1>1, <1>2, <1>3, LocalStep

\* A worker reads the nonce, for the first time or again.
LEMMA SignStep ==
    ASSUME Inv, NEW w \in Workers, Sign(w)
    PROVE  Inv'
<1>1. /\ Types /\ Steps(w) /\ Retries(w) /\ pc[w] = "sign" /\ mutex[ProcessOf[w]] = w
      /\ leaves' = leaves
  BY DEF Inv, Exclusive, Steps, Proceed, Sign
<1>2. /\ Len(leaves) \in Nat /\ job[w].attempt \in Nat /\ first[w] \in Nat
      /\ first[w] <= Len(leaves) /\ job[w].attempt <= Cardinality(Others(w, Len(leaves)))
  BY <1>1, WorkerTypes DEF Retries
<1>3. first'[w] = IF job[w].attempt = 0 THEN Len(leaves) ELSE first[w]
  BY <1>1 DEF Sign, Nonce, Types
<1>4. first'[w] \in Nat /\ first'[w] <= Len(leaves')
  BY <1>1, <1>2, <1>3
<1>5. Types' => job[w].attempt <= Cardinality(Others(w, Len(leaves))')
  <2>1. CASE job[w].attempt = 0
    <3>1. ASSUME Types'
          PROVE  0 <= Cardinality(Others(w, Len(leaves))')
      <4>1. IsFiniteSet(1 .. Len(leaves'))
        BY <1>1, <1>2, FS_Interval
      <4>2. IsFiniteSet(Others(w, Len(leaves))')
        BY <4>1, FS_Subset DEF Others
      <4>3. QED
        BY <4>2, FS_CardinalityType
    <3>2. QED
      BY <2>1, <3>1
  <2>2. CASE job[w].attempt # 0
    <3>1. Others(w, Len(leaves))' = Others(w, Len(leaves))
      BY <1>1, <1>3, <2>2 DEF Others
    <3>2. QED
      BY <1>2, <3>1
  <2>3. QED
    BY <2>1, <2>2
<1>6. CASE Fail(w)
  <2>1. pc'[w] = "release" /\ job'[w] = job[w]
    BY <1>1, <1>6, Failing
  <2>2. Types' => Retries(w)'
    BY <1>4, <1>5, <2>1 DEF Retries
  <2>3. QED
    BY <1>1, <1>4, <1>6, <2>2, FailStep
<1>7. CASE ~ Fail(w)
  <2>1. /\ pc'[w] = "apply" /\ mutex' = mutex /\ UNCHANGED <<row, hash>>
        /\ job'[w] = [job[w] EXCEPT !.nonce = Len(leaves) + 1]
    BY <1>1, <1>7, WorkerTypes DEF Sign, Nonce, Goto, table
  <2>2. /\ job'[w] \in Jobs(Len(leaves)) /\ job'[w].nonce = Len(leaves) + 1
        /\ job'[w].attempt = job[w].attempt /\ job'[w].event = job[w].event
    <3>1. job[w] \in Jobs(Len(leaves)) /\ Len(leaves) + 1 \in Nat
      BY <1>1, <1>2, WorkerTypes
    <3>2. QED
      BY <2>1, <3>1, WithNonce
  <2>3. Types' => Retries(w)'
    <3>1. job'[w].nonce \in first'[w] + 1 .. Len(leaves') + 1 /\ job'[w].nonce - 1 = Len(leaves')
      BY <1>1, <1>2, <1>4, <2>2
    <3>2. \A n \in job'[w].nonce .. Len(leaves') : FALSE
      BY <1>1, <1>2, <2>2
    <3>3. Others(w, job[w].nonce - 1)' = Others(w, Len(leaves))'
      BY <3>1 DEF Others
    <3>4. QED
      BY <1>4, <1>5, <2>1, <2>2, <3>1, <3>2, <3>3 DEF Retries
  <2>4. \A x \in Events : /\ w \in Owing(x) <=> w \in Owing(x)'
                          /\ Claims(w, x) <=> Claims(w, x)'
    BY <1>1, <2>1, <2>2 DEF Owing, Claims
  <2>5. QED
    BY <1>1, <1>4, <2>1, <2>2, <2>3, <2>4, LocalStep
<1>8. QED
  BY <1>6, <1>7

\* A refused nonce was used by somebody else since the worker has read it.
LEMMA RefusedStep ==
    ASSUME Inv, NEW w \in Workers, ApplyRefused(w)
    PROVE  Inv'
<1>1. /\ Types /\ Steps(w) /\ Retries(w) /\ pc[w] = "apply" /\ mutex[ProcessOf[w]] = w
      /\ leaves' = leaves /\ first' = first
  BY DEF Inv, Exclusive, Steps, Proceed, ApplyRefused
<1>2. /\ Len(leaves) \in Nat /\ job[w].attempt \in Nat /\ first[w] \in Nat /\ job[w].nonce \in Nat
      /\ first[w] <= Len(leaves) /\ first'[w] \in Nat
  BY <1>1, WorkerTypes DEF Retries
<1>3. CASE Fail(w)
  <2>1. pc'[w] = "release" /\ job'[w] = job[w]
    BY <1>1, <1>3, Failing
  <2>2. Retries(w)'
    BY <1>1, <2>1, SameAttempt
  <2>3. QED
    BY <1>1, <1>2, <1>3, <2>2, FailStep
<1>4. CASE ~ Fail(w)
  <2>1. /\ ~ NonceAccepted(w) /\ job[w].attempt + 1 < MaxAttempts
        /\ pc'[w] = "sign" /\ mutex' = mutex /\ UNCHANGED <<row, hash>>
        /\ job'[w] = [job[w] EXCEPT !.attempt = job[w].attempt + 1]
    BY <1>1, <1>4, WorkerTypes DEF ApplyRefused, Goto, table
  <2>2. /\ job'[w] \in Jobs(Len(leaves)) /\ job'[w].attempt = job[w].attempt + 1
        /\ job'[w].event = job[w].event
    <3>1. job[w] \in Jobs(Len(leaves)) /\ job[w].attempt + 1 \in 0 .. MaxAttempts - 1
      BY <1>1, <1>2, <2>1, WorkerTypes
    <3>2. QED
      BY <2>1, <3>1, WithAttempt
  <2>3. job[w].attempt + 1 <= Cardinality(Others(w, Len(leaves)))
    <3> PICK n, all, some : /\ n = job[w].nonce /\ all = Others(w, Len(leaves))
                            /\ some = Others(w, n - 1)
      OBVIOUS
    <3>1. /\ n \in first[w] + 1 .. Len(leaves) + 1 /\ job[w].attempt <= Cardinality(some)
          /\ \A m \in n .. Len(leaves) : leaves[m].by # ProcessOf[w]
      BY <1>1 DEF Retries
    <3>2. n # Len(leaves) + 1
      BY <2>1 DEF NonceAccepted, Nonce
    <3>3. n \in 1 .. Len(leaves) /\ n \in n .. Len(leaves) /\ n > first[w] /\ n \notin 1 .. n - 1
      BY <1>2, <3>1, <3>2
    <3>4. \A m \in 1 .. n - 1 : m \in 1 .. Len(leaves)
      BY <1>2, <3>3
    <3>5. some \cup {n} \subseteq all /\ n \notin some
      BY <3>1, <3>3, <3>4 DEF Others
    <3>6. IsFiniteSet(all)
      <4>1. IsFiniteSet(1 .. Len(leaves))
        <5>1. Len(leaves) \in Int /\ 1 \in Int
          BY <1>2
        <5>2. QED
          BY <5>1, FS_Interval
      <4>2. QED
        BY <4>1, FS_Subset DEF Others
    <3>7. IsFiniteSet(some) /\ IsFiniteSet(some \cup {n})
      BY <3>5, <3>6, FS_Subset
    <3>8. /\ Cardinality(some \cup {n}) = Cardinality(some) + 1
          /\ Cardinality(some \cup {n}) <= Cardinality(all)
          /\ Cardinality(some) \in Nat /\ Cardinality(all) \in Nat
      BY <3>5, <3>6, <3>7, FS_AddElement, FS_Subset, FS_CardinalityType
    <3>9. QED
      BY <1>2, <3>1, <3>8
  <2>4. Retries(w)'
    <3>1. Others(w, Len(leaves))' = Others(w, Len(leaves))
      BY <1>1 DEF Others
    <3>2. QED
      BY <1>1, <1>2, <2>1, <2>2, <2>3, <3>1 DEF Retries
  <2>5. \A x \in Events : /\ w \in Owing(x) <=> w \in Owing(x)'
                          /\ Claims(w, x) <=> Claims(w, x)'
    BY <1>1, <2>1, <2>2 DEF Owing, Claims
  <2>6. QED
    BY <1>1, <1>2, <2>1, <2>2, <2>4, <2>5, LocalStep
<1>5. QED
  BY <1>3, <1>4

-----------------------------------------------------------------------------
(* The steps of a worker that change a table.                               *)

\* What worker w pays, owes and frees of event x adds up, with its fault.
LEMMA Balanced ==
    ASSUME Types, Types', NEW w \in Workers, Frame(w), NEW x \in Events, Accounted(x),
           NEW dp \in Int, Cardinality(Payments(x)') = Cardinality(Payments(x)) + dp,
           dp + (IF w \in Owing(x)' THEN 1 ELSE 0) + (IF Free(x)' THEN 1 ELSE 0) <=
               (IF w \in Owing(x) THEN 1 ELSE 0) + (IF Free(x) THEN 1 ELSE 0)
               + (faults' - faults)
    PROVE  Accounted(x)'
<1>1. Cardinality(Owing(x)) \in Nat /\ faults \in Int /\ faults' \in Int
  BY Counted DEF Types
<1>2. PICK o, p : o = (IF w \in Owing(x) THEN 1 ELSE 0) /\ p = (IF w \in Owing(x)' THEN 1 ELSE 0)
  OBVIOUS
<1>3. PICK f, g : f = (IF Free(x) THEN 1 ELSE 0) /\ g = (IF Free(x)' THEN 1 ELSE 0)
  OBVIOUS
<1>4. o \in Int /\ p \in Int /\ f \in Int /\ g \in Int
  BY <1>2, <1>3
<1>5. dp + p + g <= o + f + (faults' - faults)
  BY <1>2, <1>3
<1>6. p - o \in Int /\ dp + (p - o) + g <= f + (faults' - faults)
  <2>1. \A a, b, c, d, h, m, n \in Int : a + b + c <= d + h + (m - n) =>
            a + (b - d) + c <= h + (m - n)
    OBVIOUS
  <2>2. PICK m, n : m = faults' /\ n = faults /\ m \in Int /\ n \in Int
    BY <1>1
  <2>3. dp + p + g <= o + f + (m - n)
    BY <1>5, <2>2
  <2>4. dp + (p - o) + g <= f + (m - n)
    BY <1>4, <2>1, <2>2, <2>3
  <2>5. p - o \in Int
    BY <1>4
  <2>6. dp + (p - o) + g <= f + (faults' - faults)
    BY <2>2, <2>4
  <2>7. QED
    BY <2>5, <2>6
<1>7. Cardinality(Owing(x)') = Cardinality(Owing(x)) + (p - o)
  <2>1. CASE w \in Owing(x) <=> w \in Owing(x)'
    <3>1. Owing(x)' = Owing(x) /\ p - o = 0
      BY <1>2, <2>1, OwingCount
    <3>2. QED
      BY <1>1, <3>1
  <2>2. CASE w \in Owing(x) /\ w \notin Owing(x)'
    <3>1. Cardinality(Owing(x)') = Cardinality(Owing(x)) - 1 /\ o = 1 /\ p = 0
      BY <1>2, <2>2, OwingCount
    <3>2. QED
      BY <1>1, <3>1
  <2>3. CASE w \notin Owing(x) /\ w \in Owing(x)'
    <3>1. Cardinality(Owing(x)') = Cardinality(Owing(x)) + 1 /\ o = 0 /\ p = 1
      BY <1>2, <2>3, OwingCount
    <3>2. QED
      BY <1>1, <3>1
  <2>4. QED
    BY <2>1, <2>2, <2>3
<1>8. dp + (p - o) + (IF Free(x)' THEN 1 ELSE 0) <= (IF Free(x) THEN 1 ELSE 0) + (faults' - faults)
  BY <1>3, <1>6
<1>9. QED
  BY <1>6, <1>7, <1>8, AccountsAdd

\* What is left to show of a step: what concerns the worker and its event.
LEMMA WorkerStep ==
    ASSUME Inv, NEW w \in Workers, Steps(w), job'[w] \in Jobs(Len(leaves')), first'[w] \in Nat,
           mutex'[ProcessOf[w]] \in {None, mutex[ProcessOf[w]]},
           pc'[w] \notin {"sign", "apply"},
           mutex'[ProcessOf[w]] # mutex[ProcessOf[w]] => mutex[ProcessOf[w]] \in {None, w},
           hash' \in [Events -> 0 .. Len(leaves')],
           \A e \in Events : row'[e] = "paid" =>
               hash'[e] \in Payments(e)' \/ (row[e] = "paid" /\ hash'[e] = hash[e]),
           pc'[w] = "complete" => (job[w].leaf \in Payments(job[w].event))',
           pc'[w] \in {"idle", "sweep"} \/ job'[w].event = job[w].event,
           Types' => Retries(w)',
           Types' => \A x \in Events : x = job[w].event => Accounted(x)'
    PROVE  Inv'
<1>1. Types'
  <2>1. mutex'[ProcessOf[w]] \in {None, w, mutex[ProcessOf[w]]}
    OBVIOUS
  <2>2. QED
    BY <2>1, TypesStep DEF Inv
<1>2. Exclusive'
  <2>1. pc'[w] \in {"sign", "apply"} => mutex'[ProcessOf[w]] = w
    OBVIOUS
  <2>2. QED
    BY <2>1, ExclusiveStep
<1>3. \A v \in Workers : Retries(v)'
  BY <1>1, RetriesStep
<1>4. Completed'
  BY CompletedStep
<1>5. ASSUME NEW x \in Events
      PROVE  Accounted(x)'
  <2>1. CASE x = job[w].event
    BY <1>1, <2>1
  <2>2. CASE x # job[w].event
    BY <1>1, <2>2, AccountedElsewhere DEF Inv
  <2>3. QED
    BY <2>1, <2>2
<1>6. QED
  BY <1>1, <1>2, <1>3, <1>4, <1>5 DEF Inv

\* A statement about the row of the event: what it does to the reservation and to
\* the claim of the worker adds up.
LEMMA TableStep ==
    ASSUME Inv, NEW w \in Workers, Steps(w), UNCHANGED <<leaves, mutex, hash>>,
           job'[w] \in Jobs(Len(leaves)), first'[w] \in Nat, first'[w] <= Len(leaves),
           job'[w].attempt = 0, pc'[w] \in {"idle", "reserve", "lock"},
           pc'[w] = "idle" \/ job'[w].event = job[w].event,
           \A e \in Events : row'[e] = "paid" => row[e] = "paid",
           \A x \in Events : x = job[w].event =>
               (IF w \in Owing(x)' THEN 1 ELSE 0) + (IF Free(x)' THEN 1 ELSE 0) <=
                   (IF w \in Owing(x) THEN 1 ELSE 0) + (IF Free(x) THEN 1 ELSE 0)
                   + (faults' - faults)
    PROVE  Inv'
<1>1. Types /\ Frame(w) /\ hash \in [Events -> 0 .. Len(leaves)]
  BY Framed DEF Inv, Types, TypeOK
<1>2. Types' => Retries(w)'
  BY FirstAttempt
<1>3. ASSUME Types', NEW x \in Events, x = job[w].event
      PROVE  Accounted(x)'
  <2>1. PICK o, p : o = (IF w \in Owing(x) THEN 1 ELSE 0) /\ p = (IF w \in Owing(x)' THEN 1 ELSE 0)
    OBVIOUS
  <2>2. PICK f, g : f = (IF Free(x) THEN 1 ELSE 0) /\ g = (IF Free(x)' THEN 1 ELSE 0)
    OBVIOUS
  <2>3. p + g <= o + f + (faults' - faults)
    BY <1>3, <2>1, <2>2
  <2>4. o \in Int /\ p \in Int /\ f \in Int /\ g \in Int
    BY <2>1, <2>2
  <2>5. 0 + p + g <= o + f + (faults' - faults)
    BY <2>3, <2>4
  <2>6. 0 \in Int /\ 0 + (IF w \in Owing(x)' THEN 1 ELSE 0) + (IF Free(x)' THEN 1 ELSE 0) <=
            (IF w \in Owing(x) THEN 1 ELSE 0) + (IF Free(x) THEN 1 ELSE 0) + (faults' - faults)
    BY <2>1, <2>2, <2>5
  <2>7. Cardinality(Payments(x)') = Cardinality(Payments(x)) + 0
    <3>1. Payments(x)' = Payments(x) /\ Cardinality(Payments(x)) \in Nat
      BY <1>1, Counted DEF Payments
    <3>2. QED
      BY <3>1
  <2>8. Accounted(x)
    BY DEF Inv
  <2>9. QED
    BY <1>1, <1>3, <2>6, <2>7, <2>8, Balanced
<1>4. \A e \in Events : row'[e] = "paid" =>
          hash'[e] \in Payments(e)' \/ (row[e] = "paid" /\ hash'[e] = hash[e])
  OBVIOUS
<1>5. /\ mutex'[ProcessOf[w]] \in {None, mutex[ProcessOf[w]]}
      /\ mutex'[ProcessOf[w]] # mutex[ProcessOf[w]] => mutex[ProcessOf[w]] \in {None, w}
      /\ pc'[w] \notin {"sign", "apply"} /\ pc'[w] # "complete"
      /\ pc'[w] \in {"idle", "sweep"} \/ job'[w].event = job[w].event
      /\ job'[w] \in Jobs(Len(leaves')) /\ hash' \in [Events -> 0 .. Len(leaves')]
  BY <1>1
<1>6. Types' => \A x \in Events : x = job[w].event => Accounted(x)'
  BY <1>3
<1>7. QED
  BY <1>2, <1>4, <1>5, <1>6, WorkerStep

\* A stale reservation is as free as none.
LEMMA SweepStep ==
    ASSUME Inv, NEW w \in Workers, Sweep(w)
    PROVE  Inv'
<1>1. Types /\ Steps(w) /\ Retries(w) /\ Frame(w)
  BY Framed DEF Inv, Steps, Proceed
<1>2. /\ pc[w] = "sweep" /\ pc'[w] = "reserve" /\ job' = job /\ first' = first
      /\ UNCHANGED <<leaves, mutex, hash, faults>>
      /\ row' = [row EXCEPT ![job[w].event] = IF row[job[w].event] = "stale" THEN "absent" ELSE @]
      /\ row \in [Events -> {"absent", "reserved", "stale", "paid"}]
  BY <1>1, WorkerTypes DEF Sweep, Sweeps, Goto, bounds, Types, TypeOK
<1>3. /\ job'[w] \in Jobs(Len(leaves)) /\ job'[w].attempt = 0 /\ first'[w] \in Nat
      /\ first'[w] <= Len(leaves) /\ faults \in Nat
  BY <1>1, <1>2, WorkerTypes DEF Retries, Types
<1>4. \A e \in Events : row'[e] = "paid" => row[e] = "paid"
  BY <1>2
<1>5. ASSUME NEW x \in Events, x = job[w].event
      PROVE  w \notin Owing(x) /\ w \notin Owing(x)' /\ (Free(x)' <=> Free(x))
  <2>1. w \notin Owing(x) /\ w \notin Owing(x)' /\ (Claims(w, x) <=> Claims(w, x)')
    BY <1>2 DEF Owing, Claims
  <2>2. CASE row[x] = "stale"
    <3>1. row'[x] = "absent"
      BY <1>2, <1>5, <2>2
    <3>2. QED
      BY <2>1, <2>2, <3>1 DEF Free
  <2>3. CASE row[x] # "stale"
    <3>1. row'[x] = row[x]
      BY <1>2, <1>5, <2>3
    <3>2. QED
      BY <1>1, <2>1, <3>1, FreeSame
  <2>4. QED
    BY <2>2, <2>3
<1>6. \A x \in Events : x = job[w].event =>
          (IF w \in Owing(x)' THEN 1 ELSE 0) + (IF Free(x)' THEN 1 ELSE 0) <=
              (IF w \in Owing(x) THEN 1 ELSE 0) + (IF Free(x) THEN 1 ELSE 0) + (faults' - faults)
  BY <1>2, <1>3, <1>5
<1>7. QED
  BY <1>1, <1>2, <1>3, <1>4, <1>6, TableStep

\* A reservation is taken by a worker that then owes the payment, or it is not
\* free and the worker ends.
LEMMA ReserveStep ==
    ASSUME Inv, NEW w \in Workers, Reserve(w)
    PROVE  Inv'
<1>1. Types /\ Steps(w) /\ Retries(w)
  BY DEF Inv, Steps, Proceed
<1>2. CASE ~ Reserves(job[w].event)
  BY <1>1, <1>2, EndStep DEF Reserve
<1>3. CASE Reserves(job[w].event)
  <2>1. /\ pc[w] = "reserve" /\ pc'[w] = "lock" /\ job' = job /\ first' = first
        /\ UNCHANGED <<leaves, mutex, hash, faults>>
        /\ row' = [row EXCEPT ![job[w].event] = IF @ = "absent" THEN "reserved" ELSE @]
        /\ row[job[w].event] = "absent"
        /\ row \in [Events -> {"absent", "reserved", "stale", "paid"}]
    BY <1>1, <1>3, WorkerTypes DEF Reserve, Reserves, Goto, bounds, Types, TypeOK
  <2>2. /\ job'[w] \in Jobs(Len(leaves)) /\ job'[w].attempt = 0 /\ first'[w] \in Nat
        /\ first'[w] <= Len(leaves) /\ faults \in Nat
    BY <1>1, <2>1, WorkerTypes DEF Retries, Types
  <2>3. \A e \in Events : row'[e] = "paid" => row[e] = "paid"
    BY <2>1
  <2>4. ASSUME NEW x \in Events, x = job[w].event
        PROVE  w \notin Owing(x) /\ w \in Owing(x)' /\ Free(x) /\ ~ Free(x)'
    <3>1. row[x] = "absent" /\ row'[x] = "reserved"
      BY <2>1, <2>4
    <3>2. w \notin Owing(x) /\ w \in Owing(x)' /\ Claims(w, x)'
      BY <2>1, <2>4 DEF Owing, Claims
    <3>3. QED
      BY <3>1, <3>2 DEF Free
  <2>5. \A x \in Events : x = job[w].event =>
            (IF w \in Owing(x)' THEN 1 ELSE 0) + (IF Free(x)' THEN 1 ELSE 0) <=
                (IF w \in Owing(x) THEN 1 ELSE 0) + (IF Free(x) THEN 1 ELSE 0)
                + (faults' - faults)
    <3>1. faults' - faults = 0
      BY <2>1, <2>2
    <3>2. QED
      BY <2>4, <3>1
  <2>6. QED
    BY <1>1, <2>1, <2>2, <2>3, <2>5, TableStep
<1>4. QED
  BY <1>2, <1>3

\* A worker that ends gives back what it owes, or it was a fault that it did not
\* complete.
LEMMA GiveUpStep ==
    ASSUME Inv, NEW w \in Workers, Steps(w), End(w), UNCHANGED <<leaves, mutex, hash>>,
           \A e \in Events : row'[e] = "paid" => row[e] = "paid",
           pc[w] = "release" \/ faults' = faults + 1
    PROVE  Inv'
<1>1. Types /\ pc'[w] = "idle" /\ job'[w] = NoJob /\ first'[w] = 0
  BY Ending DEF Inv
<1>2. /\ job'[w] \in Jobs(Len(leaves)) /\ job'[w].attempt = 0 /\ Len(leaves) \in Nat
      /\ faults \in Nat /\ faults' \in Nat /\ faults <= faults'
  <2>1. job'[w] \in Jobs(Len(leaves)) /\ job'[w].attempt = 0 /\ Len(leaves) \in Nat
    BY <1>1, WorkerTypes DEF NoJob
  <2>2. faults \in Nat /\ faults' \in Nat /\ faults <= faults'
    BY <1>1, Effects DEF Types
  <2>3. QED
    BY <2>1, <2>2
<1>3. ASSUME NEW x \in Events, x = job[w].event
      PROVE  /\ w \notin Owing(x)'
             /\ w \in Owing(x) \/ faults' = faults + 1
  BY <1>1, <1>3 DEF Owing
<1>4. ASSUME NEW x \in Events, x = job[w].event
      PROVE  (IF w \in Owing(x)' THEN 1 ELSE 0) + (IF Free(x)' THEN 1 ELSE 0) <=
                 (IF w \in Owing(x) THEN 1 ELSE 0) + (IF Free(x) THEN 1 ELSE 0)
                 + (faults' - faults)
  <2>1. PICK o, f, g : /\ o = (IF w \in Owing(x) THEN 1 ELSE 0)
                       /\ f = (IF Free(x) THEN 1 ELSE 0) /\ g = (IF Free(x)' THEN 1 ELSE 0)
    OBVIOUS
  <2>2. o \in {0, 1} /\ f \in {0, 1} /\ g \in {0, 1} /\ (o = 1 \/ faults' = faults + 1)
    BY <1>3, <1>4, <2>1
  <2>3. 0 + g <= o + f + (faults' - faults)
    <3>1. PICK m, n : m = faults /\ n = faults'
      OBVIOUS
    <3>2. m \in Nat /\ n \in Nat /\ m <= n /\ (o = 1 \/ n = m + 1)
      BY <1>2, <2>2, <3>1
    <3>3. 0 + g <= o + f + (n - m)
      BY <2>2, <3>2
    <3>4. QED
      BY <3>1, <3>3
  <2>4. (IF w \in Owing(x)' THEN 1 ELSE 0) = 0
    BY <1>3, <1>4
  <2>5. QED
    BY <2>1, <2>3, <2>4
<1>5. /\ first'[w] \in Nat /\ first'[w] <= Len(leaves) /\ pc'[w] \in {"idle", "reserve", "lock"}
      /\ pc'[w] = "idle" \/ job'[w].event = job[w].event
  BY <1>1, <1>2
<1>6. QED
  BY <1>1, <1>2, <1>4, <1>5, TableStep

\* A worker releases a reservation, whosever it is.
LEMMA ReleaseStep ==
    ASSUME Inv, NEW w \in Workers, Release(w)
    PROVE  Inv'
<1>1. Steps(w) /\ row \in [Events -> {"absent", "reserved", "stale", "paid"}]
  BY DEF Steps, Proceed, Inv, Types, TypeOK
<1>2. /\ pc[w] = "release" /\ End(w) /\ UNCHANGED <<leaves, mutex, hash>>
      /\ row' = [row EXCEPT ![job[w].event] = IF Releases(job[w].event) THEN "absent" ELSE @]
  BY DEF Release
<1>3. \A e \in Events : row'[e] = "paid" => row[e] = "paid"
  BY <1>1, <1>2
<1>4. QED
  BY <1>1, <1>2, <1>3, GiveUpStep

\* A statement fails.
LEMMA DbErrorStep ==
    ASSUME Inv, NEW w \in Workers, DbError(w)
    PROVE  Inv'
<1>1. Types /\ Steps(w) /\ Retries(w) /\ leaves' = leaves /\ faults' = faults + 1
  BY DEF Inv, Steps, DbError, Fault
<1>2. CASE End(w) /\ UNCHANGED <<table, mutex>>
  <2>1. UNCHANGED <<leaves, mutex, hash>> /\ row' = row
    BY <1>1, <1>2 DEF table
  <2>2. QED
    BY <1>1, <1>2, <2>1, GiveUpStep
<1>3. CASE pc[w] \in {"sign", "apply"} /\ Fail(w) /\ UNCHANGED first
  <2>1. pc'[w] = "release" /\ job'[w] = job[w] /\ first'[w] = first[w] /\ first'[w] \in Nat
    BY <1>1, <1>3, Failing, WorkerTypes
  <2>2. Retries(w)'
    BY <1>1, <2>1, SameAttempt
  <2>3. QED
    BY <1>1, <1>3, <2>1, <2>2, FailStep
<1>4. QED
  BY <1>2, <1>3 DEF DbError

\* The transfer of a worker is committed: the worker owes one payment less, unless
\* it does not learn of it, and that is a fault.
LEMMA PaidStep ==
    ASSUME Inv, NEW w \in Workers, Steps(w), pc[w] = "apply", HasFunds(job[w].amount),
           leaves' = Signed(job[w].event, ProcessOf[w], job[w].amount),
           UNCHANGED <<row, hash, first>>, mutex'[ProcessOf[w]] = None,
           job'[w] \in Jobs(Len(leaves')), job'[w].event = job[w].event,
           job'[w].attempt = job[w].attempt,
           \/ pc'[w] = "complete" /\ job'[w].leaf = Len(leaves) + 1
           \/ pc'[w] = "release" /\ faults' = faults + 1
    PROVE  Inv'
<1>1. /\ Types /\ Retries(w) /\ Frame(w) /\ mutex[ProcessOf[w]] = w
      /\ hash \in [Events -> 0 .. Len(leaves)] /\ faults \in Nat
  <2>1. Types /\ Retries(w) /\ mutex[ProcessOf[w]] = w
    BY DEF Inv, Exclusive
  <2>2. hash \in [Events -> 0 .. Len(leaves)] /\ faults \in Nat
    BY <2>1 DEF Types, TypeOK
  <2>3. QED
    BY <2>1, <2>2, Framed
<1>2. Extends(job[w].event, ProcessOf[w], job[w].amount)
  BY <1>1, WorkerTypes DEF Extends
<1>3. \E e, by, a : Extends(e, by, a)
  BY <1>2
<1>4. hash' \in [Events -> 0 .. Len(leaves')] /\ first'[w] \in Nat
  BY <1>1, <1>3, LeavesTyped, WorkerTypes
<1>5. Retries(w)'
  <2>1. first'[w] = first[w] /\ pc'[w] \in {"release", "complete"}
    OBVIOUS
  <2>2. QED
    BY <1>1, <1>3, <2>1, SameAttempt
<1>6. pc'[w] = "complete" => (job[w].leaf \in Payments(job[w].event))'
  <2>1. PICK x : x = job[w].event
    OBVIOUS
  <2>2. Len(leaves) + 1 \in Payments(x)'
    BY <1>1, <1>2, <2>1, PaymentsCount
  <2>3. QED
    BY <2>1, <2>2 DEF Payments
<1>7. ASSUME Types', NEW x \in Events, x = job[w].event
      PROVE  Accounted(x)'
  <2>1. Cardinality(Payments(x)') = Cardinality(Payments(x)) + 1 /\ 1 \in Int
    BY <1>1, <1>2, <1>7, PaymentsCount
  <2>2. /\ w \in Owing(x) /\ (w \in Owing(x)' <=> pc'[w] = "release")
        /\ (Claims(w, x) <=> Claims(w, x)')
    BY <1>7 DEF Owing, Claims
  <2>3. Free(x)' <=> Free(x)
    BY <1>1, <2>2, FreeSame
  <2>4. faults' \in Nat /\ faults <= faults'
    BY <1>1, Effects
  <2>5. 1 + (IF w \in Owing(x)' THEN 1 ELSE 0) + (IF Free(x)' THEN 1 ELSE 0) <=
            (IF w \in Owing(x) THEN 1 ELSE 0) + (IF Free(x) THEN 1 ELSE 0) + (faults' - faults)
    <3>1. PICK f, p : f = (IF Free(x) THEN 1 ELSE 0) /\ p = (IF w \in Owing(x)' THEN 1 ELSE 0)
      OBVIOUS
    <3>2. f \in {0, 1} /\ p \in {0, 1} /\ (p = 0 \/ faults' = faults + 1)
      BY <2>2, <3>1
    <3>3. 1 + p + f <= 1 + f + (faults' - faults)
      <4>1. PICK m, n : m = faults /\ n = faults'
        OBVIOUS
      <4>2. m \in Nat /\ n \in Nat /\ m <= n /\ (p = 0 \/ n = m + 1)
        BY <1>1, <2>4, <3>2, <4>1
      <4>3. 1 + p + f <= 1 + f + (n - m)
        BY <3>2, <4>2
      <4>4. QED
        BY <4>1, <4>3
    <3>4. f = (IF Free(x)' THEN 1 ELSE 0) /\ 1 = (IF w \in Owing(x) THEN 1 ELSE 0)
      BY <2>2, <2>3, <3>1
    <3>5. QED
      BY <3>1, <3>3, <3>4
  <2>6. Accounted(x)
    BY DEF Inv
  <2>7. QED
    BY <1>1, <1>7, <2>1, <2>5, <2>6, Balanced
<1>8. \A e \in Events : row'[e] = "paid" =>
          hash'[e] \in Payments(e)' \/ (row[e] = "paid" /\ hash'[e] = hash[e])
  OBVIOUS
<1>9. /\ mutex'[ProcessOf[w]] \in {None, mutex[ProcessOf[w]]}
      /\ mutex'[ProcessOf[w]] # mutex[ProcessOf[w]] => mutex[ProcessOf[w]] \in {None, w}
      /\ pc'[w] \notin {"sign", "apply"}
      /\ pc'[w] \in {"idle", "sweep"} \/ job'[w].event = job[w].event
  BY <1>1
<1>10. Types' => \A x \in Events : x = job[w].event => Accounted(x)'
  BY <1>7
<1>11. QED
  BY <1>4, <1>5, <1>6, <1>8, <1>9, <1>10, WorkerStep

\* Apply commits, and the worker learns of it or not.
LEMMA AppliedStep ==
    ASSUME Inv, NEW w \in Workers, ApplyAccepted(w) \/ LoseReply(w)
    PROVE  Inv'
<1>1. /\ Types /\ Steps(w) /\ pc[w] = "apply" /\ HasFunds(job[w].amount) /\ first' = first
      /\ leaves' = Signed(job[w].event, ProcessOf[w], job[w].amount)
  BY DEF Inv, Steps, Proceed, ApplyAccepted, LoseReply
<1>2. /\ job[w] \in Jobs(Len(leaves)) /\ Len(leaves) \in Nat /\ Len(leaves') = Len(leaves) + 1
  <2>1. /\ job[w] \in Jobs(Len(leaves)) /\ leaves \in Seq(LeafSet) /\ Len(leaves) \in Nat
        /\ job[w].event \in Events \cup {None} /\ job[w].amount \in Nat
        /\ ProcessOf[w] \in Processes \cup {Outsider}
    BY <1>1, WorkerTypes
  <2>2. QED
    BY <1>1, <2>1, SignedLeaf
<1>3. /\ \A i \in 0 .. Len(leaves) : i \in 0 .. Len(leaves')
      /\ Len(leaves) + 1 \in 0 .. Len(leaves')
  BY <1>2
<1>4. CASE ApplyAccepted(w)
  <2>1. /\ pc'[w] = "complete" /\ job'[w] = [job[w] EXCEPT !.leaf = Len(leaves) + 1]
        /\ mutex'[ProcessOf[w]] = None /\ UNCHANGED <<row, hash>>
    BY <1>1, <1>4, WorkerTypes DEF ApplyAccepted, Goto, Unlocked, table, Types
  <2>2. /\ job'[w] \in Jobs(Len(leaves')) /\ job'[w].leaf = Len(leaves) + 1
        /\ job'[w].attempt = job[w].attempt /\ job'[w].event = job[w].event
    BY <1>2, <1>3, <2>1, WithLeaf
  <2>3. QED
    BY <1>1, <2>1, <2>2, PaidStep
<1>5. CASE LoseReply(w)
  <2>1. /\ pc'[w] = "release" /\ job'[w] = job[w] /\ mutex'[ProcessOf[w]] = None
        /\ UNCHANGED <<row, hash>> /\ faults' = faults + 1
    BY <1>1, <1>5, Failing DEF LoseReply, Fault
  <2>2. job'[w] \in Jobs(Len(leaves'))
    BY <1>2, <1>3, <2>1 DEF Jobs
  <2>3. QED
    BY <1>1, <2>1, <2>2, PaidStep
<1>6. QED
  BY <1>4, <1>5

\* A worker completes the row, or finds that it is.
LEMMA CompleteStep ==
    ASSUME Inv, NEW w \in Workers, Complete(w)
    PROVE  Inv'
<1>1. /\ Types /\ Steps(w) /\ Frame(w) /\ End(w) /\ pc[w] = "complete"
      /\ UNCHANGED <<leaves, mutex, faults>>
      /\ job[w].leaf \in Payments(job[w].event)
  <2>1. Types /\ Steps(w) /\ End(w) /\ pc[w] = "complete" /\ UNCHANGED <<leaves, mutex, faults>>
    BY DEF Inv, Steps, Proceed, Complete, bounds
  <2>2. job[w].leaf \in Payments(job[w].event)
    BY <2>1 DEF Inv, Completed
  <2>3. QED
    BY <2>1, <2>2, Framed
<1>2. /\ row' = [row EXCEPT ![job[w].event] = "paid"]
      /\ hash' = [hash EXCEPT ![job[w].event] = IF row[job[w].event] = "paid" THEN @
                                                ELSE job[w].leaf]
      /\ row \in [Events -> {"absent", "reserved", "stale", "paid"}]
      /\ hash \in [Events -> 0 .. Len(leaves)]
  BY <1>1 DEF Complete, Types, TypeOK
<1>3. pc'[w] = "idle" /\ job'[w] = NoJob /\ first'[w] = 0
  BY <1>1, Ending
<1>4. /\ job'[w] \in Jobs(Len(leaves')) /\ first'[w] \in Nat /\ first'[w] <= Len(leaves')
      /\ job'[w].attempt = 0 /\ job[w] \in Jobs(Len(leaves))
  BY <1>1, <1>3, WorkerTypes DEF NoJob
<1>5. hash' \in [Events -> 0 .. Len(leaves')]
  <2>1. job[w].leaf \in 0 .. Len(leaves)
    BY <1>4 DEF Jobs
  <2>2. QED
    BY <1>1, <1>2, <2>1
<1>6. \A e \in Events : row'[e] = "paid" =>
          hash'[e] \in Payments(e)' \/ (row[e] = "paid" /\ hash'[e] = hash[e])
  <2>1. \A e \in Events : Payments(e)' = Payments(e)
    BY <1>1 DEF Payments
  <2>2. \A e \in Events : e # job[w].event => row'[e] = row[e] /\ hash'[e] = hash[e]
    BY <1>2
  <2>3. \A e \in Events : e = job[w].event =>
            hash'[e] = IF row[e] = "paid" THEN hash[e] ELSE job[w].leaf
    BY <1>2
  <2>4. QED
    BY <1>1, <2>1, <2>2, <2>3
<1>7. ASSUME Types', NEW x \in Events, x = job[w].event
      PROVE  Accounted(x)'
  <2>1. w \notin Owing(x) /\ w \notin Owing(x)'
    BY <1>1, <1>3 DEF Owing
  <2>2. ~ Free(x)'
    BY <1>2, <1>7 DEF Free
  <2>3. Payments(x)' = Payments(x) /\ Cardinality(Payments(x)) \in Nat /\ faults \in Nat
    BY <1>1, Counted DEF Payments
  <2>4. Cardinality(Payments(x)') = Cardinality(Payments(x)) + 0 /\ 0 \in Int
    BY <2>3
  <2>5. 0 + (IF w \in Owing(x)' THEN 1 ELSE 0) + (IF Free(x)' THEN 1 ELSE 0) <=
            (IF w \in Owing(x) THEN 1 ELSE 0) + (IF Free(x) THEN 1 ELSE 0) + (faults' - faults)
    <3>1. faults' - faults = 0
      BY <1>1, <2>3
    <3>2. QED
      BY <2>1, <2>2, <3>1
  <2>6. Accounted(x)
    BY DEF Inv
  <2>7. QED
    BY <1>1, <1>7, <2>4, <2>5, <2>6, Balanced
<1>8. Types' => Retries(w)'
  BY <1>3, <1>4, FirstAttempt
<1>9. /\ mutex'[ProcessOf[w]] \in {None, mutex[ProcessOf[w]]}
      /\ mutex'[ProcessOf[w]] # mutex[ProcessOf[w]] => mutex[ProcessOf[w]] \in {None, w}
      /\ pc'[w] \notin {"sign", "apply"} /\ pc'[w] # "complete"
      /\ pc'[w] \in {"idle", "sweep"} \/ job'[w].event = job[w].event
  BY <1>1, <1>3
<1>10. Types' => \A x \in Events : x = job[w].event => Accounted(x)'
  BY <1>7
<1>11. QED
  BY <1>1, <1>4, <1>5, <1>6, <1>8, <1>9, <1>10, WorkerStep

-----------------------------------------------------------------------------
(* Time, the other users of the treasury's key, and faults.                 *)

\* An event whose reservation keeps or loses its worker.
LEMMA AgeStep ==
    ASSUME Inv, NEW e \in Events, GrowStale(e) \/ Overrun(e)
    PROVE  Inv'
<1>1. /\ Types /\ row[e] = "reserved" /\ row' = [row EXCEPT ![e] = "stale"]
      /\ UNCHANGED <<amount, hash, leaves, mutex, pc, job, first>>
      /\ row \in [Events -> {"absent", "reserved", "stale", "paid"}]
  BY DEF Inv, Types, TypeOK, GrowStale, Overrun
<1>2. faults \in 0 .. MaxFaults /\ MaxFaults \in Nat
  BY <1>1, BoundsAssumption DEF Types
<1>3. \/ faults' = faults /\ ~ \E w \in Workers : Claims(w, e)
      \/ faults' = faults + 1 /\ faults < MaxFaults
  BY DEF GrowStale, Overrun, Fault, bounds
<1>4. faults' \in 0 .. MaxFaults /\ faults <= faults'
  BY <1>2, <1>3
<1>5. Types'
  <2>1. row' \in [Events -> {"absent", "reserved", "stale", "paid"}] /\ Spent' = Spent
    BY <1>1 DEF Spent
  <2>2. QED
    BY <1>1, <1>4, <2>1 DEF Types, TypeOK
<1>6. Exclusive' /\ \A w \in Workers : Retries(w)'
  BY <1>1 DEF Inv, Exclusive, Retries, Others
<1>7. Completed'
  BY <1>1 DEF Inv, Completed, Payments
<1>8. ASSUME NEW x \in Events
      PROVE  Accounted(x)'
  <2>1. Accounted(x) /\ Payments(x)' = Payments(x) /\ Owing(x)' = Owing(x)
    BY <1>1 DEF Inv, Payments, Owing
  <2>2. Cardinality(Payments(x)) \in Nat /\ Cardinality(Owing(x)) \in Nat /\ faults \in Nat
    BY <1>1, Counted
  <2>3. /\ Cardinality(Payments(x)') = Cardinality(Payments(x)) + 0
        /\ Cardinality(Owing(x)') = Cardinality(Owing(x)) + 0 /\ 0 \in Int
    BY <2>1, <2>2
  <2>4. x # e => (Free(x)' <=> Free(x))
    BY <1>1 DEF Free, Claims
  <2>5. x = e => Free(x)' /\ (Free(x) \/ faults' = faults + 1)
    BY <1>1, <1>3 DEF Free
  <2>6. 0 + 0 + (IF Free(x)' THEN 1 ELSE 0) <= (IF Free(x) THEN 1 ELSE 0) + (faults' - faults)
    <3>1. PICK f, g, m, n : /\ f = (IF Free(x) THEN 1 ELSE 0) /\ g = (IF Free(x)' THEN 1 ELSE 0)
                            /\ m = faults /\ n = faults'
      OBVIOUS
    <3>2. f \in {0, 1} /\ g \in {0, 1} /\ (g <= f \/ n = m + 1)
      BY <2>4, <2>5, <3>1
    <3>3. m \in Nat /\ n \in Nat /\ m <= n
      BY <1>2, <1>4, <3>1
    <3>4. 0 + 0 + g <= f + (n - m)
      BY <3>2, <3>3
    <3>5. QED
      BY <3>1, <3>4
  <2>7. QED
    BY <1>1, <1>5, <2>1, <2>3, <2>6, AccountsAdd
<1>9. QED
  BY <1>5, <1>6, <1>7, <1>8 DEF Inv

\* The configuration only counts when a worker starts.
LEMMA SetAmountStep ==
    ASSUME Inv, NEW e \in Events, NEW a \in Amounts, SetAmount(e, a)
    PROVE  Inv'
<1>1. /\ UNCHANGED <<row, hash, leaves, mutex, pc, job, first, faults>>
      /\ amount' = [amount EXCEPT ![e] = a]
  BY DEF SetAmount, table
<1>2. Types'
  BY <1>1 DEF Inv, Types, TypeOK, Spent
<1>3. Exclusive' /\ Completed' /\ \A w \in Workers : Retries(w)'
  BY <1>1 DEF Inv, Exclusive, Completed, Payments, Retries, Others
<1>4. \A x \in Events : Accounted(x)'
  BY <1>1 DEF Inv, Accounted, Payments, Owing, Free, Claims
<1>5. QED
  BY <1>2, <1>3, <1>4 DEF Inv

\* Whoever else signs with the key pays no event, and answers attempts.
LEMMA OutsideStep ==
    ASSUME Inv, OutsideTx
    PROVE  Inv'
<1>1. /\ Types /\ UNCHANGED <<amount, row, hash, mutex, pc, job, first, faults>>
      /\ leaves' = Signed(None, Outsider, 1) /\ HasFunds(1)
  BY DEF Inv, OutsideTx, table, bounds
<1>2. Extends(None, Outsider, 1)
  BY <1>1 DEF Extends
<1>3. \E e, by, a : Extends(e, by, a)
  BY <1>2
<1>4. /\ leaves' \in Seq(LeafSet) /\ Spent' <= Funds
      /\ Len(leaves) \in Nat /\ Len(leaves') \in Nat /\ Len(leaves) <= Len(leaves')
  BY <1>1, <1>3, LeavesTyped
<1>5. Types'
  <2>1. hash \in [Events -> 0 .. Len(leaves)] /\ job \in [Workers -> Jobs(Len(leaves))]
    BY <1>1 DEF Types, TypeOK, Jobs
  <2>2. \A j \in Jobs(Len(leaves)) : j \in Jobs(Len(leaves'))
    BY <1>4 DEF Jobs
  <2>3. hash' \in [Events -> 0 .. Len(leaves')] /\ job' \in [Workers -> Jobs(Len(leaves'))]
    BY <1>1, <1>4, <2>1, <2>2
  <2>4. QED
    BY <1>1, <1>4, <2>3 DEF Types, TypeOK, LeafSet, Jobs
<1>6. Exclusive'
  BY <1>1 DEF Inv, Exclusive
<1>7. Completed'
  BY <1>1, <1>3, PaymentsGrow DEF Inv, Completed
<1>8. ASSUME NEW v \in Workers
      PROVE  Retries(v)'
  <2>1. Outsider # ProcessOf[v] /\ Retries(v)
    BY <1>1, WorkerTypes, NamesAssumption DEF Inv
  <2>2. \E e, by, a : Extends(e, by, a) /\ (pc[v] = "apply" => by # ProcessOf[v])
    BY <1>2, <2>1
  <2>3. QED
    BY <1>1, <2>1, <2>2, KeepsRetries
<1>9. ASSUME NEW x \in Events
      PROVE  Accounted(x)'
  <2>1. Payments(x)' = Payments(x)
    BY <1>1, <1>2, PaymentsCount, NamesAssumption
  <2>2. QED
    BY <1>1, <2>1 DEF Inv, Accounted, Owing, Free, Claims
<1>10. QED
  BY <1>5, <1>6, <1>7, <1>8, <1>9 DEF Inv

\* A process dies: what its workers owed is not paid, and if one had paid and not
\* completed, the reservation that it leaves is one payment too many.
LEMMA CrashStep ==
    ASSUME Inv, NEW q \in Processes, Crash(q)
    PROVE  Inv'
<1>1. /\ Types /\ UNCHANGED <<amount, row, hash, leaves>> /\ mutex' = [mutex EXCEPT ![q] = None]
      /\ faults < MaxFaults /\ faults' = faults + 1
      /\ faults \in 0 .. MaxFaults /\ MaxFaults \in Nat
  BY BoundsAssumption DEF Inv, Types, Crash, Fault, table
<1>2. ASSUME NEW w \in Workers
      PROVE  /\ ProcessOf[w] = q => pc'[w] = "idle" /\ job'[w] = NoJob /\ first'[w] = 0
             /\ ProcessOf[w] # q => /\ pc'[w] = pc[w] /\ job'[w] = job[w] /\ first'[w] = first[w]
                                    /\ mutex'[ProcessOf[w]] = mutex[ProcessOf[w]]
  BY <1>1, <1>2, WorkerTypes DEF Crash, Types
<1>3. Types'
  <2>1. job' \in [Workers -> Jobs(Len(leaves'))]
    <3>1. /\ job' = [w \in Workers |-> IF ProcessOf[w] = q THEN NoJob ELSE job[w]]
          /\ leaves' = leaves
      BY <1>1 DEF Crash
    <3>2. \A w \in Workers : NoJob \in Jobs(Len(leaves)) /\ job[w] \in Jobs(Len(leaves))
      BY <1>1, WorkerTypes
    <3>3. QED
      BY <3>1, <3>2
  <2>2. pc' \in [Workers -> Labels] /\ first' \in [Workers -> Nat]
    BY <1>1 DEF Crash, Types, TypeOK, Labels
  <2>3. /\ mutex' = [p \in Processes |-> mutex'[p]]
        /\ \A p \in Processes : mutex'[p] \in {None} \cup {w \in Workers : ProcessOf[w] = p}
    BY <1>1 DEF Types, TypeOK
  <2>4. faults' \in 0 .. MaxFaults /\ Spent' = Spent
    BY <1>1 DEF Spent
  <2>5. QED
    BY <1>1, <2>1, <2>2, <2>3, <2>4 DEF Types, TypeOK, Labels, Jobs
<1>4. Exclusive'
  BY <1>2 DEF Inv, Exclusive
<1>5. Completed'
  <2>1. \A e : Payments(e)' = Payments(e)
    BY <1>1 DEF Payments
  <2>2. \A w \in Workers : pc'[w] = "complete" => pc[w] = "complete" /\ job'[w] = job[w]
    BY <1>2
  <2>3. \A w \in Workers : pc'[w] = "complete" => job'[w].leaf \in Payments(job'[w].event)
    BY <2>2 DEF Inv, Completed
  <2>4. \A w \in Workers : pc'[w] = "complete" => (job[w].leaf \in Payments(job[w].event))'
    BY <1>1, <2>3 DEF Payments
  <2>5. QED
    BY <1>1, <2>1, <2>4 DEF Inv, Completed
<1>6. ASSUME NEW w \in Workers
      PROVE  Retries(w)'
  <2>1. CASE ProcessOf[w] = q
    <3>1. job'[w].attempt = 0 /\ first'[w] <= Len(leaves') /\ pc'[w] # "apply"
      BY <1>1, <1>2, <2>1, WorkerTypes DEF NoJob
    <3>2. QED
      BY <1>3, <3>1, FirstAttempt
  <2>2. CASE ProcessOf[w] # q
    BY <1>1, <1>2, <2>2, KeepsRetries DEF Inv
  <2>3. QED
    BY <2>1, <2>2
<1>7. ASSUME NEW x \in Events
      PROVE  Accounted(x)'
  <2>1. Accounted(x) /\ Payments(x)' = Payments(x)
    BY <1>1 DEF Inv, Payments
  <2>2. Cardinality(Payments(x)) \in Nat /\ IsFiniteSet(Owing(x)) /\ Cardinality(Owing(x)) \in Nat
    BY <1>1, Counted
  <2>3. Owing(x)' \subseteq Owing(x)
    <3>1. \A w \in Workers : w \in Owing(x)' => w \in Owing(x)
      BY <1>2 DEF Owing, NoJob
    <3>2. QED
      BY <3>1 DEF Owing
  <2>4. /\ Cardinality(Owing(x)') \in Nat /\ Cardinality(Owing(x)') <= Cardinality(Owing(x))
    BY <2>2, <2>3, FS_Subset, FS_CardinalityType
  <2>5. PICK do : do = Cardinality(Owing(x)') - Cardinality(Owing(x))
    OBVIOUS
  <2>6. do \in Int /\ do <= 0 /\ Cardinality(Owing(x)') = Cardinality(Owing(x)) + do
    BY <2>2, <2>4, <2>5
  <2>7. Cardinality(Payments(x)') = Cardinality(Payments(x)) + 0 /\ 0 \in Int
    BY <2>1, <2>2
  <2>8. 0 + do + (IF Free(x)' THEN 1 ELSE 0) <= (IF Free(x) THEN 1 ELSE 0) + (faults' - faults)
    <3>1. PICK f, g : f = (IF Free(x) THEN 1 ELSE 0) /\ g = (IF Free(x)' THEN 1 ELSE 0)
      OBVIOUS
    <3>2. f \in {0, 1} /\ g \in {0, 1}
      BY <3>1
    <3>3. faults' - faults = 1
      BY <1>1
    <3>4. 0 + do + g <= f + 1
      BY <2>6, <3>2
    <3>5. QED
      BY <3>1, <3>3, <3>4
  <2>9. QED
    BY <1>1, <1>3, <2>1, <2>6, <2>7, <2>8, AccountsAdd
<1>8. QED
  BY <1>3, <1>4, <1>5, <1>6, <1>7 DEF Inv

-----------------------------------------------------------------------------
(* The theorems.                                                            *)

\* No event is reserved and nothing is paid at the start.
LEMMA Start == Init => Inv
<1> SUFFICES ASSUME Init
             PROVE  Inv
  OBVIOUS
<1>1. leaves = <<>> /\ Len(leaves) = 0 /\ leaves \in Seq(LeafSet) /\ DOMAIN leaves = {}
  <2>1. leaves = <<>>
    BY DEF Init
  <2>2. leaves \in Seq(LeafSet) /\ Len(leaves) = 0 /\ DOMAIN leaves = {}
    BY <2>1, EmptySeq
  <2>3. QED
    BY <2>1, <2>2
<1>2. Types
  <2>1. Spent <= Funds
    <3>1. Spent \in Nat
      BY <1>1, AmountsType
    <3>2. Spent = 0
      BY <1>1, <3>1, TotalZero DEF Spent
    <3>3. QED
      BY <3>2, AmountsAssumption
  <2>2. NoJob \in Jobs(Len(leaves)) /\ 0 \in 0 .. Len(leaves) /\ MaxFaults \in Nat
    BY <1>1, BoundsAssumption DEF NoJob, Jobs
  <2>3. job \in [Workers -> Jobs(Len(leaves))] /\ hash \in [Events -> 0 .. Len(leaves)]
    BY <2>2 DEF Init
  <2>4. QED
    BY <1>1, <2>1, <2>2, <2>3 DEF Init, Types, TypeOK, LeafSet, Jobs
<1>3. Exclusive /\ Completed
  BY DEF Init, Exclusive, Completed
<1>4. ASSUME NEW w \in Workers
      PROVE  Retries(w)
  <2>1. Others(w, Len(leaves)) = {}
    BY <1>1 DEF Others
  <2>2. Cardinality(Others(w, Len(leaves))) = 0
    BY <2>1, FS_EmptySet
  <2>3. QED
    BY <1>1, <2>2 DEF Init, Retries, NoJob
<1>5. ASSUME NEW x \in Events
      PROVE  Accounted(x)
  <2>1. Payments(x) = {} /\ Owing(x) = {} /\ faults = 0
    BY <1>1 DEF Payments, Owing, Init
  <2>2. QED
    BY <2>1, FS_EmptySet DEF Accounted
<1>6. QED
  BY <1>2, <1>3, <1>4, <1>5 DEF Inv

\* Every step keeps the invariant.
LEMMA Step == Inv /\ [Next]_vars => Inv'
<1> SUFFICES ASSUME Inv, [Next]_vars
             PROVE  Inv'
  OBVIOUS
<1>1. ASSUME NEW w \in Workers, Proceed(w)
      PROVE  Inv'
  BY <1>1, SweepStep, ReserveStep, SignStep, AppliedStep, RefusedStep, ReleaseStep, CompleteStep,
     Zenon DEF Proceed
<1>2. ASSUME NEW w \in Workers, LockMutex(w) \/ LoseReply(w) \/ DbError(w)
      PROVE  Inv'
  BY <1>2, LockStep, AppliedStep, DbErrorStep
<1>3. ASSUME NEW w \in Workers, NEW e \in Events, GetRewardAmount(w, e)
      PROVE  Inv'
  BY <1>3, StartStep
<1>4. ASSUME NEW e \in Events, GrowStale(e) \/ Overrun(e)
      PROVE  Inv'
  BY <1>4, AgeStep
<1>5. ASSUME NEW e \in Events, NEW a \in Amounts, SetAmount(e, a)
      PROVE  Inv'
  BY <1>5, SetAmountStep
<1>6. ASSUME NEW q \in Processes, Crash(q)
      PROVE  Inv'
  BY <1>6, CrashStep
<1>7. CASE OutsideTx
  BY <1>7, OutsideStep
<1>8. CASE UNCHANGED vars
  <2>1. Types'
    BY <1>8 DEF Inv, Types, TypeOK, Spent, vars
  <2>2. Exclusive' /\ Completed'
    BY <1>8 DEF Inv, Exclusive, Completed, Payments, vars
  <2>3. \A w \in Workers : Retries(w)'
    BY <1>8 DEF Inv, Retries, Others, vars
  <2>4. \A x \in Events : Accounted(x)'
    BY <1>8 DEF Inv, Accounted, Payments, Owing, Free, Claims, vars
  <2>5. QED
    BY <2>1, <2>2, <2>3, <2>4 DEF Inv
<1>9. QED
  BY <1>1, <1>2, <1>3, <1>4, <1>5, <1>6, <1>7, <1>8, Zenon DEF Next

\* The invariant holds in every reachable state: the payment of rewards goes on as
\* PayRewardOnce means it to, whatever faults happen.
THEOREM Invariance == Spec => []Inv
BY Start, Step, PTL DEF Spec

\* The tables and locals have their types, and the treasury is never overdrawn by
\* rewards, although the balance is read before the transfer is applied.
THEOREM TypeCorrect == Spec => []TypeOK
<1>1. Inv => TypeOK
  BY DEF Inv, Types
<1>2. QED
  BY <1>1, Invariance, PTL

\* Each fault (a crash, a lost answer of a commit, a failed statement, a worker that
\* needs more than 15 minutes) costs one extra payment of an event at most, however
\* often the event is delivered and to however many workers.
THEOREM FaultsBoundPayments == Spec => []ExtraPaymentsNeedFaults
<1>1. Inv => ExtraPaymentsNeedFaults
  <2> SUFFICES ASSUME Inv, NEW x \in Events
               PROVE  Cardinality(Payments(x)) <= 1 + faults
    BY DEF ExtraPaymentsNeedFaults
  <2>1. /\ Cardinality(Payments(x)) \in Nat /\ Cardinality(Owing(x)) \in Nat /\ faults \in Nat
        /\ Accounted(x)
    BY Counted DEF Inv
  <2>2. PICK f : f = (IF Free(x) THEN 1 ELSE 0)
    OBVIOUS
  <2>3. f \in Nat /\ Cardinality(Payments(x)) + Cardinality(Owing(x)) + f <= 1 + faults
    BY <2>1, <2>2 DEF Accounted
  <2>4. QED
    BY <2>1, <2>3
<1>2. QED
  BY <1>1, Invariance, PTL

\* Without faults the promise of the reward_events table is kept: an event pays once,
\* even if it is delivered again to workers of several processes.
THEOREM PaidOnceWithoutFaults == MaxFaults = 0 => (Spec => []PaidAtMostOnce)
<1> SUFFICES ASSUME MaxFaults = 0
             PROVE  Spec => []PaidAtMostOnce
  OBVIOUS
<1>1. Inv /\ ExtraPaymentsNeedFaults => PaidAtMostOnce
  <2> SUFFICES ASSUME Inv, ExtraPaymentsNeedFaults, NEW x \in Events
               PROVE  Cardinality(Payments(x)) <= 1
    BY DEF PaidAtMostOnce
  <2>1. faults = 0
    BY DEF Inv, Types
  <2>2. QED
    BY <2>1 DEF ExtraPaymentsNeedFaults
<1>2. QED
  BY <1>1, Invariance, FaultsBoundPayments, PTL

\* A transfer is signed again only because a leaf of another process took its nonce,
\* one for each attempt: adminSignMu keeps the workers of a process from each other.
THEOREM RetriesAreOthersDoing == Spec => []RetriesNeedOutsiders
<1>1. Inv => RetriesNeedOutsiders
  <2> SUFFICES ASSUME Inv, NEW w \in Workers
               PROVE  job[w].attempt <= Cardinality({n \in DOMAIN leaves :
                                          n > first[w] /\ leaves[n].by # ProcessOf[w]})
    BY DEF RetriesNeedOutsiders
  <2>1. Retries(w) /\ DOMAIN leaves = 1 .. Len(leaves)
    BY LenProperties DEF Inv, Types, TypeOK
  <2>2. {n \in DOMAIN leaves : n > first[w] /\ leaves[n].by # ProcessOf[w]} = Others(w, Len(leaves))
    BY <2>1 DEF Others
  <2>3. QED
    BY <2>1, <2>2 DEF Retries
<1>2. QED
  BY <1>1, Invariance, PTL

\* A completed row points at a leaf that paid its event, and no release, completion
\* or sweep of a slower worker changes it again.
THEOREM CompletedRowsStay == Spec => CompletedIsFinal
<1>1. ASSUME Inv, Inv', [Next]_vars, NEW e \in Events
      PROVE  /\ row'[e] = "paid" => hash'[e] \in Payments(e)'
             /\ row[e] = "paid" => row'[e] = "paid" /\ hash'[e] = hash[e]
  <2>1. row'[e] = "paid" => hash'[e] \in Payments(e)'
    BY <1>1 DEF Inv, Completed
  <2>2. /\ row \in [Events -> {"absent", "reserved", "stale", "paid"}]
        /\ hash \in [Events -> 0 .. Len(leaves)]
    BY <1>1 DEF Inv, Types, TypeOK
  <2>3. ASSUME row[e] = "paid", NEW w \in Workers, Steps(w)
        PROVE  row'[e] = "paid" /\ hash'[e] = hash[e]
    <3>1. CASE Sweep(w) \/ Reserve(w) \/ Release(w) \/ Complete(w)
      BY <2>2, <2>3, <3>1 DEF Sweep, Sweeps, Reserve, Reserves, Release, Releases, Complete
    <3>2. CASE UNCHANGED <<row, hash>>
      BY <2>3, <3>2
    <3>3. QED
      BY <2>3, <3>1, <3>2 DEF Steps, Proceed, LockMutex, Sign, ApplyAccepted, ApplyRefused,
         LoseReply, DbError, GetRewardAmount, Fail, table
  <2>4. ASSUME row[e] = "paid", NEW x \in Events, GrowStale(x) \/ Overrun(x)
        PROVE  row'[e] = "paid" /\ hash'[e] = hash[e]
    BY <2>2, <2>4 DEF GrowStale, Overrun
  <2>5. CASE UNCHANGED <<row, hash>>
    BY <2>1, <2>5
  <2>6. \/ \E w \in Workers : Steps(w)
        \/ \E x \in Events : GrowStale(x) \/ Overrun(x)
        \/ UNCHANGED <<row, hash>>
    <3>1. CASE Next
      BY <3>1 DEF Next, Steps, SetAmount, Crash, OutsideTx, table
    <3>2. CASE UNCHANGED vars
      BY <3>2 DEF vars
    <3>3. QED
      BY <1>1, <3>1, <3>2
  <2>7. QED
    BY <2>1, <2>3, <2>4, <2>5, <2>6
<1>2. Inv /\ Inv' /\ [Next]_vars =>
          [\A e \in Events :
              /\ row'[e] = "paid" => hash'[e] \in Payments(e)'
              /\ row[e] = "paid" => row'[e] = "paid" /\ hash'[e] = hash[e]]_vars
  BY <1>1
<1>3. QED
  BY <1>2, Invariance, PTL DEF Spec, CompletedIsFinal
=============================================================================
