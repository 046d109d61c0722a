---------------------------- MODULE WalletProofs ----------------------------
(***************************************************************************)
(* Theorems about the theme's wallet, for any number of accounts, views,    *)
(* requests, submissions and tips.                                          *)
(***************************************************************************)
EXTENDS Wallet, FiniteSetTheorems, WellFoundedInduction, TLAPS

-----------------------------------------------------------------------------
(* The first listener of an account.                                        *)

\* A set of natural numbers has a smallest element.
LEMMA MinExists ==
    ASSUME NEW S, S \subseteq Nat, S # {}
    PROVE  Min(S) \in S /\ \A n \in S : Min(S) <= n
<1>1. PICK R : R = OpToRel(<, Nat)
  OBVIOUS
<1>2. IsWellFoundedOn(R, Nat)
  BY <1>1, NatLessThanWellFounded
<1>3. PICK m \in S : \A n \in S : ~ (<<n, m>> \in R)
  BY <1>2, WFMin
<1>4. \A n \in S : n \in Nat /\ m \in Nat /\ ~ (n < m)
  BY <1>1, <1>3 DEF OpToRel
<1>5. \A n \in S : m <= n
  BY <1>4
<1>6. QED
  BY <1>5 DEF Min

-----------------------------------------------------------------------------
(* The inductive invariant.                                                 *)

Entry == [version : Nat, old : BOOLEAN]
Batch(n) == [requests : [Ids -> 0 .. n], single : BOOLEAN, seen : Nat \cup {None}, old : BOOLEAN]
Shown(n) == [status : {"absent", "loading", "ok", "error"}, wait : Nat, shows : Nat,
             atLeast : 0 .. n]

\* The requests are numbered, and no view expects more tips than there are.
BalanceTypes ==
    /\ version \in Nat /\ announced \in 0 .. version /\ issued \in Nat
    /\ cache \in [Ids -> Entry \cup {None}] /\ inFlight \in [Ids -> Nat]
    /\ queue \in [Ids -> 0 .. issued] /\ batches \subseteq Batch(issued)
    /\ view \in [Views -> Shown(version)]

\* An answer that lacks an announced change is for a request that was under way.
Marked == \A b \in batches : b.seen # None /\ b.seen < announced => b.old

\* The answer that a view waits for includes the tip it is to show.
Awaited ==
    \A v \in Views, b \in batches : WaitsFor(v, b) /\ b.seen # None => b.seen >= view[v].atLeast

BalanceInv == BalanceTypes /\ Marked /\ Awaited /\ StaleNeedsOverlap /\ ShownIncludesTip

\* The tips that are applied or may yet be, against the replies that are missing.
Answerable == IF dialog \in {"submitting", "accepted", "success"} THEN 1 ELSE 0

DialogInv ==
    /\ pending \subseteq Nat /\ IsFiniteSet(pending)
    /\ nonce \in Nat /\ applied \in Nat /\ lost \in Nat
    /\ dialog = "submitting" => nonce + 1 \in pending
    /\ dialog = "accepted" => nonce + 1 <= version
    /\ applied + Cardinality(pending) <= lost + Answerable

Inv == BalanceInv /\ DialogInv

-----------------------------------------------------------------------------
(* Records.                                                                 *)

\* A request under way is its fields.
LEMMA BatchFields ==
    ASSUME NEW n, NEW b \in Batch(n)
    PROVE  /\ b = [requests |-> b.requests, single |-> b.single, seen |-> b.seen, old |-> b.old]
           /\ b.requests \in [Ids -> 0 .. n] /\ b.single \in BOOLEAN
           /\ b.seen \in Nat \cup {None} /\ b.old \in BOOLEAN
BY DEF Batch

\* A request that the server reads is the same request.
LEMMA BatchRead ==
    ASSUME NEW n, NEW b \in Batch(n), NEW s \in Nat, NEW new, new = [b EXCEPT !.seen = s]
    PROVE  new \in Batch(n) /\ new.seen = s /\ new.requests = b.requests
BY BatchFields DEF Batch

\* So is one that a change overtakes.
LEMMA BatchMarked ==
    ASSUME NEW n, NEW b \in Batch(n), NEW new, new = [b EXCEPT !.old = TRUE]
    PROVE  /\ new \in Batch(n) /\ new.old = TRUE /\ new.requests = b.requests
           /\ new.seen = b.seen
BY BatchFields DEF Batch

\* More requests make no request invalid.
LEMMA BatchesGrow ==
    ASSUME NEW m \in Nat, NEW n \in Nat, m <= n
    PROVE  Batch(m) \subseteq Batch(n)
<1>1. \A f \in [Ids -> 0 .. m] : f \in [Ids -> 0 .. n]
  OBVIOUS
<1>2. QED
  BY <1>1 DEF Batch

\* A view is its fields.
LEMMA ViewFields ==
    ASSUME NEW n, NEW u \in Shown(n)
    PROVE  /\ u = [status |-> u.status, wait |-> u.wait, shows |-> u.shows, atLeast |-> u.atLeast]
           /\ u.status \in {"absent", "loading", "ok", "error"} /\ u.wait \in Nat
           /\ u.shows \in Nat /\ u.atLeast \in 0 .. n
BY DEF Shown

\* A view that is destroyed, or that shows what is cached.
LEMMA ViewReset ==
    ASSUME NEW n \in Nat, NEW s \in Nat, NEW ok,
           ok = [status |-> "ok", wait |-> 0, shows |-> s, atLeast |-> 0]
    PROVE  /\ NoView \in Shown(n) /\ NoView.wait = 0 /\ NoView.status = "absent"
           /\ ok \in Shown(n) /\ ok.wait = 0 /\ ok.shows = s /\ ok.atLeast = 0
BY DEF Shown, NoView

-----------------------------------------------------------------------------
(* The steps of the page.                                                   *)

\* What remains to be shown of a step between two announcements.
LEMMA BalanceStep ==
    ASSUME BalanceInv, version' = version, announced' = announced, BalanceTypes',
           \A b \in batches' : \/ b \in batches \/ b.seen = None
                               \/ b.seen = version /\ \E c \in batches : b.requests = c.requests,
           \A v \in Views : \/ view'[v] = view[v]
                            \/ view'[v].wait = 0 \/ view'[v].atLeast = 0,
           \A v \in Views : \/ view'[v] = view[v] \/ view'[v].status # "ok"
                            \/ view'[v].shows >= view'[v].atLeast,
           \A id \in Ids : \/ cache'[id] = cache[id] \/ cache'[id] = None
                           \/ \E b \in batches : /\ b.seen # None /\ cache'[id].version = b.seen
                                                 /\ cache'[id].old = b.old
    PROVE  BalanceInv'
<1>1. /\ BalanceTypes /\ Marked /\ Awaited /\ StaleNeedsOverlap /\ ShownIncludesTip
      /\ version \in Nat /\ announced \in Nat /\ announced <= version
  BY DEF BalanceInv, BalanceTypes
<1>2. Marked'
  <2> SUFFICES ASSUME NEW b \in batches', b.seen # None, b.seen < announced
               PROVE  b.old
    BY DEF Marked
  <2>1. ~ (b.seen = version)
    BY <1>1
  <2>2. QED
    BY <1>1, <2>1 DEF Marked
<1>3. Awaited'
  <2> SUFFICES ASSUME NEW v \in Views, NEW b \in batches', WaitsFor(v, b)', b.seen # None
               PROVE  b.seen >= view'[v].atLeast
    BY DEF Awaited
  <2>1. view'[v] \in Shown(version) /\ b \in Batch(issued')
    BY DEF BalanceTypes
  <2>2. view'[v].atLeast \in 0 .. version /\ b.seen \in Nat
    BY <2>1, ViewFields, BatchFields
  <2>3. CASE view'[v].atLeast = 0
    BY <2>2, <2>3
  <2>4. CASE b.seen = version
    BY <1>1, <2>2, <2>4
  <2>5. CASE view'[v] = view[v] /\ b \in batches
    BY <1>1, <2>5 DEF Awaited, WaitsFor
  <2>6. view'[v].wait # 0
    BY DEF WaitsFor
  <2>7. QED
    BY <2>3, <2>4, <2>5, <2>6
<1>4. StaleNeedsOverlap'
  <2> SUFFICES ASSUME NEW id \in Ids, cache'[id] # None, cache'[id].version < announced
               PROVE  cache'[id].old
    BY DEF StaleNeedsOverlap
  <2>1. CASE cache'[id] = cache[id]
    BY <1>1, <2>1 DEF StaleNeedsOverlap
  <2>2. ASSUME NEW b \in batches, b.seen # None, cache'[id].version = b.seen, cache'[id].old = b.old
        PROVE  cache'[id].old
    BY <1>1, <2>2 DEF Marked
  <2>3. QED
    BY <2>1, <2>2
<1>5. ShownIncludesTip'
  <2> SUFFICES ASSUME NEW v \in Views, view'[v].status = "ok"
               PROVE  view'[v].shows >= view'[v].atLeast
    BY DEF ShownIncludesTip
  <2>1. CASE view'[v] = view[v]
    BY <1>1, <2>1 DEF ShownIncludesTip
  <2>2. QED
    BY <2>1
<1>6. QED
  BY <1>2, <1>3, <1>4, <1>5 DEF BalanceInv

\* A view loads: what is cached was read, and a request of a new number is queued.
LEMMA LoadStep ==
    ASSUME BalanceInv, version' = version, NEW v \in Views, NEW force \in BOOLEAN, Load(v, force)
    PROVE  BalanceInv'
<1> PICK id, u, n : id = IdOf[v] /\ u = view[v] /\ n = version
  OBVIOUS
<1>1. /\ BalanceTypes /\ announced' = announced /\ batches' = batches
      /\ id \in Ids /\ u \in Shown(n) /\ n \in Nat /\ issued \in Nat /\ inFlight[id] \in Nat
      /\ view = [w \in Views |-> view[w]]
  BY WalletAssumption DEF BalanceInv, BalanceTypes, Load
<1>2. ASSUME NEW r \in Nat, view' = [view EXCEPT ![v] = [@ EXCEPT !.status = "loading", !.wait = r,
                                                                  !.atLeast = 0]]
      PROVE  /\ view'[v] \in Shown(n) /\ view'[v].status = "loading" /\ view'[v].atLeast = 0
             /\ \A w \in Views : w # v => view'[w] = view[w]
             /\ view' = [w \in Views |-> view'[w]]
  <2>1. view'[v] = [u EXCEPT !.status = "loading", !.wait = r, !.atLeast = 0] /\ 0 \in 0 .. n
    BY <1>1, <1>2
  <2>2. view'[v] \in Shown(n) /\ view'[v].status = "loading" /\ view'[v].atLeast = 0
    <3>1. PICK new : new = view'[v]
      OBVIOUS
    <3>2. new = [u EXCEPT !.status = "loading", !.wait = r, !.atLeast = 0]
      BY <2>1, <3>1
    <3>3. new \in Shown(n) /\ new.status = "loading" /\ new.atLeast = 0
      BY <1>1, <1>2, <2>1, <3>2, ViewFields DEF Shown
    <3>4. QED
      BY <3>1, <3>3
  <2>3. QED
    BY <1>1, <1>2, <2>2
<1>3. ASSUME view'[v] \in Shown(n), \A w \in Views : w # v => view'[w] = view[w],
             view' = [w \in Views |-> view'[w]]
      PROVE  view' \in [Views -> Shown(version')]
  <2>1. \A w \in Views : view'[w] \in Shown(n)
    BY <1>1, <1>3 DEF BalanceTypes
  <2>2. QED
    BY <1>3, <2>1
<1>4. CASE ~ force /\ cache[id] # None
  <2>1. /\ view' = [view EXCEPT ![v] = [status |-> "ok", wait |-> 0, shows |-> cache[id].version,
                                        atLeast |-> 0]]
        /\ UNCHANGED <<cache, inFlight, queue, issued>>
    BY <1>4 DEF Load
  <2>2. cache[id].version \in Nat
    BY <1>1, <1>4 DEF BalanceTypes, Entry
  <2>3. view'[v] = [status |-> "ok", wait |-> 0, shows |-> cache[id].version, atLeast |-> 0]
    BY <1>1, <2>1
  <2>4. /\ view'[v] \in Shown(n) /\ view'[v].wait = 0 /\ view'[v].atLeast = 0
        /\ view'[v].shows \in Nat
    BY <1>1, <2>2, <2>3, ViewReset
  <2>5. (\A w \in Views : w # v => view'[w] = view[w]) /\ view' = [w \in Views |-> view'[w]]
    BY <1>1, <2>1
  <2>6. view' \in [Views -> Shown(version')]
    BY <1>3, <2>4, <2>5
  <2>7. BalanceTypes'
    BY <1>1, <2>1, <2>6 DEF BalanceTypes
  <2>8. view'[v].shows >= view'[v].atLeast
    BY <2>4
  <2>9. QED
    BY <1>1, <2>1, <2>4, <2>5, <2>7, <2>8, BalanceStep
<1>5. CASE (force \/ cache[id] = None) /\ inFlight[id] # 0
  <2>1. /\ view' = [view EXCEPT ![v] = [@ EXCEPT !.status = "loading", !.wait = inFlight[id],
                                                 !.atLeast = 0]]
        /\ UNCHANGED <<cache, inFlight, queue, issued>>
    BY <1>5 DEF Load
  <2>2. /\ view'[v] \in Shown(n) /\ view'[v].status = "loading" /\ view'[v].atLeast = 0
        /\ \A w \in Views : w # v => view'[w] = view[w]
        /\ view' = [w \in Views |-> view'[w]]
    BY <1>1, <1>2, <2>1
  <2>3. view' \in [Views -> Shown(version')]
    BY <1>3, <2>2
  <2>4. BalanceTypes'
    BY <1>1, <2>1, <2>3 DEF BalanceTypes
  <2>5. QED
    BY <1>1, <2>1, <2>2, <2>4, BalanceStep
<1>6. CASE (force \/ cache[id] = None) /\ inFlight[id] = 0
  <2>1. /\ view' = [view EXCEPT ![v] = [@ EXCEPT !.status = "loading", !.wait = issued + 1,
                                                 !.atLeast = 0]]
        /\ issued' = issued + 1 /\ queue' = [queue EXCEPT ![id] = issued + 1]
        /\ inFlight' = [inFlight EXCEPT ![id] = issued + 1]
        /\ cache' = [cache EXCEPT ![id] = None]
    BY <1>6 DEF Load
  <2>2. /\ view'[v] \in Shown(n) /\ view'[v].status = "loading" /\ view'[v].atLeast = 0
        /\ \A w \in Views : w # v => view'[w] = view[w]
        /\ view' = [w \in Views |-> view'[w]]
    <3>1. issued + 1 \in Nat
      BY <1>1
    <3>2. QED
      BY <1>2, <2>1, <3>1
  <2>3. view' \in [Views -> Shown(version')]
    BY <1>3, <2>2
  <2>4. batches' \subseteq Batch(issued')
    <3>1. issued \in Nat /\ issued + 1 \in Nat /\ issued <= issued + 1
      BY <1>1
    <3>2. Batch(issued) \subseteq Batch(issued + 1)
      BY <3>1, BatchesGrow
    <3>3. QED
      BY <1>1, <2>1, <3>2 DEF BalanceTypes
  <2>5. queue' \in [Ids -> 0 .. issued']
    <3>1. queue \in [Ids -> 0 .. issued] /\ \A k \in 0 .. issued : k \in 0 .. issued + 1
      BY <1>1 DEF BalanceTypes
    <3>2. issued + 1 \in 0 .. issued + 1
      BY <1>1
    <3>3. QED
      BY <2>1, <3>1, <3>2
  <2>6. /\ cache' \in [Ids -> Entry \cup {None}] /\ inFlight' \in [Ids -> Nat] /\ issued' \in Nat
        /\ \A i \in Ids : cache'[i] = cache[i] \/ cache'[i] = None
    BY <1>1, <2>1 DEF BalanceTypes
  <2>7. BalanceTypes'
    BY <1>1, <2>3, <2>4, <2>5, <2>6 DEF BalanceTypes
  <2>8. QED
    BY <1>1, <2>2, <2>6, <2>7, BalanceStep
<1>7. QED
  BY <1>4, <1>5, <1>6

\* A view is destroyed.
LEMMA UnmountStep ==
    ASSUME BalanceInv, version' = version, NEW v \in Views, Unmount(v)
    PROVE  BalanceInv'
<1>1. /\ BalanceTypes /\ view' = [view EXCEPT ![v] = NoView] /\ version \in Nat
      /\ UNCHANGED <<cache, inFlight, queue, issued, batches, announced>>
  BY DEF BalanceInv, BalanceTypes, Unmount
<1>2. NoView \in Shown(version) /\ NoView.wait = 0 /\ NoView.status = "absent"
  BY <1>1, ViewReset
<1>3. view' \in [Views -> Shown(version)] /\ \A w \in Views : view'[w] = view[w] \/ view'[w] = NoView
  BY <1>1, <1>2 DEF BalanceTypes
<1>4. BalanceTypes'
  BY <1>1, <1>3 DEF BalanceTypes
<1>5. QED
  BY <1>1, <1>2, <1>3, <1>4, BalanceStep

\* A cached balance expires.
LEMMA ExpireStep ==
    ASSUME BalanceInv, version' = version, NEW id \in Ids, Expire(id)
    PROVE  BalanceInv'
<1>1. /\ BalanceTypes /\ cache' = [cache EXCEPT ![id] = None]
      /\ UNCHANGED <<inFlight, queue, issued, batches, view, announced>>
  BY DEF BalanceInv, Expire
<1>2. /\ cache' \in [Ids -> Entry \cup {None}]
      /\ \A i \in Ids : cache'[i] = cache[i] \/ cache'[i] = None
  BY <1>1 DEF BalanceTypes
<1>3. BalanceTypes'
  BY <1>1, <1>2 DEF BalanceTypes
<1>4. QED
  BY <1>1, <1>2, <1>3, BalanceStep

\* The queued requests are sent.
LEMMA FlushStep ==
    ASSUME BalanceInv, version' = version, Flush
    PROVE  BalanceInv'
<1> PICK new : new = [requests |-> queue, single |-> FALSE, seen |-> None, old |-> FALSE]
  OBVIOUS
<1>1. /\ BalanceTypes /\ batches' = batches \cup {new} /\ queue' = [id \in Ids |-> 0]
      /\ UNCHANGED <<cache, inFlight, issued, view, announced>>
  BY DEF BalanceInv, Flush
<1>2. new \in Batch(issued) /\ new.seen = None /\ 0 \in 0 .. issued
  BY <1>1 DEF BalanceTypes, Batch
<1>3. BalanceTypes'
  BY <1>1, <1>2 DEF BalanceTypes
<1>4. \A b \in batches' : b \in batches \/ b.seen = None
  BY <1>1, <1>2
<1>5. QED
  BY <1>1, <1>3, <1>4, BalanceStep

\* The server reads the balances, with all tips that it has applied.
LEMMA ReadStep ==
    ASSUME BalanceInv, version' = version, NEW b \in batches, Read(b)
    PROVE  BalanceInv'
<1> PICK new : new = [b EXCEPT !.seen = version]
  OBVIOUS
<1>1. /\ BalanceTypes /\ batches' = (batches \ {b}) \cup {new} /\ b \in Batch(issued)
      /\ version \in Nat /\ UNCHANGED <<cache, inFlight, queue, issued, view, announced>>
  BY DEF BalanceInv, BalanceTypes, Read
<1>2. new \in Batch(issued) /\ new.seen = version /\ new.requests = b.requests
  BY <1>1, BatchRead
<1>3. BalanceTypes'
  BY <1>1, <1>2 DEF BalanceTypes
<1>4. \A c \in batches' : \/ c \in batches \/ c.seen = None
                          \/ c.seen = version /\ \E d \in batches : c.requests = d.requests
  BY <1>1, <1>2
<1>5. QED
  BY <1>1, <1>3, <1>4, BalanceStep

\* A batch that failed is asked for again.
LEMMA FallBackStep ==
    ASSUME BalanceInv, version' = version, NEW b \in batches, FallBack(b)
    PROVE  BalanceInv'
<1> DEFINE one(i) == [requests |-> [id \in Ids |-> IF id = i THEN b.requests[i] ELSE 0],
                      single |-> TRUE, seen |-> None, old |-> b.old]
<1>1. /\ BalanceTypes /\ batches' = (batches \ {b}) \cup {one(i) : i \in In(b)}
      /\ b \in Batch(issued) /\ UNCHANGED <<cache, inFlight, queue, issued, view, announced>>
  BY DEF BalanceInv, BalanceTypes, FallBack
<1>2. b.requests \in [Ids -> 0 .. issued] /\ b.old \in BOOLEAN /\ issued \in Nat
  BY <1>1, BatchFields DEF BalanceTypes
<1>3. ASSUME NEW i \in In(b)
      PROVE  one(i) \in Batch(issued) /\ one(i).seen = None
  <2>1. i \in Ids
    BY DEF In
  <2>2. [id \in Ids |-> IF id = i THEN b.requests[i] ELSE 0] \in [Ids -> 0 .. issued]
    BY <1>2, <2>1
  <2>3. QED
    BY <1>2, <2>2 DEF Batch
<1> HIDE DEF one
<1>4. \A c \in batches' : c \in Batch(issued) /\ (c \in batches \/ c.seen = None)
  BY <1>1, <1>3 DEF BalanceTypes
<1>5. BalanceTypes'
  BY <1>1, <1>4 DEF BalanceTypes
<1>6. QED
  BY <1>1, <1>4, <1>5, BalanceStep

\* An answer arrives.
LEMMA AnsweredStep ==
    ASSUME BalanceInv, version' = version, NEW b \in batches, Answered(b)
    PROVE  BalanceInv'
<1>1. /\ BalanceTypes /\ Awaited /\ b \in Batch(issued) /\ b.seen # None /\ batches' = batches \ {b}
      /\ UNCHANGED <<queue, issued, announced>>
  BY DEF BalanceInv, BalanceTypes, Answered
<1>2. b.seen \in Nat /\ b.old \in BOOLEAN
  BY <1>1, BatchFields
<1>3. /\ cache' \in [Ids -> Entry \cup {None}]
      /\ \A id \in Ids : \/ cache'[id] = cache[id]
                         \/ cache'[id].version = b.seen /\ cache'[id].old = b.old
  <2>1. [version |-> b.seen, old |-> b.old] \in Entry
    BY <1>2 DEF Entry
  <2>2. cache' = [id \in Ids |-> IF id \in In(b) THEN [version |-> b.seen, old |-> b.old]
                                 ELSE cache[id]]
    BY DEF Answered
  <2>3. QED
    BY <1>1, <2>1, <2>2 DEF BalanceTypes
<1>4. inFlight' \in [Ids -> Nat]
  BY <1>1 DEF BalanceTypes, Answered, Forgotten
<1>5. ASSUME NEW v \in Views
      PROVE  /\ view'[v] \in Shown(version)
             /\ \/ view'[v] = view[v]
                \/ view'[v].wait = 0 /\ view'[v].shows >= view'[v].atLeast
  <2>1. view[v] \in Shown(version)
    BY <1>1 DEF BalanceTypes
  <2>2. CASE WaitsFor(v, b)
    <3>1. PICK new : new = view'[v]
      OBVIOUS
    <3>2. PICK u \in Shown(version), s \in Nat : u = view[v] /\ s = b.seen
      BY <1>2, <2>1
    <3>3. new = [u EXCEPT !.status = "ok", !.wait = 0, !.shows = s]
      BY <2>2, <3>1, <3>2 DEF Answered
    <3>4. new \in Shown(version) /\ new.wait = 0 /\ new.shows = s /\ new.atLeast = u.atLeast
      BY <3>3, ViewFields DEF Shown
    <3>5. b.seen >= view[v].atLeast
      BY <1>1, <2>2 DEF Awaited
    <3>6. QED
      BY <3>1, <3>2, <3>4, <3>5
  <2>3. CASE ~ WaitsFor(v, b)
    BY <2>1, <2>3 DEF Answered
  <2>4. QED
    BY <2>2, <2>3
<1>6. view' \in [Views -> Shown(version)]
  BY <1>5 DEF Answered
<1>7. BalanceTypes'
  BY <1>1, <1>3, <1>4, <1>6 DEF BalanceTypes
<1>8. /\ \A v \in Views : \/ view'[v] = view[v]
                          \/ view'[v].wait = 0 \/ view'[v].atLeast = 0
      /\ \A v \in Views : \/ view'[v] = view[v] \/ view'[v].status # "ok"
                          \/ view'[v].shows >= view'[v].atLeast
      /\ \A id \in Ids : \/ cache'[id] = cache[id] \/ cache'[id] = None
                         \/ \E c \in batches : /\ c.seen # None /\ cache'[id].version = c.seen
                                               /\ cache'[id].old = c.old
      /\ \A c \in batches' : c \in batches
  BY <1>1, <1>3, <1>5
<1>9. QED
  BY <1>1, <1>7, <1>8, BalanceStep

\* A request fails.
LEMMA RejectedStep ==
    ASSUME BalanceInv, version' = version, NEW b \in batches, Rejected(b)
    PROVE  BalanceInv'
<1>1. /\ BalanceTypes /\ batches' = batches \ {b} /\ UNCHANGED <<cache, queue, issued, announced>>
  BY DEF BalanceInv, Rejected
<1>2. inFlight' \in [Ids -> Nat]
  BY <1>1 DEF BalanceTypes, Rejected, Forgotten
<1>3. ASSUME NEW v \in Views
      PROVE  /\ view'[v] \in Shown(version)
             /\ view'[v] = view[v] \/ (view'[v].wait = 0 /\ view'[v].status = "error")
  <2>1. view[v] \in Shown(version)
    BY <1>1 DEF BalanceTypes
  <2>2. CASE WaitsFor(v, b)
    <3>1. PICK new : new = view'[v]
      OBVIOUS
    <3>2. PICK u \in Shown(version) : u = view[v]
      BY <2>1
    <3>3. new = [u EXCEPT !.status = "error", !.wait = 0]
      BY <2>2, <3>1, <3>2 DEF Rejected
    <3>4. new \in Shown(version) /\ new.wait = 0 /\ new.status = "error"
      BY <3>3, ViewFields DEF Shown
    <3>5. QED
      BY <3>1, <3>4
  <2>3. CASE ~ WaitsFor(v, b)
    BY <2>1, <2>3 DEF Rejected
  <2>4. QED
    BY <2>2, <2>3
<1>4. view' \in [Views -> Shown(version)]
  BY <1>3 DEF Rejected
<1>5. BalanceTypes'
  BY <1>1, <1>2, <1>4 DEF BalanceTypes
<1>6. /\ \A v \in Views : \/ view'[v] = view[v]
                          \/ view'[v].wait = 0 \/ view'[v].atLeast = 0
      /\ \A v \in Views : \/ view'[v] = view[v] \/ view'[v].status # "ok"
                          \/ view'[v].shows >= view'[v].atLeast
      /\ \A c \in batches' : c \in batches
  BY <1>1, <1>3
<1>7. QED
  BY <1>1, <1>5, <1>6, BalanceStep

-----------------------------------------------------------------------------
(* The announcement of a tip.                                               *)

Leaders == {Leader(w) : w \in Mounted}
Listening(id) == {w \in Mounted : IdOf[w] = id}

\* One of the views of an account makes its request, which is a new one.
LEMMA NewRequest ==
    ASSUME BalanceTypes, NEW v \in Mounted
    PROVE  /\ RequestOf(v) \in Nat /\ RequestOf(v) > issued
           /\ Cardinality(Leaders) \in Nat /\ RequestOf(v) <= issued + Cardinality(Leaders)
<1>1. Mounted \subseteq Views /\ Views \subseteq Nat /\ IsFiniteSet(Mounted) /\ issued \in Nat
  <2>1. NumViews \in Int /\ 1 \in Int
    BY WalletAssumption
  <2>2. IsFiniteSet(Views)
    BY <2>1, FS_Interval DEF Views
  <2>3. Mounted \subseteq Views
    BY DEF Mounted
  <2>4. IsFiniteSet(Mounted)
    BY <2>2, <2>3, FS_Subset
  <2>5. Views \subseteq Nat /\ issued \in Nat
    BY <2>1 DEF Views, BalanceTypes
  <2>6. QED
    BY <2>3, <2>4, <2>5
<1>2. ASSUME NEW w \in Mounted
      PROVE  Leader(w) \in Mounted /\ Leader(w) \in Nat
  <2>1. PICK S : S = {u \in Mounted : IdOf[u] = IdOf[w]}
    OBVIOUS
  <2>2. S \subseteq Nat /\ S \subseteq Mounted /\ w \in S
    BY <1>1, <2>1
  <2>3. Min(S) \in S
    BY <2>2, MinExists
  <2>4. QED
    BY <2>1, <2>2, <2>3 DEF Leader
<1>3. Leaders \subseteq Mounted /\ IsFiniteSet(Leaders) /\ Leader(v) \in Leaders
  <2>1. Leaders \subseteq Mounted /\ Leader(v) \in Leaders
    BY <1>2 DEF Leaders
  <2>2. QED
    BY <1>1, <2>1, FS_Subset
<1>4. PICK S : S = {u \in Leaders : u <= Leader(v)}
  OBVIOUS
<1>5. S \subseteq Leaders /\ IsFiniteSet(S) /\ Leader(v) \in S
  BY <1>2, <1>3, <1>4, FS_Subset
<1>6. /\ Cardinality(S) \in Nat /\ Cardinality(Leaders) \in Nat
      /\ Cardinality(S) <= Cardinality(Leaders) /\ Cardinality(S) # 0
  BY <1>3, <1>5, FS_Subset, FS_CardinalityType, FS_EmptySet
<1>7. RequestOf(v) = issued + Cardinality(S)
  <2>1. IdOf[v] \in Ids
    BY <1>1, WalletAssumption
  <2>2. InvalidatedInFlight[IdOf[v]] = 0
    BY <2>1 DEF InvalidatedInFlight
  <2>3. QED
    BY <1>4, <2>2 DEF RequestOf, Leaders
<1>8. \A i, j, k \in Nat : j <= k /\ j # 0 => i + j \in Nat /\ i + j > i /\ i + j <= i + k
  OBVIOUS
<1>9. QED
  BY <1>1, <1>6, <1>7, <1>8

\* All views of an account wait for the same request.
LEMMA SameRequest ==
    ASSUME BalanceTypes, NEW id \in Ids, NEW v \in Listening(id)
    PROVE  Max({RequestOf(w) : w \in Listening(id)}) = RequestOf(v)
<1>1. \A w \in Listening(id) : Leader(w) = Leader(v) /\ IdOf[w] = IdOf[v]
  BY DEF Listening, Leader
<1>2. \A w \in Listening(id) : RequestOf(w) = RequestOf(v)
  BY <1>1 DEF RequestOf
<1>3. PICK r : r = RequestOf(v)
  OBVIOUS
<1>4. {RequestOf(w) : w \in Listening(id)} = {r}
  BY <1>2, <1>3
<1>5. r \in Nat
  BY <1>3, NewRequest DEF Listening
<1>6. Max({r}) = r
  BY <1>5 DEF Max
<1>7. QED
  BY <1>3, <1>4, <1>6

\* The listeners load again, with requests that no answer under way is for.
LEMMA AnnounceStep ==
    ASSUME BalanceInv, version' = version, NEW k \in 0 .. version, BalanceChanged(k)
    PROVE  BalanceInv'
<1>1. /\ BalanceTypes /\ version \in Nat /\ issued \in Nat /\ batches \subseteq Batch(issued)
      /\ Awaited /\ ShownIncludesTip
  BY DEF BalanceInv, BalanceTypes
<1>2. CASE Mounted = {}
  BY <1>2 DEF BalanceChanged, balances, BalanceInv, BalanceTypes, Marked, Awaited, WaitsFor,
     StaleNeedsOverlap, ShownIncludesTip
<1>3. CASE Mounted # {}
  <2> DEFINE newest(id, old) ==
                 IF \E v \in Mounted : IdOf[v] = id
                 THEN Max({RequestOf(v) : v \in {w \in Mounted : IdOf[w] = id}}) ELSE old
  <2>1. /\ cache' = InvalidatedCache
        /\ queue' = [id \in Ids |-> IF newest(id, 0) > issued THEN newest(id, 0) ELSE queue[id]]
        /\ inFlight' = [id \in Ids |-> newest(id, InvalidatedInFlight[id])]
        /\ issued' = issued + Cardinality(Leaders)
        /\ view' = [v \in Views |->
                        IF v \in Mounted
                        THEN [view[v] EXCEPT !.status = "loading", !.wait = RequestOf(v),
                                             !.atLeast = k]
                        ELSE view[v]]
        /\ batches' = {[b EXCEPT !.old = TRUE] : b \in batches}
        /\ announced' = k
    BY <1>3 DEF BalanceChanged, Leaders
  <2>2. issued' \in Nat /\ issued <= issued' /\ \A v \in Mounted : RequestOf(v) <= issued'
    <3>1. /\ Cardinality(Leaders) \in Nat
          /\ \A v \in Mounted : RequestOf(v) <= issued + Cardinality(Leaders)
      BY <1>1, <1>3, NewRequest
    <3>2. PICK i, n \in Nat : i = issued /\ n = Cardinality(Leaders)
      BY <1>1, <3>1
    <3>3. i + n \in Nat /\ i <= i + n
      OBVIOUS
    <3>4. QED
      BY <2>1, <3>1, <3>2, <3>3
  <2>3. ASSUME NEW id \in Ids, NEW old \in Nat
        PROVE  /\ newest(id, old) \in Nat
               /\ newest(id, old) = old \/ newest(id, old) \in 0 .. issued'
    <3>1. CASE \E v \in Mounted : IdOf[v] = id
      <4>1. PICK v \in Mounted : IdOf[v] = id
        BY <3>1
      <4>2. newest(id, old) = Max({RequestOf(w) : w \in Listening(id)})
        BY <3>1 DEF Listening
      <4>3. newest(id, old) = RequestOf(v)
        BY <1>1, <4>1, <4>2, SameRequest DEF Listening
      <4>4. RequestOf(v) \in Nat
        BY <1>1, NewRequest
      <4>5. RequestOf(v) \in 0 .. issued'
        BY <2>2, <4>4
      <4>6. QED
        BY <4>3, <4>4, <4>5
    <3>2. CASE ~ \E v \in Mounted : IdOf[v] = id
      BY <2>3, <3>2
    <3>3. QED
      BY <3>1, <3>2
  <2> HIDE DEF newest
  <2>4. queue' \in [Ids -> 0 .. issued'] /\ inFlight' \in [Ids -> Nat]
    <3>1. \A id \in Ids : queue[id] \in 0 .. issued' /\ InvalidatedInFlight[id] \in Nat
      <4>1. \A id \in Ids : queue[id] \in 0 .. issued
        BY <1>1 DEF BalanceTypes
      <4>2. \A n \in 0 .. issued : n \in 0 .. issued'
        BY <1>1, <2>2
      <4>3. QED
        BY <4>1, <4>2 DEF InvalidatedInFlight
    <3>2. 0 \in Nat /\ 0 \in 0 .. issued'
      BY <2>2
    <3>3. \A id \in Ids : newest(id, 0) \in 0 .. issued'
      BY <2>3, <3>2
    <3>4. \A id \in Ids : newest(id, InvalidatedInFlight[id]) \in Nat
      BY <2>3, <3>1
    <3>5. QED
      BY <2>1, <3>1, <3>3, <3>4
  <2>5. ASSUME NEW c \in batches'
        PROVE  c \in Batch(issued) /\ c.old = TRUE
    <3>1. PICK b \in batches : c = [b EXCEPT !.old = TRUE]
      BY <2>1
    <3>2. b \in Batch(issued)
      BY <1>1
    <3>3. QED
      BY <3>1, <3>2, BatchMarked
  <2>6. batches' \subseteq Batch(issued')
    BY <1>1, <2>2, <2>5, BatchesGrow
  <2>7. ASSUME NEW v \in Views
        PROVE  /\ view'[v] \in Shown(version)
               /\ v \in Mounted => /\ view'[v].status = "loading" /\ view'[v].wait = RequestOf(v)
               /\ v \notin Mounted => view'[v] = view[v]
    <3>1. PICK u \in Shown(version) : u = view[v]
      BY <1>1 DEF BalanceTypes
    <3>2. CASE v \in Mounted
      <4>1. PICK new : new = view'[v]
        OBVIOUS
      <4>2. PICK r \in Nat : r = RequestOf(v)
        BY <1>1, <3>2, NewRequest
      <4>3. new = [u EXCEPT !.status = "loading", !.wait = r, !.atLeast = k]
        BY <2>1, <3>1, <3>2, <4>1, <4>2
      <4>4. new \in Shown(version) /\ new.status = "loading" /\ new.wait = r
        BY <4>3, ViewFields DEF Shown
      <4>5. QED
        BY <3>2, <4>1, <4>2, <4>4
    <3>3. CASE v \notin Mounted
      BY <2>1, <3>1, <3>3
    <3>4. QED
      BY <3>2, <3>3
  <2>8. view' \in [Views -> Shown(version)]
    BY <2>1, <2>7
  <2>9. cache' \in [Ids -> Entry \cup {None}] /\ \A id \in Ids : cache'[id] = None
    BY <2>1 DEF InvalidatedCache
  <2>10. BalanceTypes'
    BY <1>1, <2>1, <2>2, <2>4, <2>6, <2>8, <2>9 DEF BalanceTypes
  <2>11. Marked' /\ StaleNeedsOverlap'
    BY <2>5, <2>9 DEF Marked, StaleNeedsOverlap
  <2>12. ShownIncludesTip'
    BY <1>1, <2>7 DEF ShownIncludesTip
  <2>13. ASSUME NEW v \in Views, NEW c \in batches', WaitsFor(v, c)', c.seen # None
         PROVE  c.seen >= view'[v].atLeast
    <3>1. PICK b \in batches : c = [b EXCEPT !.old = TRUE]
      BY <2>1
    <3>2. b \in Batch(issued)
      BY <1>1
    <3>3. c.requests = b.requests /\ c.seen = b.seen
      BY <3>1, <3>2, BatchMarked
    <3>4. view'[v].wait # 0 /\ view'[v].wait = b.requests[IdOf[v]]
      BY <2>13, <3>3 DEF WaitsFor
    <3>5. v \notin Mounted
      <4>1. IdOf[v] \in Ids
        BY WalletAssumption
      <4>2. b.requests[IdOf[v]] \in 0 .. issued
        BY <3>2, <4>1, BatchFields
      <4>3. v \in Mounted => RequestOf(v) \in Nat /\ RequestOf(v) > issued
        BY <1>1, NewRequest
      <4>4. v \in Mounted => view'[v].wait = RequestOf(v)
        BY <2>7
      <4>5. QED
        BY <1>1, <3>4, <4>2, <4>3, <4>4
    <3>6. view'[v] = view[v]
      BY <2>7, <3>5
    <3>7. QED
      BY <1>1, <2>13, <3>3, <3>4, <3>6 DEF Awaited, WaitsFor
  <2>14. Awaited'
    BY <2>13 DEF Awaited
  <2>15. QED
    BY <2>10, <2>11, <2>12, <2>14 DEF BalanceInv
<1>4. QED
  BY <1>2, <1>3

\* The server has applied more tips since; the page does not know.
LEMMA VersionGrows ==
    ASSUME BalanceInv, UNCHANGED balances, version' \in Nat, version <= version'
    PROVE  BalanceInv'
<1>1. /\ BalanceTypes /\ version \in Nat
      /\ UNCHANGED <<cache, inFlight, queue, issued, batches, view, announced>>
  BY DEF BalanceInv, BalanceTypes, balances
<1>2. \A n \in 0 .. version : n \in 0 .. version'
  BY <1>1
<1>3. Shown(version) \subseteq Shown(version')
  BY <1>2 DEF Shown
<1>4. BalanceTypes'
  BY <1>1, <1>2, <1>3 DEF BalanceTypes
<1>5. Marked' /\ Awaited' /\ StaleNeedsOverlap' /\ ShownIncludesTip'
  BY <1>1 DEF BalanceInv, Marked, Awaited, WaitsFor, StaleNeedsOverlap, ShownIncludesTip
<1>6. QED
  BY <1>4, <1>5 DEF BalanceInv

-----------------------------------------------------------------------------
(* The tips.                                                                *)

\* A step of the page does not touch the tips.
LEMMA TipsKept ==
    ASSUME DialogInv, UNCHANGED tips
    PROVE  DialogInv'
BY DEF DialogInv, tips, Answerable

\* How the tips on their way are counted.
LEMMA CountTips ==
    ASSUME NEW S, IsFiniteSet(S), NEW k
    PROVE  /\ IsFiniteSet(S \cup {k}) /\ IsFiniteSet(S \ {k})
           /\ Cardinality(S) \in Nat /\ Cardinality(S \cup {k}) \in Nat
           /\ Cardinality(S \ {k}) \in Nat
           /\ Cardinality(S \cup {k}) <= Cardinality(S) + 1
           /\ Cardinality(S \ {k}) <= Cardinality(S)
           /\ k \in S => Cardinality(S \ {k}) = Cardinality(S) - 1
<1>1. IsFiniteSet(S \cup {k}) /\ IsFiniteSet(S \ {k})
  BY FS_AddElement, FS_RemoveElement
<1>2. /\ Cardinality(S) \in Nat /\ Cardinality(S \cup {k}) \in Nat
      /\ Cardinality(S \ {k}) \in Nat
  BY <1>1, FS_CardinalityType
<1>3. Cardinality(S \cup {k}) = IF k \in S THEN Cardinality(S) ELSE Cardinality(S) + 1
  BY FS_AddElement
<1>4. Cardinality(S \ {k}) = IF k \in S THEN Cardinality(S) - 1 ELSE Cardinality(S)
  BY FS_RemoveElement
<1>5. QED
  BY <1>1, <1>2, <1>3, <1>4

\* The dialog reads its account, and the page says what it wants to tip.
LEMMA QuietStep ==
    ASSUME DialogInv, version \in Nat, LoadAccount \/ Submit \/ Fetch
    PROVE  DialogInv'
<1>1. /\ pending' = pending /\ applied' = applied /\ lost' = lost /\ version' = version
      /\ nonce' = nonce \/ nonce' = version
      /\ dialog' \in {"idle", "unavailable", "fetching", "signing"}
      /\ dialog \in {"loading", "unavailable", "idle", "error", "fetching"}
  BY DEF LoadAccount, Submit, CanSubmit, Fetch
<1>2. Answerable = 0 /\ Answerable' = 0
  BY <1>1 DEF Answerable
<1>3. nonce' \in Nat
  BY <1>1 DEF DialogInv
<1>4. /\ dialog' # "submitting" /\ dialog' # "accepted"
  BY <1>1
<1>5. QED
  BY <1>1, <1>2, <1>3, <1>4 DEF DialogInv

\* A tip is sent.
LEMMA SignStep ==
    ASSUME DialogInv, Sign
    PROVE  DialogInv'
<1>1. /\ pending \subseteq Nat /\ IsFiniteSet(pending) /\ nonce \in Nat /\ applied \in Nat
      /\ lost \in Nat /\ applied + Cardinality(pending) <= lost + Answerable
  BY DEF DialogInv
<1>2. Answerable = 0 /\ nonce' = nonce /\ applied' = applied /\ lost' = lost
  BY DEF Sign, Answerable
<1>3. CASE dialog' = "error" /\ UNCHANGED pending
  BY <1>1, <1>2, <1>3 DEF DialogInv, Answerable
<1>4. CASE dialog' = "submitting" /\ pending' = pending \cup {nonce + 1}
  <2>1. PICK k \in Nat : k = nonce + 1
    BY <1>1
  <2>2. pending' = pending \cup {k} /\ pending' \subseteq Nat /\ k \in pending'
    BY <1>1, <1>4, <2>1
  <2>3. /\ IsFiniteSet(pending') /\ Cardinality(pending') <= Cardinality(pending) + 1
        /\ Cardinality(pending') \in Nat /\ Cardinality(pending) \in Nat
    BY <1>1, <2>2, CountTips
  <2>4. Answerable' = 1
    BY <1>4 DEF Answerable
  <2>5. applied' + Cardinality(pending') <= lost' + Answerable'
    BY <1>1, <1>2, <2>3, <2>4
  <2>6. QED
    BY <1>1, <1>2, <1>4, <2>1, <2>2, <2>3, <2>5 DEF DialogInv
<1>5. QED
  BY <1>3, <1>4 DEF Sign

\* The server gets a tip.
LEMMA ApplyStep ==
    ASSUME DialogInv, version \in Nat, NEW k \in pending, Apply(k)
    PROVE  DialogInv' /\ version' \in Nat /\ version <= version'
<1>1. /\ pending \subseteq Nat /\ IsFiniteSet(pending) /\ nonce \in Nat /\ applied \in Nat
      /\ lost \in Nat /\ applied + Cardinality(pending) <= lost + Answerable
      /\ dialog = "submitting" => nonce + 1 \in pending
      /\ dialog = "accepted" => nonce + 1 <= version
      /\ k \in Nat
  BY DEF DialogInv
<1>2. /\ version' = IF k = version + 1 THEN k ELSE version
      /\ applied' = IF k = version + 1 THEN applied + 1 ELSE applied
      /\ pending' = pending \ {k}
      /\ dialog' = IF dialog = "submitting" /\ k = nonce + 1
                   THEN IF k = version + 1 THEN "accepted" ELSE "refused"
                   ELSE dialog
      /\ nonce' = nonce /\ lost' = lost
  BY DEF Apply
<1>3. version' \in Nat /\ version <= version' /\ applied' \in Nat
  BY <1>1, <1>2
<1>4. /\ IsFiniteSet(pending') /\ Cardinality(pending') = Cardinality(pending) - 1
      /\ Cardinality(pending) \in Nat
  BY <1>1, <1>2, CountTips
<1>5. dialog' = "submitting" => nonce' + 1 \in pending'
  BY <1>1, <1>2
<1>6. dialog' = "accepted" => nonce' + 1 <= version'
  BY <1>1, <1>2
<1>7. applied' + Cardinality(pending') <= lost' + Answerable'
  <2>1. Answerable \in {0, 1} /\ Answerable' \in {0, 1}
    BY DEF Answerable
  <2>2. PICK p \in Nat : p = Cardinality(pending) /\ Cardinality(pending') = p - 1
    BY <1>4
  <2>3. CASE k = version + 1
    <3>1. Answerable' = Answerable
      BY <1>2, <2>3 DEF Answerable
    <3>2. applied' = applied + 1
      BY <1>2, <2>3
    <3>3. QED
      BY <1>1, <1>2, <2>1, <2>2, <3>1, <3>2
  <2>4. CASE k # version + 1
    <3>1. applied' = applied
      BY <1>2, <2>4
    <3>2. PICK i, j \in 0 .. 1 : i = Answerable /\ j = Answerable'
      BY <2>1
    <3>3. i <= j + 1
      OBVIOUS
    <3>4. applied + p <= lost + i
      BY <1>1, <2>2, <3>2
    <3>5. applied + (p - 1) <= lost + j
      BY <1>1, <3>3, <3>4
    <3>6. QED
      BY <1>2, <2>2, <3>1, <3>2, <3>5
  <2>5. QED
    BY <2>3, <2>4
<1>8. QED
  BY <1>1, <1>2, <1>3, <1>4, <1>5, <1>6, <1>7 DEF DialogInv

\* The reply arrives.
LEMMA ReplyStep ==
    ASSUME DialogInv, Reply
    PROVE  DialogInv'
<1>1. UNCHANGED <<version, pending, nonce, applied, lost>>
  BY DEF Reply
<1>2. /\ dialog' \in {"success", "error"}
      /\ \/ dialog = "accepted" /\ dialog' = "success"
         \/ dialog = "refused" /\ dialog' = "error"
  BY DEF Reply
<1>3. Answerable' = Answerable
  BY <1>2 DEF Answerable
<1>4. dialog' # "submitting" /\ dialog' # "accepted"
  BY <1>2
<1>5. QED
  BY <1>1, <1>3, <1>4 DEF DialogInv

\* The reply is lost, and perhaps the tip.
LEMMA LoseReplyStep ==
    ASSUME DialogInv, LoseReply
    PROVE  DialogInv'
<1>1. /\ pending \subseteq Nat /\ IsFiniteSet(pending) /\ nonce \in Nat /\ applied \in Nat
      /\ lost \in Nat /\ applied + Cardinality(pending) <= lost + Answerable
  BY DEF DialogInv
<1>2. /\ dialog' = "error" /\ lost' = lost + 1 /\ nonce' = nonce /\ applied' = applied
      /\ pending' = pending \/ pending' = pending \ {nonce + 1}
  BY DEF LoseReply
<1>3. /\ IsFiniteSet(pending') /\ Cardinality(pending') <= Cardinality(pending)
      /\ Cardinality(pending') \in Nat /\ Cardinality(pending) \in Nat
      /\ pending' \subseteq Nat
  <2>1. Cardinality(pending) \in Nat
    BY <1>1, FS_CardinalityType
  <2>2. CASE pending' = pending
    BY <1>1, <2>1, <2>2
  <2>3. CASE pending' = pending \ {nonce + 1}
    BY <1>1, <2>1, <2>3, CountTips
  <2>4. QED
    BY <1>2, <2>2, <2>3
<1>4. Answerable \in {0, 1} /\ Answerable' = 0
  BY <1>2 DEF Answerable
<1>5. applied' + Cardinality(pending') <= lost' + Answerable'
  BY <1>1, <1>2, <1>3, <1>4
<1>6. QED
  BY <1>1, <1>2, <1>3, <1>5 DEF DialogInv

-----------------------------------------------------------------------------
(* The invariant.                                                           *)

LEMMA Initially == Init => Inv
<1> SUFFICES ASSUME Init PROVE Inv
  OBVIOUS
<1>1. /\ \A v \in Views : view[v] = NoView
      /\ view \in [Views -> Shown(version)]
  <2>1. NoView \in Shown(0)
    BY DEF NoView, Shown
  <2>2. QED
    BY <2>1 DEF Init
<1>2. BalanceTypes
  BY <1>1 DEF Init, BalanceTypes, Entry
<1>3. Marked /\ Awaited /\ StaleNeedsOverlap
  BY DEF Init, Marked, Awaited, StaleNeedsOverlap
<1>4. ShownIncludesTip
  BY <1>1 DEF ShownIncludesTip, NoView
<1>5. DialogInv
  <2>1. IsFiniteSet({}) /\ Cardinality({}) = 0
    BY FS_EmptySet
  <2>2. QED
    BY <2>1 DEF Init, DialogInv, Answerable
<1>6. QED
  BY <1>2, <1>3, <1>4, <1>5 DEF Inv, BalanceInv

\* A task of the page.
LEMMA PageSteps ==
    ASSUME Inv, PageStep
    PROVE  Inv'
<1>1. BalanceInv /\ DialogInv /\ UNCHANGED tips /\ version' = version
  BY DEF Inv, PageStep, tips
<1>2. BalanceInv'
  <2>1. ASSUME NEW v \in Views, Mount(v)
        PROVE  BalanceInv'
    BY <1>1, <2>1, LoadStep DEF Mount
  <2>2. ASSUME NEW v \in Views, Retry(v)
        PROVE  BalanceInv'
    BY <1>1, <2>2, LoadStep DEF Retry
  <2>3. ASSUME NEW v \in Views, Unmount(v)
        PROVE  BalanceInv'
    BY <1>1, <2>3, UnmountStep
  <2>4. ASSUME NEW id \in Ids, Expire(id)
        PROVE  BalanceInv'
    BY <1>1, <2>4, ExpireStep
  <2>5. CASE Flush
    BY <1>1, <2>5, FlushStep
  <2>6. ASSUME NEW b \in batches, Read(b)
        PROVE  BalanceInv'
    BY <1>1, <2>6, ReadStep
  <2>7. ASSUME NEW b \in batches, Settle(b)
        PROVE  BalanceInv'
    BY <1>1, <2>7, AnsweredStep, FallBackStep, RejectedStep DEF Settle
  <2>8. QED
    BY <2>1, <2>2, <2>3, <2>4, <2>5, <2>6, <2>7 DEF PageStep, ViewStep
<1>3. DialogInv'
  BY <1>1, TipsKept
<1>4. QED
  BY <1>2, <1>3 DEF Inv

\* A step of the dialog, of the server or of another device.
LEMMA DialogSteps ==
    ASSUME Inv, DialogStep
    PROVE  Inv'
<1>1. BalanceInv /\ DialogInv /\ version \in Nat
  BY DEF Inv, BalanceInv, BalanceTypes
<1>2. CASE LoadAccount \/ Submit \/ Fetch
  <2>1. UNCHANGED balances /\ version' = version
    BY <1>2 DEF LoadAccount, Submit, Fetch
  <2>2. BalanceInv'
    BY <1>1, <2>1, VersionGrows
  <2>3. DialogInv'
    BY <1>1, <1>2, QuietStep
  <2>4. QED
    BY <2>2, <2>3 DEF Inv
<1>3. CASE Sign
  <2>1. UNCHANGED balances /\ version' = version
    BY <1>3 DEF Sign
  <2>2. BalanceInv'
    BY <1>1, <2>1, VersionGrows
  <2>3. QED
    BY <1>1, <1>3, <2>2, SignStep DEF Inv
<1>4. CASE Reply
  <2>1. version' = version
    BY <1>4 DEF Reply
  <2>2. BalanceInv'
    <3>1. CASE dialog = "accepted" /\ BalanceChanged(nonce + 1)
      <4>1. nonce \in Nat /\ nonce + 1 <= version
        BY <1>1, <3>1 DEF DialogInv
      <4>2. nonce + 1 \in 0 .. version
        BY <1>1, <4>1
      <4>3. QED
        BY <1>1, <2>1, <3>1, <4>2, AnnounceStep
    <3>2. CASE UNCHANGED balances
      BY <1>1, <2>1, <3>2, VersionGrows
    <3>3. QED
      BY <1>4, <3>1, <3>2 DEF Reply
  <2>3. QED
    BY <1>1, <1>4, <2>2, ReplyStep DEF Inv
<1>5. CASE LoseReply
  <2>1. UNCHANGED balances /\ version' = version
    BY <1>5 DEF LoseReply
  <2>2. BalanceInv'
    BY <1>1, <2>1, VersionGrows
  <2>3. QED
    BY <1>1, <1>5, <2>2, LoseReplyStep DEF Inv
<1>6. CASE OtherDevice
  <2>1. UNCHANGED balances /\ version' \in Nat /\ version <= version' /\ version' = version + 1
    BY <1>1, <1>6 DEF OtherDevice
  <2>2. BalanceInv'
    BY <1>1, <2>1, VersionGrows
  <2>3. UNCHANGED <<pending, dialog, nonce, applied, lost>>
    BY <1>6 DEF OtherDevice
  <2>4. Answerable' = Answerable
    BY <2>3 DEF Answerable
  <2>5. dialog' = "accepted" => nonce' + 1 <= version'
    BY <1>1, <2>1, <2>3 DEF DialogInv
  <2>6. DialogInv'
    BY <1>1, <2>3, <2>4, <2>5 DEF DialogInv
  <2>7. QED
    BY <2>2, <2>6 DEF Inv
<1>7. ASSUME NEW k \in pending, Apply(k)
      PROVE  Inv'
  <2>1. UNCHANGED balances
    BY <1>7 DEF Apply
  <2>2. DialogInv' /\ version' \in Nat /\ version <= version'
    BY <1>1, <1>7, ApplyStep
  <2>3. BalanceInv'
    BY <1>1, <2>1, <2>2, VersionGrows
  <2>4. QED
    BY <2>2, <2>3 DEF Inv
<1>8. QED
  BY <1>2, <1>3, <1>4, <1>5, <1>6, <1>7 DEF DialogStep

LEMMA Step == Inv /\ [Next]_vars => Inv'
<1> SUFFICES ASSUME Inv, [Next]_vars PROVE Inv'
  OBVIOUS
<1>1. CASE PageStep
  BY <1>1, PageSteps
<1>2. CASE DialogStep
  BY <1>2, DialogSteps
<1>3. CASE UNCHANGED vars
  <2>1. UNCHANGED balances /\ UNCHANGED tips
    BY <1>3 DEF vars
  <2>2. BalanceInv /\ DialogInv /\ version' = version /\ version \in Nat
    BY <2>1 DEF Inv, BalanceInv, BalanceTypes, tips
  <2>3. QED
    BY <2>1, <2>2, VersionGrows, TipsKept DEF Inv
<1>4. QED
  BY <1>1, <1>2, <1>3 DEF Next

\* Requests are numbered in the order in which they are made, no view awaits an
\* answer that lacks its tip, and what the server applied of the dialog's tips, or
\* may yet apply, answers to a reply that is missing.
THEOREM Invariance == Spec => []Inv
BY Initially, Step, PTL DEF Spec

\* However many views load, join, leave and retry: once a tip is announced,
\* the cache serves an older balance only if its request overlapped the tip.
THEOREM CacheAfterTips == Spec => []StaleNeedsOverlap
<1>1. Inv => StaleNeedsOverlap
  BY DEF Inv, BalanceInv
<1>2. QED
  BY <1>1, Invariance, PTL

\* A view that loads again because of a tip never shows a balance without it, for
\* any number of views that share, replace and give up requests.
THEOREM ViewsAfterTips == Spec => []ShownIncludesTip
<1>1. Inv => ShownIncludesTip
  BY DEF Inv, BalanceInv
<1>2. QED
  BY <1>1, Invariance, PTL

\* The dialog has the server apply a tip that it does not report only if it lost a
\* reply, for any number of submissions and of tips from other devices.
THEOREM OneTipPerReply == Spec => []TipsNeedLostReplies
<1>1. Inv => TipsNeedLostReplies
  <2> SUFFICES ASSUME Inv PROVE TipsNeedLostReplies
    OBVIOUS
  <2>1. /\ IsFiniteSet(pending) /\ applied \in Nat /\ lost \in Nat /\ nonce \in Nat
        /\ applied + Cardinality(pending) <= lost + Answerable
        /\ dialog = "submitting" => nonce + 1 \in pending
    BY DEF Inv, DialogInv
  <2>2. Cardinality(pending) \in Nat
    BY <2>1, FS_CardinalityType
  <2>3. CASE dialog = "submitting"
    <3>1. Cardinality(pending) # 0
      BY <2>1, <2>3, FS_EmptySet
    <3>2. Answerable = 1
      BY <2>3 DEF Answerable
    <3>3. applied <= lost
      BY <2>1, <2>2, <3>1, <3>2
    <3>4. QED
      BY <2>3, <3>3, <2>1 DEF TipsNeedLostReplies
  <2>4. CASE dialog # "submitting"
    BY <2>1, <2>2, <2>4 DEF TipsNeedLostReplies, Answerable
  <2>5. QED
    BY <2>3, <2>4
<1>2. QED
  BY <1>1, Invariance, PTL

=============================================================================
