------------------------------- MODULE Wallet -------------------------------
(***************************************************************************)
(* The theme's wallet in one page of the forum: the balance cache and its   *)
(* batched requests (lib/wallet-api.js), the views that show balances       *)
(* (post-avatar-balance.gjs and the user card) and a tip dialog             *)
(* (tip-modal.gjs), against a server that another device uses as well.      *)
(*                                                                         *)
(* A task of the page runs to its end, with the promises it settles, before *)
(* another begins; each is a step.  A balance is known by its version, the  *)
(* number of the user's tips that it reflects, which is also the nonce:     *)
(* every tip changes the balances of all Ids.                               *)
(***************************************************************************)
EXTENDS Integers, FiniteSets, FiniteSetsExt

CONSTANTS
    Ids,        \* the accounts, of the user and of those tipped
    NumViews,   \* the views of balances, 1 .. NumViews in the order of their creation
    IdOf,       \* IdOf[v]: the account that view v shows
    None,
    MaxTips,    \* bound: the tips that are applied
    MaxLoads,   \* bound: the requests after which no view that is new or retried makes one
    MaxSubmits  \* bound: the submissions of the dialog

Views == 1 .. NumViews

ASSUME WalletAssumption ==
    /\ NumViews \in Nat /\ IdOf \in [Views -> Ids]
    /\ {MaxTips, MaxLoads, MaxSubmits} \subseteq Nat

VARIABLES
    version,  \* the tips that the server has applied
    pending,  \* the nonces of tips on their way to the server
    cache,    \* BALANCE_CACHE: the version of an entry, and whether its request
              \* was under way when a change was announced
    inFlight, \* BALANCE_IN_FLIGHT: the request to join, by number; 0 for none
    queue,    \* BALANCE_BATCH_QUEUE: the request whose callbacks wait for the timer
    issued,   \* the number of the last request
    batches,  \* the requests under way
    view,     \* view[v]: its status, the request it waits for, the version it shows
              \* and the one its load was to include
    dialog,   \* the status of the dialog
    nonce,    \* the nonce that the dialog has read
    submits, applied, lost,  \* history: submissions, tips applied, replies lost
    announced, \* history: the version of the last change announced to a view
    failed     \* history: a balance request and its fallback failed

balances == <<cache, inFlight, queue, issued, batches, view, announced, failed>>
tips == <<version, pending, dialog, nonce, submits, applied, lost>>
vars == <<balances, tips>>

NoView == [status |-> "absent", wait |-> 0, shows |-> 0, atLeast |-> 0]
Mounted == {v \in Views : view[v].status # "absent"}

-----------------------------------------------------------------------------
(* Faulty variants of the definitions below.                                *)

EachItsOwn(v) == v
CacheKept == cache
InFlightKept == inFlight
SubmitsAgain == dialog \in {"idle", "error", "success"}

-----------------------------------------------------------------------------
(* Balances.                                                                *)

\* fetchAccount by the load of one view: a cached balance is shown at once, a
\* request in flight is joined, and otherwise one is queued.
Load(v, force) ==
    LET id == IdOf[v]
        loading(r) == [view EXCEPT ![v] = [@ EXCEPT !.status = "loading", !.wait = r,
                                                    !.atLeast = 0]] IN
    /\ UNCHANGED <<batches, announced, failed>>
    /\ \/ /\ ~ force /\ cache[id] # None
          /\ view' = [view EXCEPT ![v] = [status |-> "ok", wait |-> 0,
                                          shows |-> cache[id].version, atLeast |-> 0]]
          /\ UNCHANGED <<cache, inFlight, queue, issued>>
       \/ /\ force \/ cache[id] = None
          /\ inFlight[id] # 0
          /\ view' = loading(inFlight[id])
          /\ UNCHANGED <<cache, inFlight, queue, issued>>
       \/ /\ force \/ cache[id] = None
          /\ inFlight[id] = 0
          /\ issued < MaxLoads
          /\ issued' = issued + 1
          /\ queue' = [queue EXCEPT ![id] = issued']
          /\ inFlight' = [inFlight EXCEPT ![id] = issued']
          /\ cache' = [cache EXCEPT ![id] = None]
          /\ view' = loading(issued')

Mount(v) == view[v].status = "absent" /\ Load(v, FALSE)

\* The user card loads again when it is clicked in an error.
Retry(v) == view[v].status = "error" /\ Load(v, TRUE)

\* A destroyed view ignores what its load ends with.
Unmount(v) ==
    /\ view[v].status # "absent"
    /\ view' = [view EXCEPT ![v] = NoView]
    /\ UNCHANGED <<cache, inFlight, queue, issued, batches, announced, failed>>

\* A cached balance is older than BALANCE_CACHE_TTL_MS.  One that was cached while
\* a request of its account is queued is not: the timer fires long before.
Expire(id) ==
    /\ cache[id] # None /\ queue[id] = 0
    /\ cache' = [cache EXCEPT ![id] = None]
    /\ UNCHANGED <<inFlight, queue, issued, batches, view, announced, failed>>

\* flushAccountBatch, when the timer fires.
Flush ==
    /\ \E id \in Ids : queue[id] # 0
    /\ batches' = batches \cup {[requests |-> queue, single |-> FALSE, seen |-> None, old |-> FALSE]}
    /\ queue' = [id \in Ids |-> 0]
    /\ UNCHANGED <<cache, inFlight, issued, view, announced, failed>>

\* The server reads the balances of a request.
Read(b) ==
    /\ b.seen = None
    /\ batches' = (batches \ {b}) \cup {[b EXCEPT !.seen = version]}
    /\ UNCHANGED <<cache, inFlight, queue, issued, view, announced, failed>>

In(b) == {id \in Ids : b.requests[id] # 0}
WaitsFor(v, b) == view[v].wait # 0 /\ view[v].wait = b.requests[IdOf[v]]

\* The request of id that is in flight, of whichever load, is forgotten when the
\* load that made a request ends.
Forgotten(b) == [id \in Ids |-> IF id \in In(b) THEN 0 ELSE inFlight[id]]

Answered(b) ==
    /\ b.seen # None
    /\ batches' = batches \ {b}
    /\ cache' = [id \in Ids |-> IF id \in In(b) THEN [version |-> b.seen, old |-> b.old]
                                ELSE cache[id]]
    /\ inFlight' = Forgotten(b)
    /\ view' = [v \in Views |-> IF WaitsFor(v, b)
                                THEN [view[v] EXCEPT !.status = "ok", !.wait = 0, !.shows = b.seen]
                                ELSE view[v]]
    /\ UNCHANGED <<queue, issued, announced, failed>>

\* A failed batch is asked for again one by one.
FallBack(b) ==
    /\ ~ b.single
    /\ batches' = (batches \ {b}) \cup
           {[requests |-> [id \in Ids |-> IF id = i THEN b.requests[i] ELSE 0],
             single |-> TRUE, seen |-> None, old |-> b.old] : i \in In(b)}
    /\ UNCHANGED <<cache, inFlight, queue, issued, view, announced, failed>>

Rejected(b) ==
    /\ b.single
    /\ batches' = batches \ {b}
    /\ inFlight' = Forgotten(b)
    /\ view' = [v \in Views |-> IF WaitsFor(v, b)
                                THEN [view[v] EXCEPT !.status = "error", !.wait = 0]
                                ELSE view[v]]
    /\ failed' = TRUE
    /\ UNCHANGED <<cache, queue, issued, announced>>

-----------------------------------------------------------------------------
(* BALANCE_CHANGED_EVENT, which names all Ids.                              *)

\* invalidateBalances
InvalidatedCache == [id \in Ids |-> None]
InvalidatedInFlight == [id \in Ids |-> 0]

\* The view that makes the request which view v waits for: the first listener
\* invalidates and says so in the event, and the others of its account join.
Leader(v) == Min({w \in Mounted : IdOf[w] = IdOf[v]})

RequestOf(v) ==
    IF InvalidatedInFlight[IdOf[v]] # 0 THEN InvalidatedInFlight[IdOf[v]]
    ELSE issued + Cardinality({u \in {Leader(w) : w \in Mounted} : u <= Leader(v)})

\* The listeners are the mounted views; without any, nothing is invalidated.
BalanceChanged(newVersion) ==
    LET newest(id, old) ==
            IF \E v \in Mounted : IdOf[v] = id
            THEN Max({RequestOf(v) : v \in {w \in Mounted : IdOf[w] = id}}) ELSE old IN
    IF Mounted = {} THEN UNCHANGED balances
    ELSE /\ cache' = InvalidatedCache
         /\ queue' = [id \in Ids |-> IF newest(id, 0) > issued THEN newest(id, 0) ELSE queue[id]]
         /\ inFlight' = [id \in Ids |-> newest(id, InvalidatedInFlight[id])]
         /\ issued' = issued + Cardinality({Leader(v) : v \in Mounted})
         /\ view' = [v \in Views |->
                        IF v \in Mounted
                        THEN [view[v] EXCEPT !.status = "loading", !.wait = RequestOf(v),
                                             !.atLeast = newVersion]
                        ELSE view[v]]
         /\ batches' = {[b EXCEPT !.old = TRUE] : b \in batches}
         /\ announced' = newVersion
         /\ UNCHANGED failed

-----------------------------------------------------------------------------
(* The tip dialog.                                                          *)

\* The account that the dialog needs is read, or not: not logged in, an error.
LoadAccount ==
    /\ dialog \in {"loading", "unavailable"}
    /\ dialog' \in {"idle", "unavailable"}
    /\ UNCHANGED <<version, pending, nonce, submits, applied, lost, balances>>

CanSubmit == dialog \in {"idle", "error"}

Submit ==
    /\ CanSubmit /\ submits < MaxSubmits
    /\ dialog' = "fetching"
    /\ submits' = submits + 1
    /\ UNCHANGED <<version, pending, nonce, applied, lost, balances>>

\* The account is read again, for its nonce.
Fetch ==
    /\ dialog = "fetching"
    /\ \/ dialog' = "signing" /\ nonce' = version
       \/ dialog' = "unavailable" /\ UNCHANGED nonce
    /\ UNCHANGED <<version, pending, submits, applied, lost, balances>>

\* Too few points, a refused registration or another key than the account's
\* ends the submission; otherwise the signed tip is sent.
Sign ==
    /\ dialog = "signing"
    /\ \/ dialog' = "error" /\ UNCHANGED pending
       \/ dialog' = "submitting" /\ pending' = pending \cup {nonce + 1}
    /\ UNCHANGED <<version, nonce, submits, applied, lost, balances>>

\* The server applies a tip with the next nonce, even if the page has given up on
\* it; one with another nonce is refused.
Apply(k) ==
    /\ k = version + 1 => version < MaxTips
    /\ version' = IF k = version + 1 THEN k ELSE version
    /\ applied' = IF k = version + 1 THEN applied + 1 ELSE applied
    /\ pending' = pending \ {k}
    /\ dialog' = IF dialog = "submitting" /\ k = nonce + 1
                 THEN IF k = version + 1 THEN "accepted" ELSE "refused"
                 ELSE dialog
    /\ UNCHANGED <<nonce, submits, lost, balances>>

\* The reply arrives; success is announced to the views in the same task.
Reply ==
    /\ \/ dialog = "accepted" /\ dialog' = "success" /\ BalanceChanged(nonce + 1)
       \/ dialog = "refused" /\ dialog' = "error" /\ UNCHANGED balances
    /\ UNCHANGED <<version, pending, nonce, submits, applied, lost>>

\* The request or the reply is lost; the server may have the tip, or get it yet.
LoseReply ==
    /\ dialog \in {"submitting", "accepted", "refused"}
    /\ dialog' = "error"
    /\ lost' = lost + 1
    /\ \/ UNCHANGED pending
       \/ pending' = pending \ {nonce + 1}
    /\ UNCHANGED <<version, nonce, submits, applied, balances>>

OtherDevice ==
    /\ version < MaxTips
    /\ version' = version + 1
    /\ UNCHANGED <<pending, dialog, nonce, submits, applied, lost, balances>>

-----------------------------------------------------------------------------
Init ==
    /\ version = 0 /\ pending = {}
    /\ cache = [id \in Ids |-> None]
    /\ inFlight = [id \in Ids |-> 0] /\ queue = [id \in Ids |-> 0]
    /\ issued = 0 /\ batches = {}
    /\ view = [v \in Views |-> NoView]
    /\ dialog = "loading" /\ nonce = 0
    /\ submits = 0 /\ applied = 0 /\ lost = 0
    /\ announced = 0 /\ failed = FALSE

Settle(b) == Answered(b) \/ FallBack(b) \/ Rejected(b)

ViewStep ==
    \/ \E v \in Views : Mount(v) \/ Retry(v) \/ Unmount(v)
    \/ \E id \in Ids : Expire(id)

PageStep ==
    /\ ViewStep \/ Flush \/ (\E b \in batches : Read(b) \/ Settle(b))
    /\ UNCHANGED tips

DialogStep ==
    \/ LoadAccount \/ Submit \/ Fetch \/ Sign \/ Reply \/ LoseReply \/ OtherDevice
    \/ \E k \in pending : Apply(k)

Next == PageStep \/ DialogStep

\* A timer fires, and a request is answered or fails.
Fairness ==
    /\ WF_vars(Flush /\ UNCHANGED tips)
    /\ WF_vars((\E b \in batches : Read(b) \/ Settle(b)) /\ UNCHANGED tips)

Spec == Init /\ [][Next]_vars /\ Fairness

-----------------------------------------------------------------------------
(* Properties.                                                              *)

\* After a change is announced, the cache gives an older balance only if its
\* request was under way at that time: nothing cached or joined before is served.
StaleNeedsOverlap ==
    \A id \in Ids :
        cache[id] # None /\ cache[id].version < announced => cache[id].old

\* A view that loads again because of a tip shows a balance that includes it,
\* whatever older requests of this account were queued or under way.
ShownIncludesTip ==
    \A v \in Views : view[v].status = "ok" => view[v].shows >= view[v].atLeast

\* Every load ends, although callbacks in the queue are overwritten, as long as
\* no request fails together with its fallback.
LoadsSettle ==
    \A v \in Views : view[v].status = "loading" ~> view[v].status # "loading" \/ failed

\* The dialog tips more than once only after lost replies: each tip but the one
\* it reports, or is about to report, answers to a reply that did not arrive.
TipsNeedLostReplies ==
    applied <= lost + (IF dialog \in {"accepted", "success"} THEN 1 ELSE 0)
=============================================================================
