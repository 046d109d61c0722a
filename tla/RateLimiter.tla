---------------------------- MODULE RateLimiter ----------------------------
(***************************************************************************)
(* The token buckets in front of every route (internal/api/security.go).    *)
(* A request reads the time before it takes the limiter's mutex, so the     *)
(* times that reach the buckets may run backwards; idle buckets are dropped *)
(* now and then, and a client without a bucket gets a full one.             *)
(*                                                                         *)
(* Time is counted in units in which Rate is a whole number of tokens.  The *)
(* mutex is held for the whole of allow, which is therefore one step.       *)
(***************************************************************************)
EXTENDS Totals

CONSTANTS
    Clients,    \* the addresses that clientIP answers
    Requests,   \* goroutines
    Nobody,     \* the client of a goroutine that serves no request
    Rate,       \* tokens per unit of time
    Burst,      \* the size of a bucket
    TrimAfter,  \* the time between two removals of idle buckets (5 minutes)
    IdleAfter,  \* how long a removed bucket was not used (10 minutes)
    MaxStall,   \* bound: how long a goroutine waits for the mutex
    MaxClock    \* bound: the time

ASSUME RateAssumption == Rate \in Nat /\ Burst \in Nat \ {0}
ASSUME TimesAssumption ==
    TrimAfter \in Nat /\ IdleAfter \in Nat /\ MaxStall \in Nat /\ MaxClock \in Nat
ASSUME ClientsAssumption == Nobody \notin Clients

\* The configuration must let a bucket fill up while it is idle.  Nothing in
\* the code enforces it; the defaults (10 tokens a second, 120 in a bucket, ten
\* minutes) do.  Twice the waiting time is lost to times that run backwards.
ASSUME IdleBucketsFillUp == Burst <= Rate * (IdleAfter - 2 * MaxStall)

VARIABLES
    clock,     \* time.Now()
    buckets,   \* the clients that have a bucket
    tokens,    \* tokens[c], while c has a bucket
    last,      \* last[c]: when it was filled up last
    lastTrim,  \* when idle buckets were removed last
    client,    \* client[r]: whose request goroutine r serves
    at,        \* at[r]: the time that r read
    served     \* history: served[c][t] requests of c that had read t were let through

limiter == <<clock, buckets, tokens, last, lastTrim, client, at, served>>

Times == 0 .. MaxClock

-----------------------------------------------------------------------------
(* Faulty variants of the definitions below.                                *)

TrimsEarly(c, t) == t - last[c] > TrimAfter
NoRefill(c, t) == IF tokens[c] < Burst THEN tokens[c] ELSE Burst

-----------------------------------------------------------------------------
(* allow.                                                                   *)

\* A request arrives and reads the time.
Arrive(r, c) ==
    /\ client[r] = Nobody
    /\ client' = [client EXCEPT ![r] = c]
    /\ at' = [at EXCEPT ![r] = clock]
    /\ UNCHANGED <<clock, buckets, tokens, last, lastTrim, served>>

\* The bucket of c was not used for long, seen from time t.
Idle(c, t) == t - last[c] > IdleAfter

Trims(t) == t - lastTrim > TrimAfter

\* The buckets that are left after the removal of idle ones at time t.
Remaining(t) == IF Trims(t) THEN {c \in buckets : ~ Idle(c, t)} ELSE buckets

\* The tokens of c at time t; t may be earlier than last[c].
Refilled(c, t) ==
    IF tokens[c] + Rate * (t - last[c]) > Burst THEN Burst
    ELSE tokens[c] + Rate * (t - last[c])

\* What the request finds; a client without a bucket is given a full one.
Level(c, t) == IF c \in Remaining(t) THEN Refilled(c, t) ELSE Burst

Admits(c, t) == Level(c, t) >= 1

\* The outcome is recorded, and the goroutine is free for another request.
Allow(r) ==
    LET c == client[r]
        t == at[r]
        taken == IF Admits(c, t) THEN 1 ELSE 0 IN
    /\ c # Nobody
    /\ buckets' = Remaining(t) \cup {c}
    /\ tokens' = [tokens EXCEPT ![c] = Level(c, t) - taken]
    /\ last' = [last EXCEPT ![c] = t]
    /\ lastTrim' = IF Trims(t) THEN t ELSE lastTrim
    /\ served' = [served EXCEPT ![c][t] = @ + taken]
    /\ client' = [client EXCEPT ![r] = Nobody]
    /\ at' = [at EXCEPT ![r] = 0]
    /\ UNCHANGED clock

Tick ==
    /\ clock < MaxClock
    /\ \A r \in Requests : client[r] # Nobody => clock - at[r] < MaxStall
    /\ clock' = clock + 1
    /\ UNCHANGED <<buckets, tokens, last, lastTrim, client, at, served>>

-----------------------------------------------------------------------------
LimiterInit ==
    /\ clock = 0
    /\ buckets = {}
    /\ tokens = [c \in Clients |-> 0]
    /\ last = [c \in Clients |-> 0]
    /\ lastTrim = 0
    /\ client = [r \in Requests |-> Nobody]
    /\ at = [r \in Requests |-> 0]
    /\ served = [c \in Clients |-> [t \in Times |-> 0]]

LimiterNext ==
    \/ \E r \in Requests, c \in Clients : Arrive(r, c)
    \/ \E r \in Requests : Allow(r)
    \/ Tick

LimiterSpec == LimiterInit /\ [][LimiterNext]_limiter

-----------------------------------------------------------------------------
(* Properties.                                                              *)

\* How many requests of c with a time from s to t were let through.
Served(c, s, t) == Total([u \in s .. t |-> served[c][u]])

\* Every client stays within its budget: in any interval of time at most a
\* bucket and what flows into it in the meantime is let through, although
\* buckets are dropped and filled up again and requests overtake each other.
WithinBudget ==
    \A c \in Clients, s \in Times, t \in Times :
        s <= t => Served(c, s, t) <= Burst + Rate * (t - s)

\* A refusal is earned: there is an interval up to the request in which the
\* client had, up to what flows in while a request waits for the mutex, its
\* whole budget.  A client that keeps below its budget is never refused.
Earned(c, t) ==
    \E s \in Times :
        s <= t /\ Served(c, s, MaxClock) + 1 > Burst + Rate * (t - s) - Rate * MaxStall

RefusalsAreEarned ==
    [][\A r \in Requests :
          (client[r] # Nobody /\ client'[r] = Nobody /\ served' = served)
              => Earned(client[r], at[r])]_limiter
=============================================================================
