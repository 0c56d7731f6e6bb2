----------------------------- MODULE RateLimiter -----------------------------
(* The two token buckets an accepted call has paid, one token each: the    *)
(* tenant's and that of its conversation.  The time of a call is read when *)
(* it arrives and used when it gets here, so times come out of order; a    *)
(* bucket's own time never goes back.  A bucket unused for Expiry is       *)
(* forgotten by a later call and comes back full.                          *)
EXTENDS Integers

CONSTANTS Configs,    \* the limits the process may be configured with, by limiter:
                      \* tokens per unit of time and tokens of a full bucket
          Expiry,     \* bucketExpiry; five minutes in the code
          MaxDelay,   \* bound: how long a call takes from its time to the limiters
          MaxNow      \* bound: time modelled

Limiters == {"tenant", "session"}

\* A bucket is full again before it can be forgotten: two seconds against five
\* minutes with the default rates.
ASSUME LimiterAssumption ==
    /\ Configs \subseteq [Limiters -> [rate : Nat \ {0}, burst : Nat \ {0}]]
    /\ Expiry \in Nat /\ MaxDelay \in 0..Expiry /\ MaxNow \in Nat
    /\ \A config \in Configs, l \in Limiters :
          config[l].burst <= config[l].rate * (Expiry - MaxDelay)

VARIABLES limits,    \* the configuration of this process
          clock,
          buckets,   \* limiter -> the bucket of this tenant or conversation
          granted    \* limiter -> time -> calls granted while the bucket's time was that or later

limiterVars == <<limits, clock, buckets, granted>>

Rate(l) == limits[l].rate
Burst(l) == limits[l].burst

Times == 0..MaxNow
NoBucket == [tokens |-> 0, last |-> -1]

LimiterInit ==
    /\ limits \in Configs
    /\ clock = 0
    /\ buckets = [l \in Limiters |-> NoBucket]
    /\ granted = [l \in Limiters |-> [t \in Times |-> 0]]

AtMost(bound, n) == IF n < bound THEN n ELSE bound

\* Mutant of the next: a late call sets the time of the bucket back.
RefilledRewinds(l, b, now) ==
    [tokens |-> IF now > b.last THEN AtMost(Burst(l), b.tokens + Rate(l) * (now - b.last)) ELSE b.tokens,
     last |-> now]

Refilled(l, b, now) ==
    IF now > b.last
    THEN [tokens |-> AtMost(Burst(l), b.tokens + Rate(l) * (now - b.last)), last |-> now] ELSE b

\* The bucket a call of that time draws from.
Ready(l, now) ==
    IF buckets[l] = NoBucket THEN [tokens |-> Burst(l), last |-> now]
    ELSE Refilled(l, buckets[l], now)

Grants(l, now) == Ready(l, now).tokens >= 1

\* Allow, whatever its answer: the time of a refused bucket moves as well.
Drawn(l, now) == IF Grants(l, now) THEN [Ready(l, now) EXCEPT !.tokens = @ - 1] ELSE Ready(l, now)

Counted(l, now) ==
    [t \in Times |-> granted[l][t] + (IF Grants(l, now) /\ t <= Ready(l, now).last THEN 1 ELSE 0)]

\* Both limiters in turn: a tenant token is gone even if the session refuses.
Admitted(now) == Grants("tenant", now) /\ Grants("session", now)

AskBoth(now) ==
    LET asked == IF Grants("tenant", now) THEN Limiters ELSE {"tenant"} IN
    /\ buckets' = [l \in Limiters |-> IF l \in asked THEN Drawn(l, now) ELSE buckets[l]]
    /\ granted' = [l \in Limiters |-> IF l \in asked THEN Counted(l, now) ELSE granted[l]]
    /\ UNCHANGED <<limits, clock>>

\* A call of another conversation pays with the tenant's tokens.
OtherCall ==
    /\ buckets' = [buckets EXCEPT !["tenant"] = Drawn("tenant", clock)]
    /\ granted' = [granted EXCEPT !["tenant"] = Counted("tenant", clock)]
    /\ UNCHANGED <<limits, clock>>

\* Every 256th call of a limiter forgets what it has not seen for long; here any
\* call may be that one.
Collect(l) ==
    /\ buckets[l] # NoBucket /\ clock - buckets[l].last > Expiry
    /\ buckets' = [buckets EXCEPT ![l] = NoBucket]
    /\ UNCHANGED <<limits, clock, granted>>

\* Limits are kept in memory: a new process starts with full buckets.
LimiterCrash ==
    /\ buckets' = [l \in Limiters |-> NoBucket]
    /\ granted' = [l \in Limiters |-> [t \in Times |-> 0]]
    /\ UNCHANGED <<limits, clock>>

LimiterTypeOK ==
    /\ limits \in Configs /\ clock \in Times
    /\ buckets \in [Limiters -> [tokens : Nat, last : Times \cup {-1}]]
    /\ granted \in [Limiters -> [Times -> Nat]]
=============================================================================
