-------------------------- MODULE RateLimiterProofs --------------------------
(***************************************************************************)
(* What every step of RateLimiter does to the two buckets, for any limits, *)
(* any number of calls and any delay a bucket outlives.  GatewayIngress    *)
(* takes these steps; its theorem about GrantsBounded rests on the lemmas. *)
(***************************************************************************)
EXTENDS RateLimiter, TLAPS

\* The times and the tokens of what the limiters keep.
LimitsOK ==
    /\ limits \in Configs /\ clock \in Times
    /\ buckets \in [Limiters -> [tokens : Nat, last : Times \cup {-1}]]
    /\ granted \in [Limiters -> [Times -> Nat]]

\* What a bucket still holds and has granted from a time on came from a full
\* bucket or has dripped since.
Live(l, b, g) ==
    /\ b.last \in Times /\ b.last <= clock /\ b.tokens \in Nat /\ b.tokens <= Burst(l)
    /\ \A t \in Times : t <= b.last => g[t] + b.tokens <= Burst(l) + Rate(l) * (b.last - t)
    /\ \A t \in Times : t > b.last => g[t] = 0

\* A bucket is forgotten when no call that is late can tell: what it had granted
\* would have dripped in again by the time of any of them.
Forgotten(l, g) ==
    \A t \in Times : g[t] <= (IF t <= clock - MaxDelay THEN Rate(l) * (clock - MaxDelay - t) ELSE 0)

Kept(l) == IF buckets[l] = NoBucket THEN Forgotten(l, granted[l]) ELSE Live(l, buckets[l], granted[l])

LimitsInv == LimitsOK /\ \A l \in Limiters : Kept(l)

-----------------------------------------------------------------------------
\* Tokens drip in proportion to time.
LEMMA Dripping ==
    ASSUME NEW r \in Nat, NEW a \in Int, NEW b \in Int
    PROVE  /\ r * (a + b) = r * a + r * b
           /\ a >= 0 => r * a >= 0 /\ r * a \in Nat
           /\ a <= b => r * a <= r * b
OBVIOUS

\* The limits of a process.
LEMMA Limits ==
    ASSUME LimitsOK, NEW l \in Limiters
    PROVE  /\ Rate(l) \in Nat /\ Burst(l) \in Nat /\ Burst(l) >= 1
           /\ Burst(l) <= Rate(l) * (Expiry - MaxDelay)
           /\ Expiry \in Nat /\ MaxDelay \in Nat /\ MaxDelay <= Expiry
BY LimiterAssumption DEF LimitsOK, Rate, Burst

\* The bucket a call draws from is live and no older than the call.
LEMMA ReadyLive ==
    ASSUME LimitsInv, NEW l \in Limiters, NEW now \in Times, now <= clock, clock - now <= MaxDelay
    PROVE  Live(l, Ready(l, now), granted[l])
<1> DEFINE b == buckets[l]
           g == granted[l]
<1>1. /\ b \in [tokens : Nat, last : Times \cup {-1}] /\ g \in [Times -> Nat] /\ clock \in Int
      /\ \A t \in Times : t \in Nat /\ g[t] \in Nat
  BY LimiterAssumption DEF LimitsInv, LimitsOK, Times
<1>2. CASE b = NoBucket
  <2>1. Ready(l, now) = [tokens |-> Burst(l), last |-> now]
    BY <1>2 DEF Ready
  <2>2. ASSUME NEW t \in Times, t <= now
        PROVE  g[t] + Burst(l) <= Burst(l) + Rate(l) * (now - t)
    <3>1. CASE t <= clock - MaxDelay
      <4>1. g[t] <= Rate(l) * (clock - MaxDelay - t)
        BY <1>2, <3>1 DEF LimitsInv, Kept, Forgotten
      <4>2. Rate(l) * (clock - MaxDelay - t) <= Rate(l) * (now - t)
        BY <1>1, Limits, Dripping DEF LimitsInv
      <4> QED
        BY <1>1, <4>1, <4>2, Limits DEF LimitsInv
    <3>2. CASE t > clock - MaxDelay
      <4>1. g[t] <= 0
        BY <1>1, <1>2, <3>2, Limits DEF LimitsInv, Kept, Forgotten
      <4>2. Rate(l) * (now - t) >= 0
        BY <1>1, <2>2, Limits, Dripping DEF LimitsInv
      <4> QED
        BY <1>1, <4>1, <4>2, Limits DEF LimitsInv
    <3> QED
      BY <1>1, <3>1, <3>2, Limits DEF LimitsInv
  <2>3. ASSUME NEW t \in Times, t > now PROVE g[t] = 0
    BY <1>1, <1>2, <2>3, Limits DEF LimitsInv, Kept, Forgotten
  <2> QED
    BY <1>1, <2>1, <2>2, <2>3, Limits DEF LimitsInv, Live
<1>3. CASE b # NoBucket /\ now > b.last
  <2> DEFINE tokens == AtMost(Burst(l), b.tokens + Rate(l) * (now - b.last))
  <2>0. Live(l, b, g)
    BY <1>3 DEF LimitsInv, Kept
  <2>1. Ready(l, now) = [tokens |-> tokens, last |-> now]
    BY <1>3 DEF Ready, Refilled
  <2>2. Rate(l) * (now - b.last) \in Nat
    BY <1>1, <1>3, <2>0, Limits, Dripping DEF LimitsInv, Live
  <2>3. tokens \in Nat /\ tokens <= Burst(l) /\ tokens <= b.tokens + Rate(l) * (now - b.last)
    BY <1>1, <2>2, Limits DEF AtMost, LimitsInv
  <2>4. ASSUME NEW t \in Times, t <= now
        PROVE  g[t] + tokens <= Burst(l) + Rate(l) * (now - t)
    <3>1. CASE t <= b.last
      <4>1. g[t] + b.tokens <= Burst(l) + Rate(l) * (b.last - t)
        BY <2>0, <3>1 DEF Live
      <4>2. Rate(l) * (now - t) = Rate(l) * (now - b.last) + Rate(l) * (b.last - t)
        <5>1. now - t = (now - b.last) + (b.last - t)
          BY <1>1, <2>0 DEF Live
        <5> QED
          BY <1>1, <2>0, <5>1, Limits, Dripping DEF LimitsInv, Live
      <4>3. Rate(l) * (b.last - t) \in Int
        BY <1>1, <2>0, <3>1, Limits, Dripping DEF LimitsInv, Live
      <4> QED
        BY <1>1, <2>2, <2>3, <4>1, <4>2, <4>3, Limits DEF LimitsInv
    <3>2. CASE t > b.last
      <4>1. g[t] = 0
        BY <2>0, <3>2 DEF Live
      <4>2. Rate(l) * (now - t) \in Nat
        BY <1>1, <2>4, Limits, Dripping DEF LimitsInv
      <4> QED
        BY <2>3, <4>1, <4>2, Limits DEF LimitsInv
    <3> QED
      BY <1>1, <2>0, <3>1, <3>2 DEF Live
  <2>5. ASSUME NEW t \in Times, t > now PROVE g[t] = 0
    BY <1>1, <1>3, <2>0, <2>5 DEF Live
  <2> QED
    BY <2>1, <2>3, <2>4, <2>5 DEF Live
<1>4. CASE b # NoBucket /\ ~(now > b.last)
  BY <1>4 DEF LimitsInv, Kept, Ready, Refilled
<1> QED
  BY <1>2, <1>3, <1>4

\* A bucket is live after a call, whatever the answer.
LEMMA DrawnLive ==
    ASSUME LimitsInv, NEW l \in Limiters, NEW now \in Times, now <= clock, clock - now <= MaxDelay
    PROVE  /\ Live(l, Drawn(l, now), Counted(l, now))
           /\ Drawn(l, now) \in [tokens : Nat, last : Times] /\ Counted(l, now) \in [Times -> Nat]
<1> DEFINE r == Ready(l, now)
           g == granted[l]
<1>1. Live(l, r, g)
  BY ReadyLive
<1>2. r \in [tokens : Nat, last : Times]
  <2>1. buckets[l] \in [tokens : Nat, last : Times \cup {-1}]
    BY DEF LimitsInv, LimitsOK
  <2>2. r = [tokens |-> r.tokens, last |-> r.last]
    BY <2>1 DEF Ready, Refilled
  <2> QED
    BY <1>1, <2>2 DEF Live
<1>3. g \in [Times -> Nat] /\ \A t \in Times : t \in Nat
  BY DEF LimitsInv, LimitsOK, Times
<1>4. CASE r.tokens >= 1
  <2>1. Drawn(l, now) = [tokens |-> r.tokens - 1, last |-> r.last]
    BY <1>2, <1>4 DEF Drawn, Grants
  <2>2. Counted(l, now) = [t \in Times |-> g[t] + (IF t <= r.last THEN 1 ELSE 0)]
    BY <1>4 DEF Counted, Grants
  <2>3. r.tokens - 1 \in Nat
    BY <1>2, <1>4
  <2>4. Counted(l, now) \in [Times -> Nat]
    BY <1>3, <2>2
  <2>5. Live(l, Drawn(l, now), Counted(l, now))
    <3>1. ASSUME NEW t \in Times, t <= r.last
          PROVE  Counted(l, now)[t] + (r.tokens - 1) <= Burst(l) + Rate(l) * (r.last - t)
      <4>1. g[t] + r.tokens <= Burst(l) + Rate(l) * (r.last - t)
        BY <1>1, <3>1 DEF Live
      <4>2. Counted(l, now)[t] + (r.tokens - 1) = g[t] + r.tokens
        BY <1>2, <1>3, <2>2, <3>1
      <4> QED
        BY <4>1, <4>2
    <3>2. ASSUME NEW t \in Times, t > r.last PROVE Counted(l, now)[t] = 0
      <4>1. g[t] = 0 /\ ~(t <= r.last)
        BY <1>1, <1>2, <1>3, <3>2 DEF Live
      <4> QED
        BY <2>2, <4>1
    <3>3. r.tokens - 1 <= Burst(l)
      BY <1>1, <1>2, Limits DEF Live, LimitsInv
    <3> QED
      BY <1>1, <2>1, <2>3, <3>1, <3>2, <3>3 DEF Live
  <2> QED
    BY <1>2, <2>1, <2>3, <2>4, <2>5
<1>5. CASE ~(r.tokens >= 1)
  <2>1. Drawn(l, now) = r
    BY <1>5 DEF Drawn, Grants
  <2>2. Counted(l, now) = [t \in Times |-> g[t]]
    BY <1>3, <1>5 DEF Counted, Grants
  <2>3. Counted(l, now) = g
    BY <1>3, <2>2
  <2> QED
    BY <1>1, <1>2, <1>3, <2>1, <2>3
<1> QED
  BY <1>4, <1>5

\* A live bucket is one.
LEMMA LiveIsBucket ==
    ASSUME LimitsOK, NEW l, NEW b, NEW g, Live(l, b, g)
    PROVE  b # NoBucket
BY DEF Live, NoBucket, Times

LEMMA AskBothKeeps ==
    ASSUME LimitsInv, NEW now \in Times, now <= clock, clock - now <= MaxDelay, AskBoth(now)
    PROVE  LimitsInv'
<1> DEFINE asked == IF Grants("tenant", now) THEN Limiters ELSE {"tenant"}
<1>1. /\ buckets' = [l \in Limiters |-> IF l \in asked THEN Drawn(l, now) ELSE buckets[l]]
      /\ granted' = [l \in Limiters |-> IF l \in asked THEN Counted(l, now) ELSE granted[l]]
      /\ UNCHANGED <<limits, clock>>
  BY DEF AskBoth
<1>2. \A l \in Limiters :
          IF l \in asked THEN buckets'[l] = Drawn(l, now) /\ granted'[l] = Counted(l, now)
          ELSE buckets'[l] = buckets[l] /\ granted'[l] = granted[l]
  BY <1>1
<1>3. LimitsOK'
  BY <1>1, DrawnLive DEF LimitsInv, LimitsOK
<1>4. ASSUME NEW l \in Limiters PROVE Kept(l)'
  <2>1. CASE l \in asked
    <3>1. Live(l, buckets'[l], granted'[l])
      BY <1>2, <2>1, DrawnLive
    <3>2. buckets'[l] # NoBucket
      BY <3>1, LiveIsBucket DEF LimitsInv
    <3> QED
      BY <1>1, <3>1, <3>2 DEF Kept, Live, Burst, Rate
  <2>2. CASE l \notin asked
    BY <1>1, <1>2, <2>2 DEF LimitsInv, Kept, Live, Forgotten, Burst, Rate
  <2> QED
    BY <2>1, <2>2
<1> QED
  BY <1>3, <1>4 DEF LimitsInv

LEMMA OtherCallKeeps ==
    ASSUME LimitsInv, OtherCall
    PROVE  LimitsInv'
<1>1. "tenant" \in Limiters /\ clock \in Times /\ clock <= clock /\ clock - clock <= MaxDelay
  BY LimiterAssumption DEF Limiters, LimitsInv, LimitsOK, Times
<1>2. /\ buckets' = [buckets EXCEPT !["tenant"] = Drawn("tenant", clock)]
      /\ granted' = [granted EXCEPT !["tenant"] = Counted("tenant", clock)]
      /\ UNCHANGED <<limits, clock>>
  BY DEF OtherCall
<1>3. /\ buckets'["tenant"] = Drawn("tenant", clock) /\ granted'["tenant"] = Counted("tenant", clock)
      /\ \A l \in Limiters : l # "tenant" => buckets'[l] = buckets[l] /\ granted'[l] = granted[l]
  BY <1>1, <1>2 DEF LimitsInv, LimitsOK
<1>4. LimitsOK'
  BY <1>1, <1>2, DrawnLive DEF LimitsInv, LimitsOK
<1>5. ASSUME NEW l \in Limiters PROVE Kept(l)'
  <2>1. CASE l = "tenant"
    <3>1. Live(l, buckets'[l], granted'[l])
      BY <1>1, <1>3, <2>1, DrawnLive
    <3>2. buckets'[l] # NoBucket
      BY <3>1, LiveIsBucket DEF LimitsInv
    <3> QED
      BY <1>2, <3>1, <3>2 DEF Kept, Live, Burst, Rate
  <2>2. CASE l # "tenant"
    BY <1>2, <1>3, <2>2 DEF LimitsInv, Kept, Live, Forgotten, Burst, Rate
  <2> QED
    BY <2>1, <2>2
<1> QED
  BY <1>4, <1>5 DEF LimitsInv

\* A full bucket drips in between the last time it could be used and the earliest
\* a late call may still have.
LEMMA CollectKeeps ==
    ASSUME LimitsInv, NEW l \in Limiters, Collect(l)
    PROVE  LimitsInv'
<1> DEFINE b == buckets[l]
           g == granted[l]
<1>1. /\ b # NoBucket /\ clock - b.last > Expiry
      /\ buckets' = [buckets EXCEPT ![l] = NoBucket] /\ UNCHANGED <<limits, clock, granted>>
  BY DEF Collect
<1>2. Live(l, b, g) /\ clock \in Int /\ g \in [Times -> Nat] /\ \A t \in Times : t \in Nat
  BY <1>1 DEF LimitsInv, LimitsOK, Kept, Times
<1>3. b.last \in Nat /\ b.tokens \in Nat
  BY <1>2 DEF Live
<1>4. Forgotten(l, g)
  <2> SUFFICES ASSUME NEW t \in Times
               PROVE  g[t] <= (IF t <= clock - MaxDelay THEN Rate(l) * (clock - MaxDelay - t) ELSE 0)
    BY DEF Forgotten
  <2>1. CASE t <= b.last
    <3>1. g[t] + b.tokens <= Burst(l) + Rate(l) * (b.last - t)
      BY <1>2, <2>1 DEF Live
    <3>2. Burst(l) <= Rate(l) * (Expiry - MaxDelay)
      BY Limits DEF LimitsInv
    <3>3. /\ Rate(l) * ((Expiry - MaxDelay) + (b.last - t))
               = Rate(l) * (Expiry - MaxDelay) + Rate(l) * (b.last - t)
          /\ Rate(l) * ((Expiry - MaxDelay) + (b.last - t)) <= Rate(l) * (clock - MaxDelay - t)
      <4>1. /\ Rate(l) \in Nat /\ Expiry - MaxDelay \in Int
            /\ b.last - t \in Int /\ clock - MaxDelay - t \in Int
        BY <1>2, <1>3, Limits DEF LimitsInv
      <4>2. (Expiry - MaxDelay) + (b.last - t) <= clock - MaxDelay - t
        BY <1>1, <1>2, <1>3, Limits DEF LimitsInv
      <4>3. (Expiry - MaxDelay) + (b.last - t) \in Int
        BY <4>1
      <4>4. Rate(l) * ((Expiry - MaxDelay) + (b.last - t))
                = Rate(l) * (Expiry - MaxDelay) + Rate(l) * (b.last - t)
        <5> HIDE DEF b
        <5> QED  BY <4>1, Dripping
      <4>5. Rate(l) * ((Expiry - MaxDelay) + (b.last - t)) <= Rate(l) * (clock - MaxDelay - t)
        <5> HIDE DEF b
        <5> QED  BY <4>1, <4>2, <4>3, Dripping
      <4> QED
        BY <4>4, <4>5
    <3>4. /\ Rate(l) * (b.last - t) \in Int /\ Rate(l) * (Expiry - MaxDelay) \in Int
          /\ Rate(l) * (clock - MaxDelay - t) \in Int
      BY <1>2, <1>3, Limits DEF LimitsInv
    <3>5. t <= clock - MaxDelay
      BY <1>1, <1>2, <1>3, <2>1, Limits DEF LimitsInv
    <3> QED
      BY <1>2, <1>3, <3>1, <3>2, <3>3, <3>4, <3>5, Limits DEF LimitsInv
  <2>2. CASE t > b.last
    <3>1. g[t] = 0
      BY <1>2, <2>2 DEF Live
    <3>2. t <= clock - MaxDelay => Rate(l) * (clock - MaxDelay - t) >= 0
      BY <1>2, Limits, Dripping DEF LimitsInv
    <3> QED
      BY <3>1, <3>2
  <2> QED
    BY <1>2, <1>3, <2>1, <2>2
<1>5. /\ buckets'[l] = NoBucket
      /\ \A m \in Limiters : m # l => buckets'[m] = buckets[m]
  BY <1>1 DEF LimitsInv, LimitsOK
<1>6. LimitsOK'
  BY <1>1 DEF LimitsInv, LimitsOK, NoBucket
<1>7. ASSUME NEW m \in Limiters PROVE Kept(m)'
  BY <1>1, <1>4, <1>5 DEF LimitsInv, Kept, Live, Forgotten, Burst, Rate
<1> QED
  BY <1>6, <1>7 DEF LimitsInv

\* What granted nothing can be forgotten.
LEMMA NothingGranted ==
    ASSUME LimitsOK, NEW l \in Limiters
    PROVE  Forgotten(l, [t \in Times |-> 0])
<1> SUFFICES ASSUME NEW t \in Times
             PROVE  0 <= (IF t <= clock - MaxDelay THEN Rate(l) * (clock - MaxDelay - t) ELSE 0)
  BY DEF Forgotten
<1>1. t \in Nat /\ clock \in Nat
  BY LimiterAssumption DEF LimitsOK, Times
<1> QED
  BY <1>1, Limits, Dripping

LEMMA InitHolds ==
    ASSUME LimiterInit
    PROVE  LimitsInv
<1>1. LimitsOK
  BY LimiterAssumption DEF LimiterInit, LimitsOK, NoBucket, Times
<1>2. ASSUME NEW l \in Limiters PROVE Kept(l)
  BY <1>1, NothingGranted DEF LimiterInit, Kept
<1> QED
  BY <1>1, <1>2 DEF LimitsInv

\* A new process starts from nothing.
LEMMA CrashKeeps ==
    ASSUME LimitsInv, LimiterCrash
    PROVE  LimitsInv'
<1>1. LimitsOK'
  BY LimiterAssumption DEF LimitsInv, LimitsOK, LimiterCrash, NoBucket, Times
<1>2. ASSUME NEW l \in Limiters PROVE Kept(l)'
  <2>1. Forgotten(l, [t \in Times |-> 0])
    BY NothingGranted DEF LimitsInv
  <2> QED
    BY <2>1 DEF LimiterCrash, Kept, Forgotten, Rate
<1> QED
  BY <1>1, <1>2 DEF LimitsInv

LEMMA TimePasses ==
    ASSUME LimitsInv, clock < MaxNow, clock' = clock + 1, UNCHANGED <<limits, buckets, granted>>
    PROVE  LimitsInv'
<1>0. limits' = limits /\ buckets' = buckets /\ granted' = granted
  OBVIOUS
<1>1. clock \in Nat /\ clock' \in Times /\ \A t \in Times : t \in Nat
  BY LimiterAssumption DEF LimitsInv, LimitsOK, Times
<1>2. LimitsOK'
  BY <1>1 DEF LimitsInv, LimitsOK
<1>3. ASSUME NEW l \in Limiters PROVE Kept(l)'
  <2>1. Rate(l)' = Rate(l) /\ Burst(l)' = Burst(l)
    BY DEF Rate, Burst
  <2>2. CASE buckets[l] = NoBucket
    <3> SUFFICES ASSUME NEW t \in Times
                 PROVE  granted[l][t] <= (IF t <= clock' - MaxDelay
                                          THEN Rate(l) * (clock' - MaxDelay - t) ELSE 0)
      BY <1>0, <2>1, <2>2 DEF Kept, Forgotten
    <3>1. granted[l][t] \in Nat
          /\ granted[l][t] <= (IF t <= clock - MaxDelay THEN Rate(l) * (clock - MaxDelay - t) ELSE 0)
      BY <2>2 DEF LimitsInv, LimitsOK, Kept, Forgotten
    <3>2. /\ Rate(l) * (clock - MaxDelay - t) <= Rate(l) * (clock + 1 - MaxDelay - t)
          /\ t <= clock + 1 - MaxDelay => Rate(l) * (clock + 1 - MaxDelay - t) >= 0
          /\ Rate(l) * (clock - MaxDelay - t) \in Int /\ Rate(l) * (clock + 1 - MaxDelay - t) \in Int
      BY <1>1, Limits, Dripping DEF LimitsInv
    <3> QED
      BY <1>1, <3>1, <3>2, Limits DEF LimitsInv
  <2>3. CASE buckets[l] # NoBucket
    BY <1>1, <2>1, <2>3 DEF LimitsInv, Kept, Live, Times
  <2> QED
    BY <2>2, <2>3
<1> QED
  BY <1>2, <1>3 DEF LimitsInv
=============================================================================
