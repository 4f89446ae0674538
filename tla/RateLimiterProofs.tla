------------------------- MODULE RateLimiterProofs -------------------------
(***************************************************************************)
(* Theorems about RateLimiter for any keys, callers, limit, window and     *)
(* delay below the window.                                                 *)
(*                                                                         *)
(* TwoWindowsOfMemory relates a bucket to the last call of its key; the    *)
(* invariant does it in two steps: a bucket is not older than a window     *)
(* before the last sweep, and its key was called no earlier than it        *)
(* started.                                                                *)
(*                                                                         *)
(* BurstIsBounded and RefusalsAreEarned relate the counts to the requests  *)
(* allowed.  A request is not marked with the bucket that allowed it, so   *)
(* the invariant says that they can be told apart: some of them make up    *)
(* the count of the bucket there is, the others are older than it (by the  *)
(* delay of the call that started it) and few.                             *)
(***************************************************************************)
EXTENDS RateLimiter, FiniteSetTheorems, TLAPS

\* At most one element.
One(S) == \A x, y \in S : x = y

Buckets ==
    /\ buckets \in [Keys -> SUBSET Bucket]
    /\ \A k \in Keys : One(buckets[k])

Calls ==
    /\ caller \in [Callers -> SUBSET Call]
    /\ \A c \in Callers : One(caller[c])

Clocks ==
    /\ lastGC \in Ages
    /\ seen \in [Keys -> Ages]

Remembered ==
    \A k \in Keys : \A b \in buckets[k] :
       seen[k] <= b.start /\ b.start - lastGC < Window

Histories == granted \in [Keys -> [Recent -> Nat]]

LimiterInv == Buckets /\ Calls /\ Clocks /\ Remembered /\ Histories

\* The instants that an interval of a window less the longest delay spans.
Edge == Window - MaxDelay - 1
Late(S) == {g \in S : g[1] <= Edge}

\* The requests of key k allowed by its bucket are those of cur.
Accounted(k, cur) ==
    /\ buckets[k] = {} => cur = {}
    /\ \A b \in buckets[k] :
          /\ Cardinality(cur) <= b.count
          /\ \A g \in Grants(k, Recent) \ cur : b.start - MaxDelay <= g[1]
    /\ Cardinality(Late(Grants(k, Recent) \ cur)) <= Requests

\* What a bucket counts was allowed since it started.
CountIsEarned(k) ==
    \A b \in buckets[k] :
       b.start <= Window + MaxDelay => b.count <= Cardinality(Grants(k, 0..b.start))

Accounts ==
    \A k \in Keys :
       /\ IsFiniteSet(Grants(k, Recent))
       /\ \E cur \in SUBSET Grants(k, Recent) : Accounted(k, cur)
       /\ CountIsEarned(k)

-----------------------------------------------------------------------------
\* The ranges of the instants.
LEMMA Ranges ==
    /\ Window \in Nat \ {0} /\ MaxDelay \in Nat /\ MaxDelay < Window /\ Requests \in Nat \ {0}
    /\ Horizon \in Nat /\ Horizon = 2 * Window + MaxDelay
BY LimiterAssumption DEF Horizon

\* A younger instant stays the younger one, also at the horizon.
LEMMA OlderKeeps ==
    ASSUME NEW a \in Ages, NEW b \in Ages
    PROVE  /\ Older(a) \in Ages
           /\ a <= b => Older(a) <= Older(b)
           /\ b - a < Window => Older(b) - Older(a) < Window
BY Ranges DEF Older, Ages

\* Sweeping only removes buckets, and leaves none that is expired.
LEMMA SweptKeeps ==
    ASSUME Buckets, NEW now, NEW k \in Keys
    PROVE  /\ Swept(now) \in [Keys -> SUBSET Bucket]
           /\ Swept(now)[k] \subseteq buckets[k]
           /\ ~(Since(lastGC, now) < Window) => \A b \in Swept(now)[k] : ~Expired(b, now)
BY DEF Swept, Buckets

\* The bucket a call counts in is one that was left, or starts with the call.
LEMMA CurrentIs ==
    ASSUME NEW k \in Keys, NEW now
    PROVE  \/ Current(k, now) \in Swept(now)[k]
           \/ Current(k, now) = [start |-> now, count |-> 0]
BY DEF Current

-----------------------------------------------------------------------------
\* The critical section of Allow, for the call of its caller.
LEMMA AllowIs ==
    ASSUME LimiterInv, NEW c \in Callers, NEW call \in caller[c], Allow(c)
    PROVE  LET k == call.key
               now == call.now
               b == Current(k, now)
           IN  /\ k \in Keys /\ now \in 0..MaxDelay
               /\ buckets' = [Swept(now) EXCEPT ![k] =
                                {IF Admits(b) THEN [b EXCEPT !.count = b.count + 1] ELSE b}]
               /\ lastGC' = IF Since(lastGC, now) < Window THEN lastGC ELSE now
               /\ caller' = [caller EXCEPT ![c] = {}]
               /\ granted' = IF Admits(b) THEN [granted EXCEPT ![k][0] = granted[k][0] + 1]
                                          ELSE granted
               /\ seen' = [seen EXCEPT ![k] = IF now < seen[k] THEN now ELSE seen[k]]
<1>1. call.key \in Keys /\ call.now \in 0..MaxDelay
    BY DEF LimiterInv, Calls, Call
<1>2. PICK x \in caller[c] :
        LET y == Current(x.key, x.now)
        IN /\ buckets' = [Swept(x.now) EXCEPT ![x.key] =
                           {IF Admits(y) THEN [y EXCEPT !.count = y.count + 1] ELSE y}]
           /\ lastGC' = IF Since(lastGC, x.now) < Window THEN lastGC ELSE x.now
           /\ caller' = [caller EXCEPT ![c] = {}]
           /\ granted' = IF Admits(y) THEN [granted EXCEPT ![x.key][0] = granted[x.key][0] + 1]
                                      ELSE granted
           /\ seen' = [seen EXCEPT ![x.key] = IF x.now < seen[x.key] THEN x.now ELSE seen[x.key]]
    BY DEF Allow, LimiterInv, Histories
<1>3. x = call
    BY DEF LimiterInv, Calls, One
<1> QED
    BY <1>1, <1>2, <1>3

LEMMA AllowStep ==
    ASSUME LimiterInv, NEW c \in Callers, NEW call \in caller[c], Allow(c)
    PROVE  LimiterInv' /\ Since(lastGC', call.now) < Window
<1> DEFINE k == call.key
           now == call.now
           b == Current(k, now)
           n == IF Admits(b) THEN [b EXCEPT !.count = b.count + 1] ELSE b
<1>1. k \in Keys /\ now \in 0..MaxDelay
    BY AllowIs
<1>2. /\ buckets' = [Swept(now) EXCEPT ![k] = {n}]
      /\ lastGC' = IF Since(lastGC, now) < Window THEN lastGC ELSE now
      /\ caller' = [caller EXCEPT ![c] = {}]
      /\ granted' = IF Admits(b) THEN [granted EXCEPT ![k][0] = granted[k][0] + 1] ELSE granted
      /\ seen' = [seen EXCEPT ![k] = IF now < seen[k] THEN now ELSE seen[k]]
    BY AllowIs
<1> HIDE DEF k, now
<1>3. 0 <= now /\ now \in Ages /\ now <= MaxDelay
    BY <1>1, Ranges DEF Ages
<1>4. lastGC \in Ages /\ lastGC' \in Ages /\ Since(lastGC', now) < Window
    BY <1>2, <1>3, Ranges DEF LimiterInv, Clocks, Since, Ages
<1>5. b \in Bucket
    BY <1>1, <1>3, CurrentIs, SweptKeeps, Ranges DEF LimiterInv, Bucket
<1>6. n \in Bucket /\ n.start = b.start
    BY <1>5, Ranges DEF Bucket, Admits
<1>7. seen'[k] <= now /\ seen'[k] <= seen[k] /\ seen' \in [Keys -> Ages]
      /\ \A j \in Keys : j # k => seen'[j] = seen[j]
    BY <1>1, <1>2, <1>3, Ranges DEF LimiterInv, Clocks, Ages
\* Every bucket left was there before, or starts with this call.
<1>8. ASSUME NEW j \in Keys, NEW x \in Swept(now)[j]
      PROVE  x \in Bucket /\ seen'[j] <= x.start /\ x.start - lastGC' < Window
    <2>1. x \in buckets[j] /\ x \in Bucket /\ x.start \in Ages
        BY <1>8, SweptKeeps DEF LimiterInv, Buckets, Bucket
    <2>2. seen'[j] <= seen[j] /\ seen[j] <= x.start /\ seen[j] \in Ages /\ seen'[j] \in Ages
        BY <1>7, <2>1, Ranges DEF LimiterInv, Clocks, Remembered, Ages
    <2>3. seen'[j] <= x.start
        BY <2>1, <2>2, Ranges DEF Ages
    <2>4. x.start - lastGC' < Window
        <3>1. CASE Since(lastGC, now) < Window
            BY <1>2, <2>1, <3>1 DEF LimiterInv, Remembered
        <3>2. CASE ~(Since(lastGC, now) < Window)
            <4>1. ~Expired(x, now) /\ lastGC' = now
                BY <1>2, <1>8, <3>2, SweptKeeps DEF LimiterInv
            <4> QED
                BY <1>3, <2>1, <4>1, Ranges DEF Expired, Since, Ages
        <3> QED
            BY <3>1, <3>2
    <2> QED
        BY <2>1, <2>3, <2>4
<1>9. seen'[k] <= b.start /\ b.start - lastGC' < Window
    <2>1. CASE b \in Swept(now)[k]
        BY <1>1, <1>8, <2>1
    <2>2. CASE b = [start |-> now, count |-> 0]
        <3>1. b.start = now
            BY <2>2
        <3> HIDE DEF b
        <3>2. now - lastGC' < Window
            <4>1. lastGC' \in Nat /\ now \in Nat
                BY <1>3, <1>4, Ranges DEF Ages
            <4>2. \A x, y \in Nat : x <= MaxDelay => x - y < Window
                BY Ranges
            <4> QED
                BY <1>3, <4>1, <4>2
        <3> QED
            BY <1>7, <3>1, <3>2
    <2> QED
        BY <1>1, <2>1, <2>2, CurrentIs
<1> HIDE DEF b, n
<1>10. Buckets' /\ Remembered'
    <2>1. Swept(now) \in [Keys -> SUBSET Bucket] /\ \A j \in Keys : Swept(now)[j] \subseteq buckets[j]
        BY <1>1, SweptKeeps DEF LimiterInv
    <2>2. buckets'[k] = {n} /\ \A j \in Keys : j # k => buckets'[j] = Swept(now)[j]
        BY <1>1, <1>2, <2>1
    <2>3. Buckets'
        BY <1>2, <1>6, <2>1, <2>2 DEF LimiterInv, Buckets, One
    <2>4. Remembered'
        BY <1>6, <1>8, <1>9, <2>2 DEF Remembered
    <2> QED
        BY <2>3, <2>4
<1>11. Calls' /\ Clocks'
    BY <1>2, <1>4, <1>7 DEF LimiterInv, Calls, Clocks, One
<1>12. Histories'
    <2>1. 0 \in Recent
        BY Ranges DEF Recent
    <2> QED
        BY <1>1, <1>2, <2>1 DEF LimiterInv, Histories
<1> QED
    BY <1>4, <1>10, <1>11, <1>12 DEF LimiterInv, k, now

\* A caller arrives with the present as its timestamp.
LEMMA ArriveStep ==
    ASSUME LimiterInv, NEW c \in Callers, NEW k \in Keys, Arrive(c, k)
    PROVE  LimiterInv'
<1>1. [key |-> k, now |-> 0] \in Call
    BY Ranges DEF Call
<1>2. Calls'
    BY <1>1 DEF Arrive, LimiterInv, Calls, One
<1> QED
    BY <1>2 DEF Arrive, LimiterInv, Buckets, Clocks, Remembered, Histories

\* Time passes for all alike.
LEMMA TickStep ==
    ASSUME LimiterInv, Tick
    PROVE  LimiterInv'
<1>1. Clocks'
    BY OlderKeeps DEF Tick, LimiterInv, Clocks
<1>2. ASSUME NEW k \in Keys, NEW b \in buckets[k]
      PROVE  /\ b \in Bucket /\ b.start \in Ages
             /\ [b EXCEPT !.start = Older(b.start)] \in Bucket
             /\ [b EXCEPT !.start = Older(b.start)].start = Older(b.start)
    <2>1. b \in Bucket /\ b.start \in Ages
        BY DEF LimiterInv, Buckets, Bucket
    <2>2. Older(b.start) \in Ages
        BY <2>1, OlderKeeps
    <2> QED
        BY <2>1, <2>2 DEF Bucket
<1>3. Buckets'
    BY <1>2 DEF Tick, LimiterInv, Buckets, One
<1>4. Remembered'
    <2> SUFFICES ASSUME NEW k \in Keys, NEW x \in buckets'[k]
                 PROVE  seen'[k] <= x.start /\ x.start - lastGC' < Window
        BY DEF Remembered
    <2>1. PICK b \in buckets[k] : x = [b EXCEPT !.start = Older(b.start)]
        BY DEF Tick
    <2>2. x.start = Older(b.start) /\ b.start \in Ages
        BY <1>2, <2>1
    <2>3. seen[k] <= b.start /\ b.start - lastGC < Window /\ seen[k] \in Ages /\ lastGC \in Ages
        BY DEF LimiterInv, Remembered, Clocks
    <2>4. seen'[k] = Older(seen[k]) /\ lastGC' = Older(lastGC)
        BY DEF Tick
    <2> QED
        BY <2>2, <2>3, <2>4, OlderKeeps
<1>5. Calls'
    <2>1. ASSUME NEW c \in Callers, NEW call \in caller[c]
          PROVE  [call EXCEPT !.now = call.now + 1] \in Call
        <3>1. call \in Call /\ call.now < MaxDelay
            BY DEF Tick, LimiterInv, Calls
        <3> QED
            BY <3>1, Ranges DEF Call
    <2> QED
        BY <2>1 DEF Tick, LimiterInv, Calls, One
<1>6. Histories'
    <2>1. ASSUME NEW t \in Recent, t # 0 PROVE t - 1 \in Recent
        BY <2>1, Ranges DEF Recent
    <2> QED
        BY <2>1 DEF Tick, LimiterInv, Histories
<1> QED
    BY <1>1, <1>3, <1>4, <1>5, <1>6 DEF LimiterInv

-----------------------------------------------------------------------------
(* The requests that were allowed.                                         *)

\* A request allowed is its age and its number among those of that age.
LEMMA GrantIs ==
    ASSUME NEW k, NEW I, NEW g
    PROVE  g \in Grants(k, I) <=> \E t \in I : \E n \in 1..granted[k][t] : g = <<t, n>>
BY DEF Grants

\* An injection into a finite set bounds its domain.
LEMMA Fewer ==
    ASSUME NEW S, IsFiniteSet(S), NEW T, NEW f \in [T -> S],
           \A x, y \in T : f[x] = f[y] => x = y
    PROVE  /\ IsFiniteSet(T)
           /\ Cardinality(T) \in Nat /\ Cardinality(S) \in Nat
           /\ Cardinality(T) <= Cardinality(S)
<1>1. f \in Injection(T, S)
    BY DEF Injection, IsInjective
<1>2. IsFiniteSet(T) /\ Cardinality(T) <= Cardinality(S)
    BY <1>1, FS_Injection
<1> QED
    BY <1>2, FS_CardinalityType

\* Allowing a request adds one of the present to its key.
LEMMA GrantsAdmit ==
    ASSUME Histories, NEW k \in Keys,
           granted' = [granted EXCEPT ![k][0] = granted[k][0] + 1]
    PROVE  /\ \A I \in SUBSET Recent : 0 \in I =>
                 Grants(k, I)' = Grants(k, I) \cup {<<0, granted[k][0] + 1>>}
           /\ \A I : <<0, granted[k][0] + 1>> \notin Grants(k, I)
           /\ \A j \in Keys : \A I : j # k => Grants(j, I)' = Grants(j, I)
<1> DEFINE m == granted[k][0]
<1>1. 0 \in Recent
    BY Ranges DEF Recent
<1>2. m \in Nat
    BY <1>1 DEF Histories
<1>3. granted'[k][0] = m + 1 /\ \A t \in Recent : t # 0 => granted'[k][t] = granted[k][t]
    BY <1>1 DEF Histories
<1>4. \A j \in Keys : j # k => granted'[j] = granted[j]
    BY DEF Histories
<1>5. ASSUME NEW I \in SUBSET Recent, 0 \in I, NEW g
      PROVE  g \in Grants(k, I)' <=> g \in Grants(k, I) \cup {<<0, m + 1>>}
    <2>1. 1..(m + 1) = 1..m \cup {m + 1}
        BY <1>2
    <2> HIDE DEF m
    <2>2. 1..granted'[k][0] = 1..m \cup {m + 1}
        BY <1>3, <2>1
    <2>3. \A n : n \in 1..granted'[k][0] <=> n \in 1..granted[k][0] \/ n = m + 1
        BY <2>2 DEF m
    <2>4. \A t \in I : \A n : n \in 1..granted'[k][t] <=> n \in 1..granted[k][t] \/ (t = 0 /\ n = m + 1)
        BY <1>3, <1>5, <2>3
    <2> QED
        BY <1>5, <2>4 DEF Grants
<1>6. \A I : <<0, m + 1>> \notin Grants(k, I)
    <2>1. m + 1 \notin 1..m
        BY <1>2
    <2> QED
        BY <2>1, GrantIs
<1>7. \A j \in Keys : \A I : j # k => Grants(j, I)' = Grants(j, I)
    BY <1>4 DEF Grants
<1> QED
    BY <1>5, <1>6, <1>7

\* As time passes, requests age; those of the horizon are forgotten.
LEMMA GrantsAge ==
    ASSUME Histories, Tick, NEW k \in Keys
    PROVE  /\ \A g \in Grants(k, Recent)' : /\ <<g[1] - 1, g[2]>> \in Grants(k, Recent)
                                           /\ g[1] \in Nat /\ g = <<g[1], g[2]>>
           /\ \A s \in 0..(Window + MaxDelay - 1) : \A g \in Grants(k, 0..s) :
                 /\ <<g[1] + 1, g[2]>> \in Grants(k, 0..(s + 1))'
                 /\ g[1] \in Nat /\ g = <<g[1], g[2]>>
<1>1. \A t \in Recent : granted'[k][t] = IF t = 0 THEN 0 ELSE granted[k][t - 1]
    BY DEF Tick
<1>2. ASSUME NEW g \in Grants(k, Recent)'
      PROVE  <<g[1] - 1, g[2]>> \in Grants(k, Recent) /\ g[1] \in Nat /\ g = <<g[1], g[2]>>
    <2> PICK t \in Recent : \E n \in 1..granted'[k][t] : g = <<t, n>>
        BY DEF Grants
    <2>1. PICK n \in 1..granted'[k][t] : g = <<t, n>>
        OBVIOUS
    <2>2. t # 0
        BY <1>1, <2>1
    <2>3. t - 1 \in Recent /\ t \in Nat
        BY <2>2, Ranges DEF Recent
    <2>4. n \in 1..granted[k][t - 1]
        BY <1>1, <2>1, <2>2
    <2>5. <<t - 1, n>> \in Grants(k, Recent)
        BY <2>3, <2>4, GrantIs
    <2> QED
        BY <2>1, <2>3, <2>5
<1>3. ASSUME NEW s \in 0..(Window + MaxDelay - 1), NEW g \in Grants(k, 0..s)
      PROVE  <<g[1] + 1, g[2]>> \in Grants(k, 0..(s + 1))' /\ g[1] \in Nat /\ g = <<g[1], g[2]>>
    <2> PICK t \in 0..s : \E n \in 1..granted[k][t] : g = <<t, n>>
        BY GrantIs
    <2>1. PICK n \in 1..granted[k][t] : g = <<t, n>>
        OBVIOUS
    <2>2. t \in Nat /\ t + 1 \in Recent /\ t + 1 \in 0..(s + 1) /\ t + 1 # 0 /\ (t + 1) - 1 = t
        BY Ranges DEF Recent
    <2>3. granted'[k][t + 1] = granted[k][t]
        BY <1>1, <2>2
    <2>4. <<t + 1, n>> \in Grants(k, 0..(s + 1))'
        BY <2>1, <2>2, <2>3 DEF Grants
    <2> QED
        BY <2>1, <2>2, <2>4
<1> QED
    BY <1>2, <1>3

-----------------------------------------------------------------------------
(* Which bucket allowed them.                                              *)

\* When a key's bucket is over, few of its requests are late.
LEMMA FewAreLate ==
    ASSUME LimiterInv, Accounts, NEW k \in Keys, NEW now \in 0..MaxDelay,
           \A b \in Swept(now)[k] : Expired(b, now)
    PROVE  /\ Cardinality(Late(Grants(k, Recent))) <= Requests
           /\ IsFiniteSet(Grants(k, Recent))
<1> DEFINE G == Grants(k, Recent)
<1>1. PICK cur \in SUBSET G : Accounted(k, cur)
    BY DEF Accounts
<1>2. IsFiniteSet(G)
    BY DEF Accounts
<1>3. CASE buckets[k] = {}
    <2>1. G \ cur = G
        BY <1>1, <1>3 DEF Accounted
    <2> QED
        BY <1>1, <1>2, <2>1 DEF Accounted
<1>4. ASSUME NEW b \in buckets[k]
      PROVE  Cardinality(Late(G)) <= Requests
    <2>1. Expired(b, now)
        BY DEF Swept
    <2>2. b.start \in Nat /\ b.count \in 0..Requests
        BY Ranges DEF LimiterInv, Buckets, Bucket, Ages
    <2>3. Window - MaxDelay <= b.start - MaxDelay
        BY <2>1, <2>2, Ranges DEF Expired, Since
    <2>4. ASSUME NEW g \in G \ cur PROVE ~(g[1] <= Edge)
        <3>1. b.start - MaxDelay <= g[1]
            BY <1>1 DEF Accounted
        <3>2. g[1] \in Int
            <4>1. \E t \in Recent : \E n \in 1..granted[k][t] : g = <<t, n>>
                BY GrantIs
            <4> QED
                BY <4>1, Ranges DEF Recent
        <3> QED
            BY <2>2, <2>3, <3>1, <3>2, Ranges DEF Edge
    <2>5. Late(G) \subseteq cur
        BY <2>4 DEF Late
    <2>6. IsFiniteSet(cur)
        BY <1>2, FS_Subset
    <2>7. Cardinality(Late(G)) <= Cardinality(cur) /\ IsFiniteSet(Late(G))
        BY <2>5, <2>6, FS_Subset
    <2>8. Cardinality(cur) <= b.count
        BY <1>1 DEF Accounted
    <2> QED
        BY <2>2, <2>6, <2>7, <2>8, FS_CardinalityType, Ranges
<1> QED
    BY <1>2, <1>3, <1>4

\* Accounts after Allow, of the key of the call.
LEMMA AllowAccountsOwn ==
    ASSUME LimiterInv, Accounts, NEW c \in Callers, NEW call \in caller[c], Allow(c),
           NEW k, k = call.key, NEW now, now = call.now
    PROVE  /\ IsFiniteSet(Grants(k, Recent)')
           /\ \E cur \in SUBSET Grants(k, Recent)' : Accounted(k, cur)'
           /\ CountIsEarned(k)'
<1>0. PICK b, new : b = Current(k, now) /\ new = <<0, granted[k][0] + 1>>
    OBVIOUS
<1> DEFINE G == Grants(k, Recent)
           n == IF Admits(b) THEN [b EXCEPT !.count = b.count + 1] ELSE b
<1>1. k \in Keys /\ now \in 0..MaxDelay /\ Histories
    BY AllowIs DEF LimiterInv
<1>2. buckets'[k] = {n}
    <2>1. buckets' = [Swept(now) EXCEPT ![k] = {n}]
        BY <1>0, AllowIs
    <2>2. Swept(now) \in [Keys -> SUBSET Bucket]
        BY <1>1, SweptKeeps DEF LimiterInv
    <2> HIDE DEF n
    <2> QED
        BY <1>1, <2>1, <2>2
<1>3. granted' = IF Admits(b) THEN [granted EXCEPT ![k][0] = granted[k][0] + 1] ELSE granted
    BY <1>0, AllowIs
<1>4. PICK cur \in SUBSET G : Accounted(k, cur)
    BY <1>1 DEF Accounts
<1>5. IsFiniteSet(G) /\ IsFiniteSet(cur) /\ CountIsEarned(k)
    BY <1>1, FS_Subset DEF Accounts
<1>6. 0 \in Recent /\ \A s \in 0..(Window + MaxDelay) : 0 \in 0..s /\ 0..s \in SUBSET Recent
    BY Ranges DEF Recent
<1>7. Admits(b) => /\ Grants(k, Recent)' = G \cup {new}
                   /\ \A I \in SUBSET Recent : 0 \in I => Grants(k, I)' = Grants(k, I) \cup {new}
                   /\ \A I : new \notin Grants(k, I)
    BY <1>1, <1>3, <1>6, <1>0, GrantsAdmit
<1>8. ~Admits(b) => \A I : Grants(k, I)' = Grants(k, I)
    BY <1>3 DEF Grants
<1>9. \A s \in 0..(Window + MaxDelay) : IsFiniteSet(Grants(k, 0..s)) /\ Grants(k, 0..s) \subseteq G
    <2>1. \A s \in 0..(Window + MaxDelay) : Grants(k, 0..s) \subseteq G
        BY <1>6 DEF Grants
    <2> QED
        BY <1>5, <2>1, FS_Subset
<1>10. CASE \A x \in Swept(now)[k] : Expired(x, now)
    <2>1. b = [start |-> now, count |-> 0]
        BY <1>10, <1>0 DEF Current
    <2>2. Admits(b) /\ buckets'[k] = {[start |-> now, count |-> 1]}
        BY <1>2, <2>1, Ranges DEF Admits
    <2>3. Cardinality({new}) = 1 /\ {new} \subseteq G \cup {new} /\ (G \cup {new}) \ {new} = G
        BY <1>7, <2>2, FS_Singleton
    <2>4. ASSUME NEW g \in G PROVE now - MaxDelay <= g[1]
        <3>1. \E t \in Recent : \E m \in 1..granted[k][t] : g = <<t, m>>
            BY GrantIs
        <3> QED
            BY <1>1, <3>1, Ranges DEF Recent
    <2>5. Accounted(k, {new})'
        <3>1. Cardinality(Late(G)) <= Requests
            BY <1>1, <1>10, FewAreLate
        <3>2. PICK x : x = [start |-> now, count |-> 1]
            OBVIOUS
        <3>3. buckets'[k] = {x} /\ x.start = now /\ x.count = 1
            BY <2>2, <3>2
        <3>4. Grants(k, Recent)' \ {new} = G /\ Cardinality({new}) <= 1
            BY <1>7, <2>2, <2>3
        <3> QED
            BY <2>4, <3>1, <3>3, <3>4 DEF Accounted, Late
    <2>6. CountIsEarned(k)'
        <3>1. now \in 0..(Window + MaxDelay)
            BY <1>1, Ranges
        <3>2. Grants(k, 0..now)' = Grants(k, 0..now) \cup {new} /\ new \notin Grants(k, 0..now)
            BY <1>6, <1>7, <2>2, <3>1
        <3>3. Cardinality(Grants(k, 0..now)') = Cardinality(Grants(k, 0..now)) + 1
            BY <1>9, <3>1, <3>2, FS_AddElement
        <3>4. Cardinality(Grants(k, 0..now)) \in Nat
            BY <1>9, <3>1, FS_CardinalityType
        <3>5. 1 <= Cardinality(Grants(k, 0..now)')
            BY <3>3, <3>4
        <3> QED
            BY <2>2, <3>5 DEF CountIsEarned
    <2> QED
        BY <1>5, <1>7, <2>2, <2>3, <2>5, <2>6, FS_AddElement
<1>11. CASE ~(\A x \in Swept(now)[k] : Expired(x, now))
    <2>1. b \in Swept(now)[k]
        BY <1>11, <1>0 DEF Current
    <2>2. b \in buckets[k] /\ b \in Bucket
        BY <1>1, <2>1, SweptKeeps DEF LimiterInv, Buckets
    <2>3. b.start \in Nat /\ b.count \in Nat
        BY <2>2, Ranges DEF Bucket, Ages
    <2>4. /\ Cardinality(cur) <= b.count
          /\ \A g \in G \ cur : b.start - MaxDelay <= g[1]
          /\ Cardinality(Late(G \ cur)) <= Requests
        BY <1>4, <2>2 DEF Accounted
    <2>5. b.start <= Window + MaxDelay => b.count <= Cardinality(Grants(k, 0..b.start))
        BY <1>5, <2>2 DEF CountIsEarned
    <2>6. CASE Admits(b)
        <3>1. PICK x : x = [b EXCEPT !.count = b.count + 1]
            OBVIOUS
        <3>2. buckets'[k] = {x} /\ x.start = b.start /\ x.count = b.count + 1
            BY <1>2, <2>2, <2>6, <3>1 DEF Bucket
        <3>3. new \notin cur /\ new \notin G
            BY <1>4, <1>7, <2>6
        <3>4. Cardinality(cur \cup {new}) = Cardinality(cur) + 1 /\ Cardinality(cur) \in Nat
            BY <1>5, <3>3, FS_AddElement, FS_CardinalityType
        <3>5. Cardinality(cur \cup {new}) <= x.count
            BY <2>3, <2>4, <3>2, <3>4
        <3>6. Grants(k, Recent)' = G \cup {new} /\ (G \cup {new}) \ (cur \cup {new}) = G \ cur
            BY <1>7, <2>6, <3>3
        <3>7. Accounted(k, cur \cup {new})'
            BY <2>4, <3>2, <3>5, <3>6 DEF Accounted, Late
        <3>8. CountIsEarned(k)'
            <4>1. SUFFICES ASSUME b.start <= Window + MaxDelay
                           PROVE  b.count + 1 <= Cardinality(Grants(k, 0..b.start)')
                BY <3>2 DEF CountIsEarned
            <4>2. b.start \in 0..(Window + MaxDelay)
                BY <2>3, <4>1, Ranges
            <4>3. Grants(k, 0..b.start)' = Grants(k, 0..b.start) \cup {new} /\ new \notin Grants(k, 0..b.start)
                <5>1. \A s \in 0..(Window + MaxDelay) :
                        Grants(k, 0..s)' = Grants(k, 0..s) \cup {new} /\ new \notin Grants(k, 0..s)
                    BY <1>6, <1>7, <2>6
                <5>2. PICK s \in 0..(Window + MaxDelay) : s = b.start
                    BY <4>2
                <5> QED
                    BY <5>1, <5>2
            <4>4. Cardinality(Grants(k, 0..b.start)') = Cardinality(Grants(k, 0..b.start)) + 1
                BY <1>9, <4>2, <4>3, FS_AddElement
            <4>5. Cardinality(Grants(k, 0..b.start)) \in Nat
                BY <1>9, <4>2, FS_CardinalityType
            <4> QED
                BY <2>3, <2>5, <4>1, <4>4, <4>5
        <3> QED
            BY <1>4, <1>5, <3>6, <3>7, <3>8, FS_AddElement
    <2>7. CASE ~Admits(b)
        <3>1. buckets'[k] = {b} /\ Grants(k, Recent)' = G
            BY <1>2, <1>8, <2>7
        <3>2. Accounted(k, cur)'
            BY <2>4, <3>1 DEF Accounted, Late
        <3>3. CountIsEarned(k)'
            BY <1>8, <2>5, <2>7, <3>1 DEF CountIsEarned
        <3> QED
            BY <1>4, <1>5, <3>1, <3>2, <3>3
    <2> QED
        BY <2>6, <2>7
<1> QED
    BY <1>10, <1>11

\* Accounts after Allow, of the other keys, whose buckets it may have swept.
LEMMA AllowAccountsOther ==
    ASSUME LimiterInv, Accounts, NEW c \in Callers, NEW call \in caller[c], Allow(c),
           NEW k, k = call.key, NEW now, now = call.now, NEW j \in Keys, j # k
    PROVE  /\ IsFiniteSet(Grants(j, Recent)')
           /\ \E cur \in SUBSET Grants(j, Recent)' : Accounted(j, cur)'
           /\ CountIsEarned(j)'
<1> DEFINE G == Grants(j, Recent)
<1>1. k \in Keys /\ now \in 0..MaxDelay /\ Histories /\ Buckets
    BY AllowIs DEF LimiterInv
<1>2. buckets'[j] = Swept(now)[j] /\ Swept(now)[j] \subseteq buckets[j]
    <2>1. PICK n : buckets' = [Swept(now) EXCEPT ![k] = {n}]
        BY AllowIs
    <2>2. Swept(now) \in [Keys -> SUBSET Bucket] /\ Swept(now)[j] \subseteq buckets[j]
        BY <1>1, SweptKeeps
    <2> QED
        BY <2>1, <2>2
<1>3. \A I : Grants(j, I)' = Grants(j, I)
    <2>1. granted'[j] = granted[j]
        <3>1. \/ granted' = granted
              \/ granted' = [granted EXCEPT ![k][0] = granted[k][0] + 1]
            BY AllowIs
        <3> QED
            BY <1>1, <3>1 DEF Histories
    <2> QED
        BY <2>1 DEF Grants
<1>4. IsFiniteSet(G) /\ CountIsEarned(j)
    BY DEF Accounts
<1>5. CountIsEarned(j)'
    BY <1>2, <1>3, <1>4 DEF CountIsEarned
<1>6. CASE Swept(now)[j] = {}
    <2>1. Cardinality(Late(G)) <= Requests
        BY <1>1, <1>6, FewAreLate
    <2>2. Accounted(j, {})'
        <3>1. G \ {} = G
            OBVIOUS
        <3> QED
            BY <1>2, <1>3, <1>6, <2>1, <3>1 DEF Accounted, Late
    <2> QED
        BY <1>3, <1>4, <1>5, <2>2
<1>7. CASE Swept(now)[j] # {}
    <2>1. Swept(now)[j] = buckets[j]
        <3>1. One(buckets[j])
            BY <1>1 DEF Buckets
        <3> QED
            BY <1>2, <1>7, <3>1 DEF One
    <2>2. PICK cur \in SUBSET G : Accounted(j, cur)
        BY DEF Accounts
    <2>3. Accounted(j, cur)'
        BY <1>2, <1>3, <2>1, <2>2 DEF Accounted, Late
    <2> QED
        BY <1>3, <1>4, <1>5, <2>2, <2>3
<1> QED
    BY <1>6, <1>7

\* Accounts while time passes: requests and buckets grow older together.
LEMMA TickAccounts ==
    ASSUME LimiterInv, Accounts, Tick, NEW k \in Keys
    PROVE  /\ IsFiniteSet(Grants(k, Recent)')
           /\ \E cur \in SUBSET Grants(k, Recent)' : Accounted(k, cur)'
           /\ CountIsEarned(k)'
<1> DEFINE G == Grants(k, Recent)
           Younger(g) == <<g[1] - 1, g[2]>>
<1>0. PICK H : H = Grants(k, Recent)'
    OBVIOUS
<1>1. PICK cur \in SUBSET G : Accounted(k, cur)
    BY DEF Accounts
<1>2. IsFiniteSet(G) /\ IsFiniteSet(cur) /\ CountIsEarned(k) /\ Histories
    BY FS_Subset DEF Accounts, LimiterInv
<1>3. \A g \in H : Younger(g) \in G /\ g[1] \in Nat /\ g = <<g[1], g[2]>>
    BY <1>0, <1>2, GrantsAge
\* Requests that come from a finite set are no more than it has.
<1>4. ASSUME NEW S, IsFiniteSet(S), NEW T \in SUBSET H, \A g \in T : Younger(g) \in S
      PROVE  IsFiniteSet(T) /\ Cardinality(T) <= Cardinality(S) /\ Cardinality(T) \in Nat /\ Cardinality(S) \in Nat
    <2> DEFINE f == [g \in T |-> Younger(g)]
    <2>1. f \in [T -> S]
        BY <1>4
    <2>2. ASSUME NEW x \in T, NEW y \in T, f[x] = f[y]
          PROVE  x = y
        <3>1. x[1] - 1 = y[1] - 1 /\ x[2] = y[2]
            BY <2>2
        <3>2. x[1] = y[1]
            <4>1. x[1] \in Nat /\ y[1] \in Nat
                BY <1>3, <1>4
            <4> QED
                BY <3>1, <4>1
        <3> QED
            BY <1>3, <3>1, <3>2
    <2> HIDE DEF f
    <2> QED
        BY <1>4, <2>1, <2>2, Fewer
<1>5. IsFiniteSet(H)
    BY <1>2, <1>3, <1>4
<1> DEFINE now == {g \in H : Younger(g) \in cur}
<1>6. ASSUME NEW x \in buckets'[k]
      PROVE  \E b \in buckets[k] : /\ b \in Bucket /\ b.start \in Ages /\ x.count = b.count
                                  /\ x.start = Older(b.start)
    <2>1. PICK b \in buckets[k] : x = [b EXCEPT !.start = Older(b.start)]
        BY DEF Tick
    <2>2. b \in Bucket
        BY DEF LimiterInv, Buckets
    <2> QED
        BY <2>1, <2>2 DEF Bucket
<1>7. Accounted(k, now)'
    <2>1. buckets'[k] = {} => now = {}
        <3>1. buckets'[k] = {} => buckets[k] = {}
            <4>1. \A b \in buckets[k] : [b EXCEPT !.start = Older(b.start)] \in buckets'[k]
                BY DEF Tick
            <4> QED
                BY <4>1
        <3> QED
            BY <1>1, <3>1 DEF Accounted
    <2>2. ASSUME NEW x \in buckets'[k]
          PROVE  /\ Cardinality(now) <= x.count
                 /\ \A g \in H \ now : x.start - MaxDelay <= g[1]
        <3>1. PICK b \in buckets[k] : /\ b \in Bucket /\ b.start \in Ages /\ x.count = b.count
                                     /\ x.start = Older(b.start)
            BY <1>6, <2>2
        <3>2. Cardinality(cur) <= b.count /\ \A g \in G \ cur : b.start - MaxDelay <= g[1]
            BY <1>1 DEF Accounted
        <3>3. Cardinality(now) <= Cardinality(cur) /\ Cardinality(now) \in Nat /\ Cardinality(cur) \in Nat
            <4>1. now \in SUBSET H /\ \A g \in now : Younger(g) \in cur
                OBVIOUS
            <4> HIDE DEF now, Younger
            <4> QED
                BY <1>2, <1>4, <4>1
        <3>4. b.count \in Nat /\ b.start \in Nat
            BY <3>1, Ranges DEF Bucket, Ages
        <3>5. ASSUME NEW g \in H \ now PROVE x.start - MaxDelay <= g[1]
            <4>1. Younger(g) \in G \ cur
                BY <1>3
            <4>2. b.start - MaxDelay <= g[1] - 1
                BY <3>2, <4>1
            <4>3. g[1] \in Nat
                BY <1>3
            <4> QED
                BY <3>1, <3>4, <4>2, <4>3, Ranges DEF Older
        <3> QED
            BY <3>1, <3>2, <3>3, <3>4, <3>5
    <2>3. Cardinality(Late(H \ now)) <= Requests
        <3>1. IsFiniteSet(Late(G \ cur)) /\ Cardinality(Late(G \ cur)) <= Requests
            <4>1. Late(G \ cur) \subseteq G
                BY DEF Late
            <4> QED
                BY <1>1, <1>2, <4>1, FS_Subset DEF Accounted
        <3>2. ASSUME NEW g \in Late(H \ now) PROVE Younger(g) \in Late(G \ cur)
            <4>1. g \in H /\ g \notin now /\ g[1] <= Edge
                BY DEF Late
            <4>2. g[1] - 1 <= Edge
                BY <1>3, <4>1, Ranges DEF Edge
            <4> QED
                BY <1>3, <4>1, <4>2 DEF Late
        <3>3. Late(H \ now) \subseteq H
            BY DEF Late
        <3> QED
            <4>1. PICK T : T = Late(H \ now)
                OBVIOUS
            <4>2. PICK S : S = Late(G \ cur)
                OBVIOUS
            <4>3. Cardinality(T) <= Cardinality(S) /\ Cardinality(T) \in Nat /\ Cardinality(S) \in Nat
                <5>1. IsFiniteSet(S) /\ T \in SUBSET H /\ \A g \in T : Younger(g) \in S
                    BY <3>1, <3>2, <3>3, <4>1, <4>2
                <5> HIDE DEF Younger
                <5> QED
                    BY <1>4, <5>1
            <4> QED
                BY <3>1, <4>1, <4>2, <4>3, Ranges
    <2> QED
        BY <1>0, <2>1, <2>2, <2>3 DEF Accounted, Late, Edge
<1>8. CountIsEarned(k)'
    <2> SUFFICES ASSUME NEW x \in buckets'[k], x.start <= Window + MaxDelay
                 PROVE  x.count <= Cardinality(Grants(k, 0..x.start)')
        BY DEF CountIsEarned
    <2>1. PICK b \in buckets[k] : /\ b \in Bucket /\ b.start \in Ages /\ x.count = b.count
                                 /\ x.start = Older(b.start)
        BY <1>6
    <2>2. PICK s \in 0..(Window + MaxDelay - 1) : b.start = s /\ x.start = s + 1
        BY <2>1, Ranges DEF Ages, Older
    <2>0. PICK Q : Q = Grants(k, 0..(s + 1))'
        OBVIOUS
    <2> DEFINE P == Grants(k, 0..s)
               f == [g \in P |-> <<g[1] + 1, g[2]>>]
    <2>3. \A g \in P : <<g[1] + 1, g[2]>> \in Q /\ g[1] \in Nat /\ g = <<g[1], g[2]>>
        BY <1>2, <2>0, GrantsAge
    <2>4. f \in [P -> Q]
        BY <2>3
    <2>5. ASSUME NEW y \in P, NEW z \in P, f[y] = f[z]
          PROVE  y = z
        <3>1. y[1] + 1 = z[1] + 1 /\ y[2] = z[2]
            BY <2>5
        <3>2. y[1] = z[1]
            <4>1. y[1] \in Nat /\ z[1] \in Nat
                BY <2>3
            <4> QED
                BY <3>1, <4>1
        <3> QED
            BY <2>3, <3>1, <3>2
    <2>6. IsFiniteSet(Q)
        <3>1. 0..(s + 1) \subseteq Recent
            BY Ranges DEF Recent
        <3>2. Q \subseteq H
            BY <1>0, <2>0, <3>1 DEF Grants
        <3> QED
            BY <1>5, <3>2, FS_Subset
    <2> HIDE DEF f
    <2>7. Cardinality(P) <= Cardinality(Q) /\ Cardinality(P) \in Nat /\ Cardinality(Q) \in Nat
        <3> HIDE DEF P
        <3> QED
            BY <2>4, <2>5, <2>6, Fewer
    <2>8. b.count <= Cardinality(P)
        <3>1. b.start <= Window + MaxDelay
            BY <2>2, Ranges
        <3> QED
            BY <1>2, <2>2, <3>1 DEF CountIsEarned
    <2>9. x.count \in Nat
        BY <2>1 DEF Bucket
    <2> QED
        BY <2>0, <2>1, <2>2, <2>7, <2>8, <2>9
<1>9. now \in SUBSET H
    OBVIOUS
<1> QED
    BY <1>0, <1>5, <1>7, <1>8, <1>9

-----------------------------------------------------------------------------
\* LimiterInv is inductive: it holds at first and every step keeps it.
LEMMA Invariant == Spec => []LimiterInv
<1>1. Init => LimiterInv
    <2> SUFFICES ASSUME Init PROVE LimiterInv
        OBVIOUS
    <2>1. Horizon \in Ages
        BY Ranges DEF Ages
    <2> QED
        BY <2>1 DEF Init, LimiterInv, Buckets, Calls, Clocks, Remembered, Histories, One
<1>2. LimiterInv /\ [Next]_vars => LimiterInv'
    <2> SUFFICES ASSUME LimiterInv, [Next]_vars PROVE LimiterInv'
        OBVIOUS
    <2>1. CASE UNCHANGED vars
        BY <2>1 DEF vars, LimiterInv, Buckets, Calls, Clocks, Remembered, Histories, One
    <2>2. ASSUME NEW c \in Callers, Allow(c) PROVE LimiterInv'
        <3>1. PICK call \in caller[c] : TRUE
            BY <2>2 DEF Allow
        <3> QED
            BY <2>2, <3>1, AllowStep
    <2> QED
        BY <2>1, <2>2, ArriveStep, TickStep DEF Next
<1> QED
    BY <1>1, <1>2, PTL DEF Spec

\* So are the accounts, given that.
LEMMA AccountsInvariant == Spec => [](LimiterInv /\ Accounts)
<1>1. Init => Accounts
    <2> SUFFICES ASSUME Init, NEW k \in Keys
                 PROVE  /\ IsFiniteSet(Grants(k, Recent))
                        /\ Accounted(k, {})
                        /\ CountIsEarned(k)
        BY DEF Accounts
    <2>1. buckets[k] = {} /\ \A t \in Recent : granted[k][t] = 0
        BY DEF Init
    <2>2. Grants(k, Recent) = {}
        BY <2>1, GrantIs
    <2>3. Late({} \ {}) = {} /\ Cardinality({}) = 0 /\ IsFiniteSet({})
        BY FS_EmptySet DEF Late
    <2>4. 0 <= Requests
        BY Ranges
    <2> QED
        BY <2>1, <2>2, <2>3, <2>4 DEF Accounted, CountIsEarned
<1>2. LimiterInv /\ Accounts /\ [Next]_vars => Accounts'
    <2> SUFFICES ASSUME LimiterInv, Accounts, [Next]_vars, NEW k \in Keys
                 PROVE  /\ IsFiniteSet(Grants(k, Recent)')
                        /\ \E cur \in SUBSET Grants(k, Recent)' : Accounted(k, cur)'
                        /\ CountIsEarned(k)'
        BY DEF Accounts
    <2>1. ASSUME NEW c \in Callers, Allow(c)
          PROVE  /\ IsFiniteSet(Grants(k, Recent)')
                 /\ \E cur \in SUBSET Grants(k, Recent)' : Accounted(k, cur)'
                 /\ CountIsEarned(k)'
        <3>1. PICK call \in caller[c] : TRUE
            BY <2>1 DEF Allow
        <3>2. PICK j, now : j = call.key /\ now = call.now
            OBVIOUS
        <3>3. CASE k = j
            <4>1. /\ IsFiniteSet(Grants(j, Recent)')
                  /\ \E cur \in SUBSET Grants(j, Recent)' : Accounted(j, cur)'
                  /\ CountIsEarned(j)'
                BY <2>1, <3>1, <3>2, AllowAccountsOwn
            <4> QED
                BY <3>3, <4>1
        <3>4. CASE k # j
            BY <2>1, <3>1, <3>2, <3>4, AllowAccountsOther
        <3> QED
            BY <3>3, <3>4
    <2>2. CASE UNCHANGED <<buckets, granted>>
        <3>1. /\ IsFiniteSet(Grants(k, Recent))
              /\ \E cur \in SUBSET Grants(k, Recent) : Accounted(k, cur)
              /\ CountIsEarned(k)
            BY DEF Accounts
        <3>2. \A I : Grants(k, I)' = Grants(k, I)
            BY <2>2 DEF Grants
        <3>3. ASSUME NEW cur, Accounted(k, cur) PROVE Accounted(k, cur)'
            BY <2>2, <3>2, <3>3 DEF Accounted, Late
        <3>4. CountIsEarned(k)'
            BY <2>2, <3>1, <3>2 DEF CountIsEarned
        <3> QED
            BY <3>1, <3>2, <3>3, <3>4
    <2> QED
        BY <2>1, <2>2, TickAccounts DEF Next, Arrive, vars
<1> QED
    BY <1>1, <1>2, Invariant, PTL DEF Spec

\* The type invariant: one bucket of each key, one call of each caller, no count
\* beyond Requests.
THEOREM TypeCorrect == Spec => []TypeOK
<1>1. ASSUME NEW S, One(S) PROVE Cardinality(S) <= 1
    <2>1. CASE S = {}
        BY <2>1, FS_EmptySet
    <2>2. ASSUME NEW x \in S PROVE Cardinality(S) <= 1
        <3>1. S = {x}
            BY <1>1 DEF One
        <3> QED
            BY <3>1, FS_Singleton
    <2> QED
        BY <2>1, <2>2
<1>2. LimiterInv => TypeOK
    BY <1>1 DEF LimiterInv, Buckets, Calls, Clocks, Histories, TypeOK
<1> QED
    BY <1>2, Invariant, PTL

\* A call ends in the critical section of its caller.
LEMMA FinishIsAllow ==
    ASSUME LimiterInv, [Next]_vars, NEW c \in Callers, NEW call \in caller[c], Finishes(c)
    PROVE  Allow(c)
<1>1. caller[c] # {} /\ caller'[c] = {}
    BY DEF Finishes
<1>2. ASSUME NEW d \in Callers, Allow(d) PROVE c = d
    BY <1>1, <1>2 DEF Allow, LimiterInv, Calls
<1>3. ASSUME NEW d \in Callers, NEW j \in Keys, Arrive(d, j) PROVE FALSE
    BY <1>1, <1>3 DEF Arrive, LimiterInv, Calls
<1>4. ASSUME Tick PROVE FALSE
    <2>1. [call EXCEPT !.now = call.now + 1] \in caller'[c]
        BY <1>4 DEF Tick
    <2> QED
        BY <1>1, <2>1
<1>5. CASE UNCHANGED vars
    BY <1>1, <1>5 DEF vars
<1>6. CASE \E d \in Callers : Allow(d)
    BY <1>2, <1>6
<1>7. CASE \E d \in Callers, j \in Keys : Arrive(d, j)
    BY <1>3, <1>7
<1> QED
    BY <1>4, <1>5, <1>6, <1>7 DEF Next

\* Memory is bounded: however callers overtake each other, a call leaves buckets
\* only of keys that were called in the two windows before it.
THEOREM BoundedMemory == Spec => TwoWindowsOfMemory
<1>1. LimiterInv /\ [Next]_vars =>
        [\A c \in Callers : \A call \in caller[c] :
            Finishes(c) => \A k \in Keys :
               buckets'[k] # {} => Since(seen'[k], call.now) < 2 * Window]_vars
    <2> SUFFICES ASSUME LimiterInv, [Next]_vars, NEW c \in Callers, NEW call \in caller[c], Finishes(c),
                        NEW k \in Keys, NEW b \in buckets'[k]
                 PROVE  Since(seen'[k], call.now) < 2 * Window
        OBVIOUS
    <2>1. Allow(c)
        BY FinishIsAllow
    <2>2. LimiterInv' /\ Since(lastGC', call.now) < Window
        BY <2>1, AllowStep
    <2>3. seen'[k] <= b.start /\ b.start - lastGC' < Window
        BY <2>2 DEF LimiterInv, Remembered
    <2>4. seen'[k] \in Ages /\ lastGC' \in Ages /\ b.start \in Ages /\ call.now \in 0..MaxDelay
        BY <2>2 DEF LimiterInv, Clocks, Buckets, Bucket, Calls, Call
    <2> QED
        BY <2>2, <2>3, <2>4, Ranges DEF Since, Ages
<1> QED
    BY <1>1, Invariant, PTL DEF Spec, TwoWindowsOfMemory

\* Bursts are bounded: whichever way windows meet and callers overtake each
\* other, two windows' worth of requests are the most that a key is allowed in an
\* interval of a window less the longest delay.
THEOREM BoundedBursts == Spec => []BurstIsBounded
<1>1. LimiterInv /\ Accounts => BurstIsBounded
    <2> SUFFICES ASSUME LimiterInv, Accounts, NEW k \in Keys
                 PROVE  Granted(k, 0..Edge) <= 2 * Requests
        BY DEF BurstIsBounded, Edge
    <2> DEFINE G == Grants(k, Recent)
    <2>1. PICK cur \in SUBSET G : Accounted(k, cur)
        BY DEF Accounts
    <2>2. IsFiniteSet(cur) /\ IsFiniteSet(Late(G \ cur))
        <3>1. Late(G \ cur) \subseteq G
            BY DEF Late
        <3> QED
            BY <3>1, FS_Subset DEF Accounts
    <2>3. Grants(k, 0..Edge) \subseteq cur \cup Late(G \ cur)
        <3>1. 0..Edge \subseteq Recent /\ \A t \in 0..Edge : t <= Edge
            BY Ranges DEF Edge, Recent
        <3>2. ASSUME NEW g \in Grants(k, 0..Edge) PROVE g \in G /\ g[1] <= Edge
            <4>1. PICK t \in 0..Edge : \E n \in 1..granted[k][t] : g = <<t, n>>
                <5>1. PICK I : I = 0..Edge
                    OBVIOUS
                <5>2. g \in Grants(k, I)
                    BY <5>1
                <5>3. \E t \in I : \E n \in 1..granted[k][t] : g = <<t, n>>
                    BY <5>2, GrantIs
                <5> QED
                    BY <5>1, <5>3
            <4>2. t \in Recent /\ t <= Edge /\ g[1] = t
                BY <3>1, <4>1
            <4> QED
                BY <4>1, <4>2, GrantIs
        <3> QED
            BY <3>2 DEF Late
    <2>4. Cardinality(cur) <= Requests
        <3>1. CASE buckets[k] = {}
            <4>1. cur = {}
                BY <2>1, <3>1 DEF Accounted
            <4>2. Cardinality(cur) = 0
                BY <4>1, FS_EmptySet
            <4> QED
                BY <4>2, Ranges
        <3>2. ASSUME NEW b \in buckets[k] PROVE Cardinality(cur) <= Requests
            <4>1. b.count \in 0..Requests /\ Cardinality(cur) <= b.count
                BY <2>1 DEF Accounted, LimiterInv, Buckets, Bucket
            <4> QED
                BY <2>2, <4>1, FS_CardinalityType, Ranges
        <3> QED
            BY <3>1, <3>2
    <2>5. Cardinality(Late(G \ cur)) <= Requests
        BY <2>1 DEF Accounted
    <2> DEFINE L == Late(G \ cur)
    <2> HIDE DEF L
    <2>6. IsFiniteSet(L) /\ Cardinality(L) <= Requests /\ Grants(k, 0..Edge) \subseteq cur \cup L
        BY <2>2, <2>3, <2>5 DEF L
    <2>7. /\ IsFiniteSet(cur \cup L)
          /\ Cardinality(cur \cup L) = Cardinality(cur) + Cardinality(L) - Cardinality(cur \cap L)
          /\ IsFiniteSet(cur \cap L)
        BY <2>2, <2>6, FS_Union, FS_Intersection
    <2>8. IsFiniteSet(Grants(k, 0..Edge)) /\ Cardinality(Grants(k, 0..Edge)) <= Cardinality(cur \cup L)
        BY <2>6, <2>7, FS_Subset
    <2>9. \A S \in {cur, L, cur \cap L, cur \cup L, Grants(k, 0..Edge)} : Cardinality(S) \in Nat
        BY <2>2, <2>6, <2>7, <2>8, FS_CardinalityType
    <2>10. \A a, b, c, d, e, r \in Nat :
             a <= d /\ d = b + c - e /\ b <= r /\ c <= r => a <= 2 * r
        OBVIOUS
    <2>11. Requests \in Nat
        BY Ranges
    <2> QED
        BY <2>4, <2>6, <2>7, <2>8, <2>9, <2>10, <2>11 DEF Granted
<1> QED
    BY <1>1, AccountsInvariant, PTL

\* Refusals are earned: no call is refused before its key was allowed Requests
\* requests less than a window before the call's timestamp, late as it may be.
THEOREM EarnedRefusals == Spec => RefusalsAreEarned
<1>1. LimiterInv /\ Accounts /\ [Next]_vars =>
        [\A c \in Callers : \A call \in caller[c] :
            Finishes(c) /\ granted' = granted
               => Granted(call.key, {t \in Recent : Since(t, call.now) < Window})
                     >= Requests]_vars
    <2> SUFFICES ASSUME LimiterInv, Accounts, [Next]_vars, NEW c \in Callers, NEW call \in caller[c],
                        Finishes(c), granted' = granted,
                        NEW k, k = call.key, NEW now, now = call.now
                 PROVE  Granted(k, {t \in Recent : Since(t, now) < Window}) >= Requests
        OBVIOUS
    <2>1. Allow(c)
        BY FinishIsAllow
    <2>2. k \in Keys /\ now \in 0..MaxDelay /\ Histories /\ Buckets
        BY <2>1, AllowIs DEF LimiterInv
    <2>3. PICK b : b = Current(k, now)
        OBVIOUS
    <2>4. ~Admits(b)
        <3>1. Admits(b) => granted' = [granted EXCEPT ![k][0] = granted[k][0] + 1]
            BY <2>1, <2>3, AllowIs
        <3>2. 0 \in Recent
            BY Ranges DEF Recent
        <3>3. granted[k][0] \in Nat /\ granted \in [Keys -> [Recent -> Nat]]
            BY <2>2, <3>2 DEF Histories
        <3> QED
            BY <2>2, <3>1, <3>2, <3>3
    <2>5. b \in buckets[k] /\ ~Expired(b, now)
        <3>1. b # [start |-> now, count |-> 0]
            BY <2>4, Ranges DEF Admits
        <3>2. b \in Swept(now)[k] /\ \E x \in Swept(now)[k] : ~Expired(x, now)
            BY <2>3, <3>1 DEF Current
        <3>3. Swept(now)[k] \subseteq buckets[k] /\ One(buckets[k])
            BY <2>2, SweptKeeps DEF Buckets
        <3> QED
            BY <3>2, <3>3 DEF One
    <2>6. b \in Bucket /\ b.start \in Nat /\ b.count = Requests
        <3>1. b \in Bucket
            BY <2>2, <2>5 DEF Buckets
        <3> QED
            BY <2>4, <3>1, Ranges DEF Bucket, Ages, Admits
    <2>7. b.start - now < Window /\ b.start <= Window + MaxDelay
        BY <2>2, <2>5, <2>6, Ranges DEF Expired, Since
    <2>8. Requests <= Cardinality(Grants(k, 0..b.start))
        BY <2>2, <2>5, <2>6, <2>7 DEF Accounts, CountIsEarned
    <2> DEFINE I == {t \in Recent : Since(t, now) < Window}
    <2>9. 0..b.start \subseteq I /\ I \subseteq Recent
        BY <2>2, <2>6, <2>7, Ranges DEF Since, Recent
    <2> HIDE DEF I
    <2>10. Grants(k, 0..b.start) \subseteq Grants(k, I) /\ Grants(k, I) \subseteq Grants(k, Recent)
        BY <2>9 DEF Grants
    <2>11. IsFiniteSet(Grants(k, I))
        BY <2>2, <2>10, FS_Subset DEF Accounts
    <2>12. /\ Cardinality(Grants(k, 0..b.start)) <= Cardinality(Grants(k, I))
           /\ IsFiniteSet(Grants(k, 0..b.start))
        BY <2>10, <2>11, FS_Subset
    <2>13. Cardinality(Grants(k, 0..b.start)) \in Nat /\ Cardinality(Grants(k, I)) \in Nat
        BY <2>11, <2>12, FS_CardinalityType
    <2> QED
        BY <2>8, <2>12, <2>13, Ranges DEF Granted, I
<1> QED
    BY <1>1, AccountsInvariant, PTL DEF Spec, RefusalsAreEarned
=============================================================================
