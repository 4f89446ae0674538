---------------------------- MODULE RateLimiter -----------------------------
(***************************************************************************)
(* The fixed-window limiter of internal/platform/ratelimit.  Allow reads   *)
(* the clock before it takes the mutex, so callers enter the critical      *)
(* section in another order than that of their timestamps.                 *)
(*                                                                         *)
(* Instants are kept as ages: 0 is the present and Tick makes everything   *)
(* one older.  Ages of Horizon and more are not told apart; no comparison  *)
(* of the code or of a property does.                                      *)
(***************************************************************************)
EXTENDS Integers, FiniteSets

CONSTANTS
    Keys,      \* client addresses or emails
    Callers,   \* goroutines calling Allow
    Requests,  \* requests allowed per window
    Window,
    MaxDelay   \* longest wait between reading the clock and the mutex

ASSUME LimiterAssumption ==
    /\ Requests \in Nat \ {0}
    /\ Window \in Nat \ {0}
    /\ MaxDelay \in 0..(Window - 1)

VARIABLES
    buckets,  \* the windows of the keys that have one
    lastGC,   \* when gc last swept
    caller,   \* each goroutine: {} or the call it has under way
    granted,  \* history: how many requests of a key were allowed when
    seen      \* history: the newest timestamp a key was called with

vars == <<buckets, lastGC, caller, granted, seen>>

-----------------------------------------------------------------------------
Horizon == 2 * Window + MaxDelay
Ages == 0..Horizon
Recent == 0..(Window + MaxDelay)

Bucket == [start: Ages, count: 0..Requests]
Call == [key: Keys, now: 0..MaxDelay]

Init ==
    /\ buckets = [k \in Keys |-> {}]
    /\ lastGC = Horizon  \* the zero time
    /\ caller = [c \in Callers |-> {}]
    /\ granted = [k \in Keys |-> [t \in Recent |-> 0]]
    /\ seen = [k \in Keys |-> Horizon]

\* Allow starts: now := l.now().
Arrive(c, k) ==
    /\ caller[c] = {}
    /\ caller' = [caller EXCEPT ![c] = {[key |-> k, now |-> 0]}]
    /\ UNCHANGED <<buckets, lastGC, granted, seen>>

\* now.Sub(instant), negative when the caller's timestamp is the older one.
Since(instant, now) == instant - now

Expired(b, now) == Since(b.start, now) >= Window

\* Not the code: nothing is ever swept.
SweptNever(now) == buckets

\* gc: at most once per window, the buckets whose window is over go.
Swept(now) ==
    IF Since(lastGC, now) < Window
       THEN buckets
       ELSE [k \in Keys |-> {b \in buckets[k] : ~Expired(b, now)}]

\* Not the code: an expired window keeps its count.
CurrentKeptCount(k, now) ==
    IF Swept(now)[k] = {}
       THEN [start |-> now, count |-> 0]
       ELSE CHOOSE b \in Swept(now)[k] : TRUE

\* The bucket the call counts in: the key's, or a new one starting now.
Current(k, now) ==
    IF \A b \in Swept(now)[k] : Expired(b, now)
       THEN [start |-> now, count |-> 0]
       ELSE CHOOSE b \in Swept(now)[k] : TRUE

\* Not the code: the limit is off by one.
AdmitsOneMore(b) == b.count <= Requests

Admits(b) == b.count < Requests

\* The critical section of Allow.
Allow(c) ==
    \E call \in caller[c] :
       LET k == call.key
           b == Current(k, call.now)
       IN /\ buckets' = [Swept(call.now) EXCEPT ![k] =
                           {IF Admits(b) THEN [b EXCEPT !.count = b.count + 1]
                                         ELSE b}]
          /\ lastGC' = IF Since(lastGC, call.now) < Window THEN lastGC
                                                           ELSE call.now
          /\ caller' = [caller EXCEPT ![c] = {}]
          /\ granted' = IF Admits(b) THEN [granted EXCEPT ![k][0] = @ + 1]
                                     ELSE granted
          /\ seen' = [seen EXCEPT ![k] = IF call.now < seen[k] THEN call.now
                                                               ELSE seen[k]]

Older(age) == IF age < Horizon THEN age + 1 ELSE age

\* The clock moves while no caller has waited for MaxDelay.
Tick ==
    /\ \A c \in Callers : \A call \in caller[c] : call.now < MaxDelay
    /\ buckets' = [k \in Keys |-> {[b EXCEPT !.start = Older(b.start)] :
                                     b \in buckets[k]}]
    /\ lastGC' = Older(lastGC)
    /\ caller' = [c \in Callers |-> {[call EXCEPT !.now = call.now + 1] :
                                       call \in caller[c]}]
    /\ granted' = [k \in Keys |-> [t \in Recent |->
                     IF t = 0 THEN 0 ELSE granted[k][t - 1]]]
    /\ seen' = [k \in Keys |-> Older(seen[k])]

Next ==
    \/ \E c \in Callers : Allow(c) \/ \E k \in Keys : Arrive(c, k)
    \/ Tick

Spec == Init /\ [][Next]_vars

-----------------------------------------------------------------------------
\* Type invariant; a key has one bucket and a caller one call at most.
TypeOK ==
    /\ \A k \in Keys : buckets[k] \subseteq Bucket /\ Cardinality(buckets[k]) <= 1
    /\ lastGC \in Ages
    /\ \A c \in Callers : caller[c] \subseteq Call /\ Cardinality(caller[c]) <= 1
    /\ granted \in [Keys -> [Recent -> Nat]]
    /\ seen \in [Keys -> Ages]

\* Requests of a key allowed at the instants of a set: which, and how many.
Grants(k, instants) == UNION {{t} \X (1..granted[k][t]) : t \in instants}
Granted(k, instants) == Cardinality(Grants(k, instants))

\* However windows meet and callers overtake each other, a key is allowed at
\* most two windows' worth of requests in any interval that is as long as a
\* window less the longest delay of a caller.
BurstIsBounded ==
    \A k \in Keys :
       Granted(k, 0..(Window - MaxDelay - 1)) <= 2 * Requests

Finishes(c) == caller[c] # {} /\ caller'[c] = {}

\* A refusal is earned: when Allow refuses a call, Requests requests of that
\* key were allowed less than a window before the call's own timestamp.
RefusalsAreEarned ==
    [][\A c \in Callers : \A call \in caller[c] :
          Finishes(c) /\ granted' = granted
             => Granted(call.key, {t \in Recent : Since(t, call.now) < Window})
                   >= Requests]_vars

\* Memory is bounded: whenever a call returns, a bucket is left only for keys
\* that were called in the two windows before it.  (One window, as the comment
\* of gc has it, is too few: a bucket that is younger than a window when gc
\* sweeps stays until the next sweep.)
TwoWindowsOfMemory ==
    [][\A c \in Callers : \A call \in caller[c] :
          Finishes(c) => \A k \in Keys :
             buckets'[k] # {} => Since(seen'[k], call.now) < 2 * Window]_vars

=============================================================================
