-------------------------- MODULE ApiProcessProofs --------------------------
(***************************************************************************)
(* Theorems about ApiProcess, for any clients, whatever they may ask, and  *)
(* any environments: who may write, what is logged, and what a shutdown    *)
(* cuts off.                                                               *)
(***************************************************************************)
EXTENDS ApiProcess, FiniteSetTheorems, SequenceTheorems, TLAPS

-----------------------------------------------------------------------------
(* The configuration.                                                      *)

\* What validate leaves of the pool's size.
Usable(c) == c.max >= 1

Configs == [max : Int, inApi : BOOLEAN]

\* The variables the process reads have a value of their type, whether from the
\* environment or by default.
LEMMA ReadTypes ==
    ASSUME NEW e, Typed(e)
    PROVE  Read(e, "DB_MAX_CONNS") \in Int /\ Read(e, "JOBS_WORKER_IN_API") \in BOOLEAN
<1>1. Read(e, "DB_MAX_CONNS") \in Int
    <2> DEFINE k == "DB_MAX_CONNS"
    <2>1. k \in DOMAIN Numbers /\ Numbers[k] \in Int
        BY DEF Numbers
    <2>2. k \notin DOMAIN Strings /\ k \notin DOMAIN Origins
        BY DEF Strings, Origins
    <2>3. k \notin DOMAIN Durations /\ k \notin DOMAIN Lists /\ k \notin Switches
        BY DEF Durations, Lists, Switches
    <2>4. DefaultOf(e, k) = Numbers[k]
        BY <2>1, <2>2, <2>3, Zenon DEF DefaultOf
    <2> QED
        BY <2>1, <2>4 DEF Read, Typed
<1>2. Read(e, "JOBS_WORKER_IN_API") \in BOOLEAN
    <2> DEFINE k == "JOBS_WORKER_IN_API"
    <2>1. k \in Switches
        BY DEF Switches
    <2>2. k \notin DOMAIN Strings /\ k \notin DOMAIN Origins /\ k \notin DOMAIN Lists
        BY DEF Strings, Origins, Lists
    <2>3. k \notin DOMAIN Numbers /\ k \notin DOMAIN Durations
        BY DEF Numbers, Durations
    <2>4. DefaultOf(e, k) \in BOOLEAN
        BY <2>1, <2>2, <2>3, Zenon DEF DefaultOf
    <2> QED
        BY <2>1, <2>4 DEF Read, Typed
<1> QED
    BY <1>1, <1>2

\* A size cut to its width is a number.
LEMMA WrappedType == ASSUME NEW n \in Int PROVE Wrapped(n) \in Int
<1>1. 2 * IntHalf \in Nat \ {0} /\ n + IntHalf \in Int /\ IntHalf \in Int
    BY IntHalfAssumption
<1>2. (n + IntHalf) % (2 * IntHalf) \in Int
    BY <1>1
<1> QED
    BY <1>1, <1>2 DEF Wrapped

\* A configuration that loads is typed and usable.
LEMMA LoadedConfig ==
    ASSUME NEW e \in Environments, Loads(e)
    PROVE  Effective(Built(e)) \in Configs /\ Usable(Effective(Built(e)))
<1> DEFINE c == Built(e)
<1>1. "DB_MAX_CONNS" \in Keys /\ "JOBS_WORKER_IN_API" \in Keys
    BY DEF Keys, Numbers, Switches
<1>2. /\ c.DB_MAX_CONNS = Wrapped(Read(e, "DB_MAX_CONNS"))
      /\ c.JOBS_WORKER_IN_API = Read(e, "JOBS_WORKER_IN_API")
    BY <1>1 DEF Built
<1>3. Typed(e)
    BY EnvironmentsAssumption
<1>4. Valid(c)
    BY DEF Loads
<1> HIDE DEF c
<1>5. c.DB_MAX_CONNS \in Int /\ c.JOBS_WORKER_IN_API \in BOOLEAN
    BY <1>2, <1>3, ReadTypes, WrappedType
<1>6. c.DB_MAX_CONNS >= 1
    BY <1>4 DEF Valid, InRange
<1> QED
    BY <1>5, <1>6 DEF Effective, Configs, Usable, c

-----------------------------------------------------------------------------
(* The route table and the stages of a request.                            *)

StageNames == {"cors", "origin", "session", "member", "route", "limit", "bind", "handler"}

\* The stage let the request pass.
Passed(q, s) ==
    /\ Verdict(q, s) = 0
    /\ s = "session" => q.cookie = "live"
    /\ s = "member" => q.account = "mine"

\* What WritesAreAuthorised asks of a request.
Authorised(q) ==
    /\ q.origin # "foreign" /\ (q.origin = "none" => q.referer \in {"none", "ours"})
    /\ \E e \in Routes : e.path = q.path /\ e.method = q.method /\ e.method # "GET"
    /\ q.path \in Protected => q.cookie = "live"
    /\ q.path \in Scoped => q.account = "mine"
    /\ Seen(q) = {}

\* A set of numbers that is not empty has its minimum.
LEMMA Minimum ==
    ASSUME NEW S \in SUBSET Nat, S # {}
    PROVE  Min(S) \in S /\ \A n \in S : Min(S) <= n
<1> DEFINE N == Nat
           R == OpToRel(<, Nat)
<1>1. S \subseteq N /\ S # {}
    OBVIOUS
<1>2. IsWellFoundedOn(R, N)
    BY NatLessThanWellFounded
<1>3. \A x, y \in Nat : <<x, y>> \in R <=> x < y
    BY DEF OpToRel
<1> HIDE DEF N, R
<1>4. PICK n \in S : \A k \in S : ~(<<k, n>> \in R)
    BY <1>1, <1>2, WFMin
<1>5. ASSUME NEW k \in S PROVE n <= k
    <2>1. k \in Nat /\ n \in Nat
        OBVIOUS
    <2>2. ~(k < n)
        BY <1>3, <1>4, <2>1
    <2> QED
        BY <2>1, <2>2
<1> QED
    BY <1>5 DEF Min

\* x is an element of the sequence s.
Has(s, x) == \E j \in 1..Len(s) : s[j] = x

LEMMA Joins ==
    ASSUME NEW s \in Seq(StageNames), NEW t \in Seq(StageNames)
    PROVE  /\ s \o t \in Seq(StageNames)
           /\ \A x : Has(s \o t, x) <=> Has(s, x) \/ Has(t, x)
<1>1. /\ s \o t \in Seq(StageNames) /\ Len(s \o t) = Len(s) + Len(t)
      /\ Len(s) \in Nat /\ Len(t) \in Nat
      /\ \A i \in 1..Len(s) : (s \o t)[i] = s[i]
      /\ \A i \in 1..Len(t) : (s \o t)[Len(s) + i] = t[i]
    BY ConcatProperties
<1>2. ASSUME NEW x, Has(s \o t, x) PROVE Has(s, x) \/ Has(t, x)
    <2>1. PICK j \in 1..(Len(s) + Len(t)) : (s \o t)[j] = x
        BY <1>1, <1>2 DEF Has
    <2>2. CASE j <= Len(s)
        BY <1>1, <2>1, <2>2 DEF Has
    <2>3. CASE j > Len(s)
        <3>1. j - Len(s) \in 1..Len(t) /\ Len(s) + (j - Len(s)) = j
            BY <1>1, <2>1, <2>3
        <3> QED
            BY <1>1, <2>1, <3>1 DEF Has
    <2> QED
        BY <1>1, <2>1, <2>2, <2>3
<1>3. ASSUME NEW x, Has(s, x) \/ Has(t, x) PROVE Has(s \o t, x)
    <2>1. ASSUME NEW j \in 1..Len(s), s[j] = x PROVE Has(s \o t, x)
        BY <1>1, <2>1 DEF Has
    <2>2. ASSUME NEW j \in 1..Len(t), t[j] = x PROVE Has(s \o t, x)
        <3>1. Len(s) + j \in 1..(Len(s) + Len(t))
            BY <1>1
        <3> QED
            BY <1>1, <2>2, <3>1 DEF Has
    <2> QED
        BY <1>3, <2>1, <2>2 DEF Has
<1> QED
    BY <1>1, <1>2, <1>3

LEMMA WhenJoins ==
    ASSUME NEW condition, NEW x \in StageNames
    PROVE  /\ When(condition, x) \in Seq(StageNames)
           /\ \A y : Has(When(condition, x), y) <=> condition /\ y = x
BY DEF When, Has

\* The handler is the last stage and comes once; every request passes the
\* origin check, the router and the binding, and the guards of its path.
LEMMA StagesInOrder ==
    ASSUME NEW q \in Requests
    PROVE  LET S == Stages(q) IN
           /\ S \in Seq(StageNames) /\ S # <<>>
           /\ \A j \in 1..Len(S) : S[j] = "handler" <=> j = Len(S)
           /\ \A s \in {"origin", "route", "bind"} : Has(S, s)
           /\ q.path \in Protected => Has(S, "session")
           /\ q.path \in Scoped => Has(S, "member")
<1> DEFINE a == <<"cors", "origin">>
           b == When(q.path \in Mounted, "session")
           c == When(q.path \in Scoped, "member")
           d == <<"route">>
           e == When(q.path \in Protected \ Mounted, "session")
           f == When(q.path \in Limited, "limit")
           g == <<"bind", "handler">>
           P == a \o b \o c \o d \o e \o f
<1>1. /\ a \in Seq(StageNames) /\ d \in Seq(StageNames) /\ g \in Seq(StageNames)
      /\ \A x : Has(a, x) <=> x \in {"cors", "origin"}
      /\ \A x : Has(d, x) <=> x = "route"
    BY DEF Has, StageNames
<1>2. /\ b \in Seq(StageNames) /\ c \in Seq(StageNames)
      /\ e \in Seq(StageNames) /\ f \in Seq(StageNames)
      /\ \A x : Has(b, x) <=> q.path \in Mounted /\ x = "session"
      /\ \A x : Has(c, x) <=> q.path \in Scoped /\ x = "member"
      /\ \A x : Has(e, x) <=> q.path \in Protected \ Mounted /\ x = "session"
      /\ \A x : Has(f, x) <=> q.path \in Limited /\ x = "limit"
    BY WhenJoins DEF StageNames
<1>3. Stages(q) = P \o g
    BY DEF Stages
<1> HIDE DEF a, b, c, d, e, f, g
<1>4. /\ P \in Seq(StageNames)
      /\ \A x : Has(P, x) <=> \/ Has(a, x) \/ Has(b, x) \/ Has(c, x)
                              \/ Has(d, x) \/ Has(e, x) \/ Has(f, x)
    <2>1. a \o b \in Seq(StageNames) /\ \A x : Has(a \o b, x) <=> Has(a, x) \/ Has(b, x)
        BY <1>1, <1>2, Joins
    <2>2. /\ a \o b \o c \in Seq(StageNames)
          /\ \A x : Has(a \o b \o c, x) <=> Has(a \o b, x) \/ Has(c, x)
        BY <1>2, <2>1, Joins
    <2>3. /\ a \o b \o c \o d \in Seq(StageNames)
          /\ \A x : Has(a \o b \o c \o d, x) <=> Has(a \o b \o c, x) \/ Has(d, x)
        BY <1>1, <2>2, Joins
    <2>4. /\ a \o b \o c \o d \o e \in Seq(StageNames)
          /\ \A x : Has(a \o b \o c \o d \o e, x) <=> Has(a \o b \o c \o d, x) \/ Has(e, x)
        BY <1>2, <2>3, Joins
    <2>5. /\ P \in Seq(StageNames)
          /\ \A x : Has(P, x) <=> Has(a \o b \o c \o d \o e, x) \/ Has(f, x)
        BY <1>2, <2>4, Joins
    <2> QED
        BY <2>1, <2>2, <2>3, <2>4, <2>5
<1> HIDE DEF P
<1>5. Stages(q) \in Seq(StageNames) /\ \A x : Has(Stages(q), x) <=> Has(P, x) \/ Has(g, x)
    BY <1>1, <1>3, <1>4, Joins
<1>6. ~Has(P, "handler")
    <2>1. ~Has(a, "handler")
        BY <1>1
    <2>3. ~Has(b, "handler") /\ ~Has(c, "handler")
        BY <1>2
    <2>2. ~Has(d, "handler") /\ ~Has(e, "handler") /\ ~Has(f, "handler")
        BY <1>1, <1>2
    <2> QED
        BY <1>4, <2>1, <2>2, <2>3
<1>7. /\ Len(Stages(q)) = Len(P) + 2 /\ Len(P) \in Nat
      /\ \A j \in 1..Len(P) : Stages(q)[j] = P[j]
      /\ \A j \in 1..2 : Stages(q)[Len(P) + j] = g[j]
    BY <1>1, <1>3, <1>4, ConcatProperties DEF g
<1>8. \A j \in 1..Len(Stages(q)) : Stages(q)[j] = "handler" <=> j = Len(Stages(q))
    <2> SUFFICES ASSUME NEW j \in 1..(Len(P) + 2)
                 PROVE  Stages(q)[j] = "handler" <=> j = Len(P) + 2
        BY <1>7
    <2>1. CASE j <= Len(P)
        BY <1>6, <1>7, <2>1 DEF Has
    <2>2. CASE j = Len(P) + 1
        BY <1>7, <2>2 DEF g
    <2>3. CASE j = Len(P) + 2
        BY <1>7, <2>3 DEF g
    <2> QED
        BY <1>7, <2>1, <2>2, <2>3
<1>9. Has(g, "bind")
    BY DEF Has, g
<1>10. Stages(q) # <<>>
    BY <1>7
<1> QED
    BY <1>1, <1>2, <1>4, <1>5, <1>8, <1>9, <1>10 DEF Protected, Mounted, Scoped

\* The places of the flaws of a request that its endpoint sees.
Hits(q) == {i \in DOMAIN FlawOrder : FlawOrder[i] \in Seen(q)}

LEMMA FlawTables ==
    ASSUME NEW q \in Requests
    PROVE  /\ \A i \in 1..7 : FlawStatus[i] \in Nat \ {0}
           /\ Hits(q) # {} => Min(Hits(q)) \in 1..7
           /\ Hits(q) = {} => Seen(q) = {}
<1>1. DOMAIN FlawOrder = 1..7
    BY DEF FlawOrder
<1>2. ASSUME NEW i \in 1..7 PROVE FlawStatus[i] \in Nat \ {0}
    <2>1. i \in {1, 2, 3, 4, 5, 6, 7}
        OBVIOUS
    <2> QED
        BY <2>1 DEF FlawStatus
<1>3. Hits(q) # {} => Min(Hits(q)) \in 1..7
    <2>1. Hits(q) \in SUBSET (1..7) /\ Hits(q) \in SUBSET Nat
        BY <1>1 DEF Hits
    <2> QED
        BY <2>1, Minimum
<1>4. Hits(q) = {} => Seen(q) = {}
    <2>1. q.flaws \in SUBSET {"params", "large", "unreadable", "empty", "media type", "json", "fields"}
        BY DEF Requests
    <2>2. Seen(q) \subseteq q.flaws
        BY DEF Seen
    <2>3. /\ FlawOrder[1] = "params" /\ FlawOrder[2] = "large" /\ FlawOrder[3] = "unreadable"
          /\ FlawOrder[4] = "empty" /\ FlawOrder[5] = "media type" /\ FlawOrder[6] = "json"
          /\ FlawOrder[7] = "fields"
        BY DEF FlawOrder
    <2>4. ASSUME Hits(q) = {}, NEW f \in Seen(q) PROVE FALSE
        <3>1. f \in {"params", "large", "unreadable", "empty", "media type", "json", "fields"}
            BY <2>1, <2>2
        <3>2. \E i \in 1..7 : FlawOrder[i] = f
            <4>1. \/ f = FlawOrder[1] \/ f = FlawOrder[2] \/ f = FlawOrder[3] \/ f = FlawOrder[4]
                  \/ f = FlawOrder[5] \/ f = FlawOrder[6] \/ f = FlawOrder[7]
                BY <2>3, <3>1
            <4>2. {1, 2, 3, 4, 5, 6, 7} \subseteq 1..7
                OBVIOUS
            <4> QED
                BY <4>1, <4>2
        <3> QED
            BY <1>1, <2>4, <3>2 DEF Hits
    <2> QED
        BY <2>4
<1> QED
    BY <1>2, <1>3, <1>4

\* A status is an answer, or 0 for none.
LEMMA VerdictType == ASSUME NEW q \in Requests, NEW s PROVE Verdict(q, s) \in Nat
<1>1. Bind(q) \in Nat
    <2>1. Bind(q) \in {0, 400} \/ (Hits(q) # {} /\ Bind(q) = FlawStatus[Min(Hits(q))])
        BY DEF Bind, Hits
    <2> QED
        BY <2>1, FlawTables
<1>2. Routing(q) \in Nat
    <2>1. \A r \in Routes : r.ok \in Nat
        BY DEF Routes, AppRoutes, AuthRoutes, AccountRoutes, ExampleRoutes, EventRoutes, Route
    <2> QED
        BY <2>1 DEF Routing, RouteOf, Route
<1>3. CORS(q) \in Nat
    <2>1. q.origin \in {"none", "ours", "foreign"}
        BY DEF Requests
    <2> QED
        BY <2>1 DEF CORS
<1> QED
    BY <1>1, <1>2, <1>3 DEF Verdict, TrustedOrigin, Cookie, AccountID

\* An endpoint's success is an answer.
LEMMA OkType == ASSUME NEW q \in Requests PROVE RouteOf(q).ok \in Nat \ {0}
<1>1. \A r \in Routes : r.ok \in Nat \ {0}
    BY DEF Routes, AppRoutes, AuthRoutes, AccountRoutes, ExampleRoutes, EventRoutes, Route
<1> QED
    BY <1>1 DEF RouteOf, Route

\* A request that has passed every stage before its handler has every right.
LEMMA PassingAuthorises ==
    ASSUME NEW q \in Requests, ~Safe(q),
           \A j \in 1..Len(Stages(q)) - 1 : Passed(q, Stages(q)[j])
    PROVE  Authorised(q)
<1> DEFINE S == Stages(q)
<1>1. Len(S) \in Nat \ {0}
    BY StagesInOrder
<1>2. \A s \in {"origin", "route", "bind"} : Passed(q, s)
    <2> SUFFICES ASSUME NEW s \in {"origin", "route", "bind"} PROVE Passed(q, s)
        OBVIOUS
    <2>1. PICK j \in 1..Len(S) : S[j] = s
        BY StagesInOrder DEF Has
    <2>2. j # Len(S)
        BY <1>1, <2>1, StagesInOrder
    <2> QED
        BY <1>1, <2>1, <2>2
<1>3. q.path \in Protected => q.cookie = "live"
    <2> SUFFICES ASSUME q.path \in Protected PROVE q.cookie = "live"
        OBVIOUS
    <2>1. PICK j \in 1..Len(S) : S[j] = "session"
        BY StagesInOrder DEF Has
    <2>2. j # Len(S)
        BY <1>1, <2>1, StagesInOrder
    <2> QED
        BY <1>1, <2>1, <2>2 DEF Passed
<1>4. q.path \in Scoped => q.account = "mine"
    <2> SUFFICES ASSUME q.path \in Scoped PROVE q.account = "mine"
        OBVIOUS
    <2>1. PICK j \in 1..Len(S) : S[j] = "member"
        BY StagesInOrder DEF Has
    <2>2. j # Len(S)
        BY <1>1, <2>1, StagesInOrder
    <2> QED
        BY <1>1, <2>1, <2>2 DEF Passed
<1>5. q.origin # "foreign" /\ (q.origin = "none" => q.referer \in {"none", "ours"})
    BY <1>2 DEF Passed, Verdict, TrustedOrigin, ClaimedOrigin
<1>6. \E e \in Routes : e.path = q.path /\ e.method = q.method
    <2>1. Routing(q) = 0
        BY <1>2 DEF Passed, Verdict
    <2>2. ASSUME {r \in Routes : r.path = q.path /\ r.method = q.method} = {}
          PROVE  Routing(q) \in {404, 405}
        BY <2>2 DEF Routing, RouteOf, Route
    <2> QED
        BY <2>1, <2>2
<1>7. Seen(q) = {}
    <2>1. Bind(q) = 0
        BY <1>2 DEF Passed, Verdict
    <2>2. Hits(q) # {} => Bind(q) = 400 \/ Bind(q) = FlawStatus[Min(Hits(q))]
        BY DEF Bind, Hits
    <2>3. Hits(q) # {} => FlawStatus[Min(Hits(q))] # 0
        <3>1. ASSUME Hits(q) # {} PROVE Min(Hits(q)) \in 1..7
            BY <3>1, FlawTables
        <3>2. \A i \in 1..7 : FlawStatus[i] # 0
            BY FlawTables
        <3> QED
            BY <3>1, <3>2, Zenon
    <2>4. Hits(q) = {}
        BY <2>1, <2>2, <2>3
    <2> QED
        BY <2>4, FlawTables
<1> QED
    BY <1>3, <1>4, <1>5, <1>6, <1>7 DEF Authorised, Safe

-----------------------------------------------------------------------------
(* What holds of one request.                                              *)

RequestRecord ==
    [at: {"away", "limit", "borrow", "turn", "written", "done"}, q: Requests \cup {"none"},
     todo: Seq(StageNames), turn: Nat, status: Nat, lines: Seq(Nat), diagnosed: Nat,
     wrote: BOOLEAN, ended: {"no", "gone", "cut"}]

\* The stages from the n-th on are ahead, and those before it let q pass.
Before(q, todo, n) ==
    /\ n \in 1..Len(Stages(q))
    /\ todo \in Seq(StageNames)
    /\ Len(todo) = Len(Stages(q)) - n + 1
    /\ \A j \in 1..Len(todo) : todo[j] = Stages(q)[n + j - 1]
    /\ \A j \in 1..(n - 1) : Passed(q, Stages(q)[j])

\* A request that waits is at a stage that has to ask somebody; a session that
\* was looked up was live.
OnItsWay(m) ==
    m.at \in {"limit", "borrow", "turn"} =>
       /\ \E n : Before(m.q, m.todo, n)
       /\ Verdict(m.q, Head(m.todo)) = 0
       /\ Head(m.todo) \in IF m.at = "limit" THEN {"limit"} ELSE {"session", "member", "handler"}
       /\ Head(m.todo) = "session" /\ m.turn > 0 => m.q.cookie = "live"

Logged(m) ==
    /\ m.at \in {"written", "done"} <=> m.status # 0
    /\ m.lines = IF m.at = "done" THEN <<m.status>> ELSE <<>>
    /\ m.diagnosed = IF m.status >= 500 THEN 1 ELSE 0

\* What a request under way has done so far.
Clean(m) ==
    /\ m \in RequestRecord /\ m.q \in Requests
    /\ m.status = 0 /\ m.diagnosed = 0 /\ m.lines = <<>>
    /\ m.wrote => Authorised(m.q)

Fits(m) ==
    /\ m \in RequestRecord
    /\ m.at \notin {"away", "done"} => m.q \in Requests
    /\ Logged(m)
    /\ OnItsWay(m)
    /\ m.wrote => Authorised(m.q)

LEMMA UnderWay ==
    ASSUME NEW m, Fits(m), m.at \in {"limit", "borrow", "turn"}
    PROVE  Clean(m)
<1>1. m.status = 0 /\ m.lines = <<>>
    BY DEF Fits, Logged
<1> QED
    BY <1>1 DEF Fits, Logged, Clean

LEMMA WrittenFits ==
    ASSUME NEW m, Clean(m), NEW s \in Nat \ {0}
    PROVE  Fits(Written(m, s)) /\ Written(m, s).ended = m.ended /\ Written(m, s).at = "written"
<1> DEFINE w == Written(m, s)
<1>1. /\ w.at = "written" /\ w.status = s /\ w.lines = <<>> /\ w.q = m.q
      /\ w.wrote = m.wrote /\ w.ended = m.ended
      /\ w.diagnosed = IF s >= 500 THEN 1 ELSE 0
    BY DEF Clean, RequestRecord, Written
<1>2. w \in RequestRecord
    <2>1. <<>> \in Seq(StageNames) /\ m \in RequestRecord
        BY DEF Clean
    <2>2. /\ (IF m.status = 0 THEN s ELSE m.status) = s
          /\ m.diagnosed + (IF s >= 500 THEN 1 ELSE 0) \in Nat
        BY DEF Clean
    <2> DEFINE d == m.diagnosed + (IF s >= 500 THEN 1 ELSE 0)
    <2>3. w = [m EXCEPT !.at = "written", !.todo = <<>>, !.turn = 0, !.status = s, !.diagnosed = d]
        BY <2>1, <2>2 DEF Written, RequestRecord
    <2>4. d \in Nat /\ s \in Nat
        BY <2>2
    <2> HIDE DEF w, d
    <2> QED
        BY <2>1, <2>3, <2>4 DEF RequestRecord
<1>3. Fits(w)
    <2> HIDE DEF w
    <2> QED
        BY <1>1, <1>2 DEF Fits, Logged, OnItsWay, Clean
<1> QED
    BY <1>1, <1>3

LEMMA OnwardFits ==
    ASSUME NEW m, Clean(m), NEW todo, NEW n, Before(m.q, todo, n)
    PROVE  /\ Fits(Onward(m, todo))
           /\ Onward(m, todo).ended = m.ended
           /\ Onward(m, todo).at \in {"limit", "borrow", "written"}
<1> DEFINE asks == {"limit", "session", "member", "handler"}
           D == {j \in DOMAIN todo : todo[j] \in asks \/ Verdict(m.q, todo[j]) # 0}
           i == Min(D)
           S == Stages(m.q)
           rest == SubSeq(todo, i, Len(todo))
           v == [m EXCEPT !.at = IF todo[i] = "limit" THEN "limit" ELSE "borrow",
                          !.todo = rest, !.turn = 0]
<1>1. m.q \in Requests /\ m \in RequestRecord
    BY DEF Clean
<1>2. /\ S \in Seq(StageNames) /\ Len(S) \in Nat \ {0}
      /\ todo \in Seq(StageNames) /\ Len(todo) \in Nat \ {0} /\ DOMAIN todo = 1..Len(todo)
      /\ todo[Len(todo)] = "handler"
    BY <1>1, StagesInOrder DEF Before
<1>3. i \in 1..Len(todo) /\ i \in D /\ \A j \in D : i <= j
    <2>1. D \in SUBSET Nat /\ Len(todo) \in D
        BY <1>2
    <2> HIDE DEF D
    <2>2. i \in D /\ \A j \in D : i <= j
        BY <2>1, Minimum
    <2> QED
        BY <1>2, <2>2 DEF D
<1>4. \A j \in 1..(i - 1) : Passed(m.q, todo[j])
    <2> SUFFICES ASSUME NEW j \in 1..(i - 1) PROVE Passed(m.q, todo[j])
        OBVIOUS
    <2>1. j \in DOMAIN todo /\ ~(i <= j)
        <3> HIDE DEF D, i
        <3> QED
            BY <1>2, <1>3
    <2>2. j \notin D
        <3> HIDE DEF D, i
        <3> QED
            BY <1>3, <2>1
    <2> QED
        BY <2>1, <2>2 DEF Passed
<1>5. Onward(m, todo) =
         IF Verdict(m.q, todo[i]) # 0 THEN Written(m, Verdict(m.q, todo[i]))
         ELSE IF todo[i] = "handler" /\ Turns(m.q) = {0} THEN Written(m, RouteOf(m.q).ok)
         ELSE v
    BY DEF Onward
<1> HIDE DEF D, i
<1>6. CASE Verdict(m.q, todo[i]) # 0
    BY <1>1, <1>5, <1>6, VerdictType, WrittenFits
<1>7. CASE Verdict(m.q, todo[i]) = 0 /\ todo[i] = "handler" /\ Turns(m.q) = {0}
    BY <1>1, <1>5, <1>7, OkType, WrittenFits
<1>8. CASE Verdict(m.q, todo[i]) = 0 /\ ~(todo[i] = "handler" /\ Turns(m.q) = {0})
    <2>1. /\ rest \in Seq(StageNames) /\ Len(rest) = Len(todo) - i + 1
          /\ \A j \in 1..Len(rest) : rest[j] = todo[i + j - 1]
        BY <1>2, <1>3, SubSeqProperties
    <2>2. Before(m.q, rest, n + i - 1)
        <3>1. n + i - 1 \in 1..Len(S) /\ Len(rest) = Len(S) - (n + i - 1) + 1
            BY <1>2, <1>3, <2>1 DEF Before
        <3>2. ASSUME NEW j \in 1..Len(rest) PROVE rest[j] = S[(n + i - 1) + j - 1]
            <4>1. i + j - 1 \in 1..Len(todo) /\ n + (i + j - 1) - 1 = (n + i - 1) + j - 1
                BY <1>2, <1>3, <2>1 DEF Before
            <4> QED
                BY <2>1, <4>1 DEF Before
        <3>3. ASSUME NEW j \in 1..(n + i - 2) PROVE Passed(m.q, S[j])
            <4>1. CASE j < n
                BY <1>3, <4>1 DEF Before
            <4>2. CASE j >= n
                <5>1. j - n + 1 \in 1..(i - 1) /\ j - n + 1 \in 1..Len(todo)
                      /\ n + (j - n + 1) - 1 = j
                    BY <1>2, <1>3, <4>2 DEF Before
                <5> QED
                    BY <1>4, <5>1 DEF Before
            <4> QED
                BY <1>3, <4>1, <4>2 DEF Before
        <3>4. (n + i - 1) - 1 = n + i - 2
            BY <1>3 DEF Before
        <3> QED
            BY <2>1, <3>1, <3>2, <3>3, <3>4 DEF Before
    <2>3. Head(rest) = todo[i] /\ todo[i] \in asks
        BY <1>2, <1>3, <1>8, <2>1 DEF D
    <2>4. /\ v \in RequestRecord /\ v.q = m.q /\ v.todo = rest /\ v.ended = m.ended
          /\ v.at = (IF todo[i] = "limit" THEN "limit" ELSE "borrow") /\ v.turn = 0
          /\ v.status = 0 /\ v.diagnosed = 0 /\ v.lines = <<>> /\ v.wrote = m.wrote
        BY <2>1 DEF Clean, RequestRecord
    <2> HIDE DEF v, rest
    <2>5. Fits(v)
        BY <1>8, <2>2, <2>3, <2>4 DEF Fits, Clean, Logged, OnItsWay
    <2> QED
        BY <1>5, <1>8, <2>4, <2>5
<1> QED
    BY <1>6, <1>7, <1>8

-----------------------------------------------------------------------------
(* The steps of a request.                                                 *)

RequestsFit == request \in [Clients -> RequestRecord] /\ \A r \in Clients : Fits(request[r])

\* A step that makes r v takes a free connection, keeps the one it has, or
\* returns what it had.
Lends(r, v) ==
    \/ request[r].at # "turn" /\ v.at # "turn" /\ lent' \in {lent, lent \ {r}}
    \/ request[r].at = "turn" /\ v.at = "turn" /\ lent' = lent
    \/ request[r].at = "turn" /\ v.at # "turn" /\ lent' = lent \ {r}
    \/ /\ request[r].at # "turn" /\ v.at = "turn" /\ lent' = lent \cup {r}
       /\ pool = "open" /\ Cardinality(lent) < config.max

\* A step of r makes it v, and touches the counters only with its log line.
Becomes(r, v) ==
    /\ request' = [request EXCEPT ![r] = v]
    /\ UNCHANGED <<run, pool, worker>>
    /\ Fits(v) /\ v.at # "away" /\ request[r].at # "done" /\ Lends(r, v)
    /\ IF request[r].at = "away" THEN phase = "serve" /\ v.ended = "no"
                                 ELSE v.ended \in {request[r].ended, "gone"}
    /\ IF v.at = "done"
          THEN metrics' = [total |-> metrics.total + 1,
                           errors |-> metrics.errors + (IF v.status >= 500 THEN 1 ELSE 0)]
          ELSE UNCHANGED metrics

\* The stage at the head of todo lets the request pass.
LEMMA NextStage ==
    ASSUME NEW m, Clean(m), NEW n, Before(m.q, m.todo, n),
           Head(m.todo) # "handler", Passed(m.q, Head(m.todo))
    PROVE  Before(m.q, Tail(m.todo), n + 1)
<1> DEFINE S == Stages(m.q)
           t == m.todo
<1>1. /\ S \in Seq(StageNames) /\ Len(S) \in Nat \ {0} /\ S[Len(S)] = "handler"
      /\ n \in 1..Len(S) /\ t \in Seq(StageNames) /\ Len(t) = Len(S) - n + 1
    BY StagesInOrder DEF Clean, Before
<1>2. Head(t) = t[1] /\ t[1] = S[n]
    <2>1. 1 \in 1..Len(t) /\ n + 1 - 1 = n
        BY <1>1
    <2> QED
        BY <1>1, <2>1 DEF Before
<1>3. n < Len(S)
    BY <1>1, <1>2
<1>4. /\ Tail(t) \in Seq(StageNames) /\ Len(Tail(t)) = Len(t) - 1
      /\ \A j \in 1..Len(Tail(t)) : Tail(t)[j] = t[j + 1]
    BY <1>1, HeadTailProperties
<1>5. ASSUME NEW j \in 1..Len(Tail(t)) PROVE Tail(t)[j] = S[(n + 1) + j - 1]
    <2>1. j + 1 \in 1..Len(t) /\ n + (j + 1) - 1 = (n + 1) + j - 1
        BY <1>1, <1>4
    <2> QED
        BY <1>4, <2>1 DEF Before
<1>6. ASSUME NEW j \in 1..n PROVE Passed(m.q, S[j])
    <2>1. CASE j = n
        BY <1>2, <2>1
    <2>2. CASE j < n
        BY <1>1, <2>2 DEF Before
    <2> QED
        BY <1>1, <2>1, <2>2
<1>7. n + 1 \in 1..Len(S) /\ Len(Tail(t)) = Len(S) - (n + 1) + 1 /\ (n + 1) - 1 = n
    BY <1>1, <1>3, <1>4
<1> QED
    BY <1>4, <1>5, <1>6, <1>7 DEF Before

\* At its handler an unsafe request has every right.
LEMMA AtHandler ==
    ASSUME NEW m, Clean(m), OnItsWay(m), m.at \in {"limit", "borrow", "turn"},
           Head(m.todo) = "handler", ~Safe(m.q)
    PROVE  Authorised(m.q)
<1>1. PICK n : Before(m.q, m.todo, n)
    BY DEF OnItsWay
<1> DEFINE S == Stages(m.q)
<1>2. /\ Len(S) \in Nat \ {0} /\ n \in 1..Len(S) /\ m.todo \in Seq(StageNames)
      /\ Len(m.todo) = Len(S) - n + 1
    BY <1>1, StagesInOrder DEF Clean, Before
<1>3. Head(m.todo) = S[n]
    <2>1. 1 \in 1..Len(m.todo) /\ n + 1 - 1 = n
        BY <1>2
    <2> QED
        BY <1>1, <1>2, <2>1 DEF Before
<1>4. n = Len(S)
    BY <1>2, <1>3, StagesInOrder DEF Clean
<1> QED
    BY <1>1, <1>4, PassingAuthorises DEF Before, Clean

\* The statuses of the handlers and of the database's failures.
LEMMA AnswersAreStatuses ==
    ASSUME NEW m, m.q \in Requests
    PROVE  /\ RefusedEarly(m.q) \subseteq Nat \ {0}
           /\ Head(m.todo) \in {"session", "member", "handler"} => Found(m) \subseteq Nat \ {0}
           /\ \A cancelled : \E status \in Nat \ {0} : Failed(m, cancelled) = Written(m, status)
<1>1. RefusedEarly(m.q) \subseteq Nat \ {0} /\ RefusedLate(m.q) \subseteq Nat \ {0}
    BY DEF RefusedEarly, RefusedLate
<1>2. Head(m.todo) \in {"session", "member", "handler"} => Found(m) \subseteq Nat \ {0}
    BY <1>1 DEF Found
<1>3. \A cancelled : \E status \in Nat \ {0} : Failed(m, cancelled) = Written(m, status)
    BY DEF Failed
<1> QED
    BY <1>1, <1>2, <1>3

\* A request that was under way is answered.
LEMMA Answer ==
    ASSUME RequestsFit, NEW r \in Clients, NEW m, Clean(m), NEW s \in Nat \ {0},
           request[r].at \notin {"away", "done"}, m.ended = request[r].ended,
           request' = [request EXCEPT ![r] = Written(m, s)],
           UNCHANGED <<run, pool, worker, metrics>>,
           lent' = lent \ {r} \/ (request[r].at # "turn" /\ lent' = lent)
    PROVE  \E v : Becomes(r, v)
<1>1. Fits(Written(m, s)) /\ Written(m, s).ended = m.ended /\ Written(m, s).at = "written"
    BY WrittenFits
<1>2. Becomes(r, Written(m, s))
    BY <1>1 DEF Becomes, Lends
<1> QED
    BY <1>2

LEMMA ArriveStep ==
    ASSUME RequestsFit, NEW r \in Clients, Arrive(r)
    PROVE  \E v : Becomes(r, v)
<1>1. PICK q \in Asks[r] :
         request' = [request EXCEPT ![r] = Onward([NoRequest EXCEPT !.q = q], Stages(q))]
    BY DEF Arrive
<1> DEFINE m == [NoRequest EXCEPT !.q = q]
<1>2. q \in Requests
    BY ClientsAssumption
<1>3. Clean(m) /\ m.q = q /\ m.ended = "no"
    <2>1. <<>> \in Seq(StageNames) /\ <<>> \in Seq(Nat)
        OBVIOUS
    <2> QED
        BY <1>2, <2>1 DEF NoRequest, Clean, RequestRecord
<1>4. Before(q, Stages(q), 1)
    BY <1>2, StagesInOrder DEF Before
<1> HIDE DEF m
<1>5. /\ Fits(Onward(m, Stages(q))) /\ Onward(m, Stages(q)).ended = "no"
      /\ Onward(m, Stages(q)).at \in {"limit", "borrow", "written"}
    BY <1>3, <1>4, OnwardFits
<1>6. Becomes(r, Onward(m, Stages(q)))
    BY <1>1, <1>5 DEF Becomes, Lends, Arrive, m
<1> QED
    BY <1>6

LEMMA LimitStep ==
    ASSUME RequestsFit, NEW r \in Clients, LimitRate(r)
    PROVE  \E v : Becomes(r, v)
<1> DEFINE m == request[r]
<1>1. Fits(m) /\ m.at = "limit"
    BY DEF RequestsFit, LimitRate
<1>2. Clean(m) /\ OnItsWay(m)
    BY <1>1, UnderWay DEF Fits
<1>3. CASE request' = [request EXCEPT ![r] = Written(m, 429)]
    <2>1. 429 \in Nat \ {0} /\ UNCHANGED <<run, pool, lent, worker, metrics>>
        BY DEF LimitRate
    <2>2. request[r].at \notin {"away", "done", "turn"} /\ m.ended = request[r].ended /\ Clean(m)
        BY <1>1, <1>2
    <2>3. PICK s \in Nat \ {0} : request' = [request EXCEPT ![r] = Written(m, s)]
        BY <1>3, <2>1
    <2> HIDE DEF m
    <2>4. Fits(Written(m, s)) /\ Written(m, s).ended = m.ended /\ Written(m, s).at = "written"
        BY <2>2, WrittenFits
    <2>5. Becomes(r, Written(m, s))
        BY <2>1, <2>2, <2>3, <2>4 DEF Becomes, Lends
    <2> QED
        BY <2>5
<1>4. CASE request' = [request EXCEPT ![r] = Onward(m, Tail(m.todo))]
    <2>1. PICK n : Before(m.q, m.todo, n)
        BY <1>1, <1>2 DEF OnItsWay
    <2>2. Head(m.todo) = "limit" /\ Passed(m.q, Head(m.todo))
        BY <1>1, <1>2 DEF OnItsWay, Passed
    <2>3. Before(m.q, Tail(m.todo), n + 1)
        BY <1>2, <2>1, <2>2, NextStage
    <2>4. /\ Fits(Onward(m, Tail(m.todo))) /\ Onward(m, Tail(m.todo)).ended = m.ended
          /\ Onward(m, Tail(m.todo)).at \in {"limit", "borrow", "written"}
        BY <1>2, <2>3, OnwardFits
    <2>5. Becomes(r, Onward(m, Tail(m.todo)))
        BY <1>1, <1>4, <2>4 DEF Becomes, Lends, LimitRate
    <2> QED
        BY <2>5
<1> QED
    BY <1>3, <1>4 DEF LimitRate

LEMMA BorrowStep ==
    ASSUME RequestsFit, NEW r \in Clients, Borrow(r)
    PROVE  \E v : Becomes(r, v)
<1> DEFINE m == request[r]
           v == [m EXCEPT !.at = "turn"]
<1>1. Fits(m) /\ m.at = "borrow"
    BY DEF RequestsFit, Borrow
<1>2. Clean(m) /\ OnItsWay(m)
    BY <1>1, UnderWay DEF Fits
<1>3. /\ v \in RequestRecord /\ v.at = "turn" /\ v.q = m.q /\ v.todo = m.todo /\ v.turn = m.turn
      /\ v.status = 0 /\ v.diagnosed = 0 /\ v.lines = <<>> /\ v.wrote = m.wrote /\ v.ended = m.ended
    BY <1>2 DEF Clean, RequestRecord
<1>4. Fits(v)
    <2> HIDE DEF v
    <2> QED
        BY <1>1, <1>2, <1>3 DEF Fits, Clean, Logged, OnItsWay
<1>5. Becomes(r, v)
    BY <1>1, <1>3, <1>4 DEF Becomes, Lends, Borrow
<1> QED
    BY <1>5

LEMMA RefusalSteps ==
    ASSUME RequestsFit, NEW r \in Clients,
           RefuseEarly(r) \/ BorrowFails(r) \/ TurnRefuses(r) \/ Panic(r)
    PROVE  \E v : Becomes(r, v)
<1> DEFINE m == request[r]
<1>1. Fits(m) /\ m.at \in {"borrow", "turn"}
    BY DEF RequestsFit, RefuseEarly, BorrowFails, TurnRefuses, Panic
<1>2. Clean(m) /\ OnItsWay(m)
    BY <1>1, UnderWay DEF Fits
<1>3. Head(m.todo) \in {"session", "member", "handler"}
    BY <1>1, <1>2 DEF OnItsWay
<1>4. m.q \in Requests
    BY <1>2 DEF Clean
<1>5. \E s \in Nat \ {0} : request' = [request EXCEPT ![r] = Written(m, s)]
    <2>1. CASE RefuseEarly(r)
        BY <1>4, <2>1, AnswersAreStatuses DEF RefuseEarly
    <2>2. CASE BorrowFails(r)
        <3>1. PICK cancelled : request' = [request EXCEPT ![r] = Failed(m, cancelled)]
            BY <2>2 DEF BorrowFails
        <3>2. PICK s \in Nat \ {0} : Failed(m, cancelled) = Written(m, s)
            BY <1>4, AnswersAreStatuses
        <3> QED
            BY <3>1, <3>2
    <2>3. CASE TurnRefuses(r)
        <3>1. PICK s \in Found(m) : request' = [request EXCEPT ![r] = Written(m, s)]
            BY <2>3 DEF TurnRefuses
        <3>2. s \in Nat \ {0}
            BY <1>3, <1>4, AnswersAreStatuses
        <3> QED
            BY <3>1, <3>2
    <2>4. CASE Panic(r)
        <3>1. request' = [request EXCEPT ![r] = Written(m, 500)]
            BY <2>4 DEF Panic, Recovered
        <3>2. 500 \in Nat \ {0}
            OBVIOUS
        <3> QED
            BY <3>1, <3>2
    <2> QED
        BY <2>1, <2>2, <2>3, <2>4
<1>6. UNCHANGED <<run, pool, worker, metrics>>
    BY DEF RefuseEarly, BorrowFails, TurnRefuses, Panic
<1>7. lent' = lent \ {r} \/ (request[r].at # "turn" /\ lent' = lent)
    BY DEF RefuseEarly, BorrowFails, TurnRefuses, Panic
<1> QED
    BY <1>1, <1>2, <1>5, <1>6, <1>7, Answer

LEMMA TurnFailsStep ==
    ASSUME RequestsFit, NEW r \in Clients, TurnFails(r)
    PROVE  \E v : Becomes(r, v)
<1> DEFINE m == request[r]
<1>1. Fits(m) /\ m.at = "turn"
    BY DEF RequestsFit, TurnFails
<1>2. Clean(m) /\ OnItsWay(m)
    BY <1>1, UnderWay DEF Fits
<1>3. PICK committed \in BOOLEAN, cancelled \in Causes(r) :
         /\ committed => Stage(r) = "handler" /\ ~Safe(m.q)
         /\ request' = [request EXCEPT ![r] = Failed([m EXCEPT !.wrote = m.wrote \/ committed], cancelled)]
    BY DEF TurnFails
<1> DEFINE w == [m EXCEPT !.wrote = m.wrote \/ committed]
<1>4. committed => Authorised(m.q)
    BY <1>1, <1>2, <1>3, AtHandler DEF Stage
<1>5. Clean(w) /\ w.ended = m.ended /\ w.q \in Requests
    BY <1>2, <1>3, <1>4 DEF Clean, RequestRecord
<1> HIDE DEF w
<1>6. \E s \in Nat \ {0} : request' = [request EXCEPT ![r] = Written(w, s)]
    <2>1. request' = [request EXCEPT ![r] = Failed(w, cancelled)]
        BY <1>3 DEF w
    <2>2. PICK s \in Nat \ {0} : Failed(w, cancelled) = Written(w, s)
        BY <1>5, AnswersAreStatuses
    <2> QED
        BY <2>1, <2>2
<1>7. UNCHANGED <<run, pool, worker, metrics>> /\ lent' = lent \ {r}
    BY DEF TurnFails
<1> QED
    BY <1>1, <1>5, <1>6, <1>7, Answer

\* A stage whose turns are over, or the first of them, lets the request pass.
LEMMA TurnDoneStep ==
    ASSUME RequestsFit, NEW r \in Clients, TurnDone(r)
    PROVE  \E v : Becomes(r, v)
<1> DEFINE m == request[r]
           wrote == m.wrote \/ (Stage(r) = "handler" /\ ~Safe(m.q))
           w == [m EXCEPT !.turn = m.turn + 1, !.wrote = wrote]
<1>1. Fits(m) /\ m.at = "turn"
    BY DEF RequestsFit, TurnDone
<1>2. Clean(m) /\ OnItsWay(m)
    BY <1>1, UnderWay DEF Fits
<1>3. PICK n : Before(m.q, m.todo, n)
    BY <1>1, <1>2 DEF OnItsWay
<1>4. Passes(m) /\ Stage(r) = Head(m.todo) /\ UNCHANGED <<run, pool, worker, metrics>> /\ lent' = lent \ {r}
    BY DEF TurnDone, Stage
<1>5. \/ request' = [request EXCEPT ![r] = [w EXCEPT !.at = "borrow"]]
      \/ /\ w.turn \in TurnsOf(w)
         /\ request' = [request EXCEPT ![r] = IF Stage(r) = "handler" THEN Written(w, RouteOf(w.q).ok)
                                              ELSE Onward(w, Tail(w.todo))]
    BY DEF TurnDone
<1>6. Stage(r) = "handler" /\ ~Safe(m.q) => Authorised(m.q)
    BY <1>1, <1>2, AtHandler DEF Stage
<1>7. /\ w \in RequestRecord /\ w.at = "turn" /\ w.q = m.q /\ w.todo = m.todo /\ w.turn = m.turn + 1
      /\ w.status = 0 /\ w.diagnosed = 0 /\ w.lines = <<>> /\ w.ended = m.ended
      /\ w.wrote => Authorised(m.q)
    <2>1. wrote \in BOOLEAN
        OBVIOUS
    <2>2. wrote => Authorised(m.q)
        BY <1>2, <1>6 DEF Clean
    <2>3. m \in RequestRecord /\ m.turn + 1 \in Nat
        BY <1>2 DEF Clean, RequestRecord
    <2> HIDE DEF wrote
    <2>4. w \in RequestRecord
        BY <2>1, <2>3 DEF RequestRecord
    <2>5. /\ w.at = "turn" /\ w.q = m.q /\ w.todo = m.todo /\ w.turn = m.turn + 1
          /\ w.status = 0 /\ w.diagnosed = 0 /\ w.lines = <<>> /\ w.ended = m.ended
          /\ w.wrote = wrote
        BY <1>1, <1>2, <2>1, <2>3 DEF Clean, RequestRecord
    <2> QED
        BY <2>2, <2>4, <2>5
<1> HIDE DEF w, wrote
<1>8. Clean(w)
    BY <1>2, <1>7 DEF Clean
<1>9. Head(m.todo) = "session" => m.q.cookie = "live"
    <2> SUFFICES ASSUME Head(m.todo) = "session" PROVE m.q.cookie = "live"
        OBVIOUS
    <2>1. m.turn \in Nat /\ m.q \in Requests
        BY <1>2 DEF Clean, RequestRecord
    <2>2. CASE m.turn > 0
        BY <1>1, <1>2, <2>2 DEF OnItsWay
    <2>3. CASE m.turn = 0
        <3>1. m.q.cookie # "dead"
            BY <1>4, <2>3 DEF Passes, Found
        <3>2. m.q.cookie \notin {"none", "malformed"}
            BY <1>1, <1>2 DEF OnItsWay, Verdict, Cookie
        <3>3. m.q.cookie \in {"none", "malformed", "dead", "live"}
            BY <2>1 DEF Requests
        <3> QED
            BY <3>1, <3>2, <3>3
    <2> QED
        BY <2>1, <2>2, <2>3
<1>10. CASE request' = [request EXCEPT ![r] = [w EXCEPT !.at = "borrow"]]
    <2> DEFINE v == [w EXCEPT !.at = "borrow"]
    <2>1. /\ v \in RequestRecord /\ v.at = "borrow" /\ v.q = m.q /\ v.todo = m.todo
          /\ v.status = 0 /\ v.diagnosed = 0 /\ v.lines = <<>> /\ v.ended = m.ended
          /\ v.wrote => Authorised(m.q)
        BY <1>7 DEF RequestRecord
    <2>2. Fits(v)
        <3> HIDE DEF v
        <3> QED
            BY <1>1, <1>2, <1>9, <2>1 DEF Fits, Clean, Logged, OnItsWay
    <2>3. Becomes(r, v)
        BY <1>1, <1>4, <1>10, <2>1, <2>2 DEF Becomes, Lends
    <2> QED
        BY <2>3
<1>11. CASE /\ Stage(r) = "handler"
            /\ request' = [request EXCEPT ![r] = Written(w, RouteOf(w.q).ok)]
    <2>1. RouteOf(w.q).ok \in Nat \ {0}
        BY <1>8, OkType DEF Clean
    <2> QED
        BY <1>1, <1>4, <1>7, <1>8, <1>11, <2>1, Answer
<1>12. CASE /\ Stage(r) # "handler" /\ w.turn \in TurnsOf(w)
            /\ request' = [request EXCEPT ![r] = Onward(w, Tail(w.todo))]
    <2>1. Head(m.todo) \in {"session", "member"} /\ Verdict(m.q, Head(m.todo)) = 0
        BY <1>1, <1>2, <1>4, <1>12 DEF OnItsWay
    <2>2. Head(m.todo) = "member" => m.q.account = "mine"
        <3> SUFFICES ASSUME Head(m.todo) = "member" PROVE m.q.account = "mine"
            OBVIOUS
        <3>1. m.turn = 0
            BY <1>2, <1>7, <1>12 DEF TurnsOf, Clean, RequestRecord
        <3>2. m.q.account # "other"
            BY <1>4, <3>1 DEF Passes, Found
        <3>3. m.q.account # "malformed"
            BY <2>1 DEF Verdict, AccountID
        <3>4. m.q.account \in {"mine", "other", "malformed"}
            BY <1>2 DEF Clean, Requests
        <3> QED
            BY <3>2, <3>3, <3>4
    <2>3. Before(w.q, Tail(w.todo), n + 1)
        BY <1>3, <1>7, <1>8, <1>9, <2>1, <2>2, NextStage DEF Passed
    <2>4. /\ Fits(Onward(w, Tail(w.todo))) /\ Onward(w, Tail(w.todo)).ended = m.ended
          /\ Onward(w, Tail(w.todo)).at \in {"limit", "borrow", "written"}
        BY <1>7, <1>8, <2>3, OnwardFits
    <2>5. Becomes(r, Onward(w, Tail(w.todo)))
        BY <1>1, <1>4, <1>12, <2>4 DEF Becomes, Lends
    <2> QED
        BY <2>5
<1> QED
    BY <1>5, <1>10, <1>11, <1>12

LEMMA LogStep ==
    ASSUME RequestsFit, NEW r \in Clients, LogRequest(r)
    PROVE  \E v : Becomes(r, v)
<1> DEFINE m == request[r]
           line == Append(m.lines, m.status)
           v == [m EXCEPT !.at = "done", !.q = "none", !.wrote = FALSE, !.lines = line]
<1>1. Fits(m) /\ m.at = "written"
    BY DEF RequestsFit, LogRequest
<1>2. m \in RequestRecord /\ m.lines = <<>> /\ m.status # 0
      /\ m.diagnosed = IF m.status >= 500 THEN 1 ELSE 0
    BY <1>1 DEF Fits, Logged
<1>3. m.status \in Nat /\ Append(m.lines, m.status) = <<m.status>>
    BY <1>2 DEF RequestRecord
<1>4. /\ v \in RequestRecord /\ v.at = "done" /\ v.q = "none" /\ v.wrote = FALSE
      /\ v.status = m.status /\ v.lines = <<m.status>> /\ v.diagnosed = m.diagnosed
      /\ v.ended = m.ended
    <2>1. line = <<m.status>> /\ line \in Seq(Nat)
        BY <1>2, <1>3
    <2> HIDE DEF line
    <2>2. v \in RequestRecord
        <3>1. m \in RequestRecord /\ line \in Seq(Nat) /\ "none" \in Requests \cup {"none"}
            BY <1>2, <2>1
        <3> QED
            BY <3>1 DEF RequestRecord
    <2>3. /\ v.at = "done" /\ v.q = "none" /\ v.wrote = FALSE /\ v.lines = line
          /\ v.status = m.status /\ v.diagnosed = m.diagnosed /\ v.ended = m.ended
        BY <1>2 DEF RequestRecord
    <2> QED
        BY <2>1, <2>2, <2>3
<1>5. request' = [request EXCEPT ![r] = v]
    BY DEF LogRequest
<1> HIDE DEF v, line
<1>6. Fits(v)
    BY <1>2, <1>4 DEF Fits, Logged, OnItsWay
<1>7. Becomes(r, v)
    BY <1>1, <1>4, <1>5, <1>6 DEF Becomes, Lends, LogRequest
<1> QED
    BY <1>7

LEMMA LeaveStep ==
    ASSUME RequestsFit, NEW r \in Clients, Leave(r)
    PROVE  \E v : Becomes(r, v)
<1> DEFINE m == request[r]
           v == [m EXCEPT !.ended = "gone"]
<1>1. Fits(m) /\ m.at \notin {"away", "done"}
    BY DEF RequestsFit, Leave, InFlight
<1>2. /\ v \in RequestRecord /\ v.at = m.at /\ v.q = m.q /\ v.todo = m.todo /\ v.turn = m.turn
      /\ v.status = m.status /\ v.diagnosed = m.diagnosed /\ v.lines = m.lines
      /\ v.wrote = m.wrote /\ v.ended = "gone"
    BY <1>1 DEF Fits, RequestRecord
<1>3. request' = [request EXCEPT ![r] = v] /\ UNCHANGED <<run, pool, lent, worker, metrics>>
    BY DEF Leave
<1> HIDE DEF v
<1>4. Fits(v)
    BY <1>1, <1>2 DEF Fits, Logged, OnItsWay
<1>5. Becomes(r, v)
    BY <1>1, <1>2, <1>3, <1>4 DEF Becomes, Lends
<1> QED
    BY <1>5

LEMMA RequestStep ==
    ASSUME RequestsFit, NEW r \in Clients, Request(r)
    PROVE  \E v : Becomes(r, v)
BY ArriveStep, LimitStep, BorrowStep, RefusalSteps, TurnFailsStep, TurnDoneStep, LogStep, LeaveStep
DEF Request

-----------------------------------------------------------------------------
(* The process.                                                            *)

\* Before it serves, while it works for the queue, and after it has stopped.
Unserved == {"load", "connect", "wire", "listen", "work"}
Stopped == {"stop worker", "await worker", "close pool", "await pool", "exited"}

\* What the phase says of a request: nobody asks before there is a server; only
\* the end of the server cuts requests off; when it stopped properly none is in
\* flight, and when it ran out of time each in flight has been cancelled.
Served(m) ==
    /\ phase \in Unserved => m.at = "away"
    /\ phase \notin Stopped => m.ended # "cut"
    /\ phase \in Stopped /\ broken = FALSE /\ m.at \notin {"away", "done"} => m.ended # "no"
    /\ phase \in Stopped /\ code = 0 => m.at \in {"away", "done"} /\ m.ended # "cut"

AllServed == broken \in BOOLEAN /\ \A r \in Clients : Served(request[r])

\* What the phase says of the pool and of the worker.
PoolInPhase ==
    /\ pool = "closing" => phase = "await pool"
    /\ pool = "closed" => phase = "exited"

WorkerInPhase ==
    /\ worker \in [at : {"off", "claim", "claiming", "run", "finish", "finishing"},
                   stop : BOOLEAN, jobs : {"live", "cancelled", "abandoned"}, owes : BOOLEAN]
    /\ phase \in {"load", "connect", "wire"} => worker.at = "off"
    /\ phase \in {"close pool", "await pool", "exited"} =>
          /\ worker.at = "off" \/ worker.jobs = "abandoned"
          /\ binary = "worker" /\ code = 0 => worker.at = "off" /\ worker.jobs = "live"
    /\ phase \notin {"close pool", "await pool", "exited"} => worker.jobs # "abandoned"
    /\ worker.owes => worker.at \in {"run", "finish", "finishing"}

DoneOnes == {r \in Clients : request[r].at = "done"}
FailedOnes == {r \in Clients : request[r].at = "done" /\ request[r].status >= 500}

Counted ==
    /\ metrics.total = Cardinality(DoneOnes)
    /\ metrics.errors = Cardinality(FailedOnes)

ProcessInv == RequestsFit /\ AllServed /\ PoolInPhase /\ WorkerInPhase /\ Counted

LEMMA InitInv == ASSUME Init PROVE ProcessInv
<1>1. NoRequest \in RequestRecord
    <2>1. <<>> \in Seq(StageNames) /\ <<>> \in Seq(Nat)
        OBVIOUS
    <2> QED
        BY <2>1 DEF NoRequest, RequestRecord
<1>2. /\ NoRequest.at = "away" /\ NoRequest.status = 0 /\ NoRequest.lines = <<>>
      /\ NoRequest.diagnosed = 0 /\ NoRequest.wrote = FALSE /\ NoRequest.ended = "no"
    BY DEF NoRequest
<1>3. RequestsFit
    <2>1. Fits(NoRequest)
        BY <1>1, <1>2 DEF Fits, Logged, OnItsWay
    <2> QED
        BY <1>1, <2>1 DEF Init, RequestsFit
<1>4. AllServed /\ PoolInPhase /\ WorkerInPhase
    BY <1>2 DEF Init, AllServed, Served, Unserved, Stopped, PoolInPhase, WorkerInPhase
<1>5. Counted
    <2>1. DoneOnes = {} /\ FailedOnes = {}
        BY <1>2 DEF Init, DoneOnes, FailedOnes
    <2> QED
        BY <2>1, FS_EmptySet DEF Init, Counted
<1> QED
    BY <1>3, <1>4, <1>5 DEF ProcessInv

\* A step of a request keeps the invariant.
LEMMA RequestInv ==
    ASSUME ProcessInv, NEW r \in Clients, Request(r)
    PROVE  ProcessInv'
<1>1. PICK v : Becomes(r, v)
    BY RequestStep DEF ProcessInv
<1>2. v \in RequestRecord /\ request \in [Clients -> RequestRecord]
    BY <1>1 DEF Becomes, Fits, ProcessInv, RequestsFit
<1>3. request'[r] = v /\ \A s \in Clients \ {r} : request'[s] = request[s]
    BY <1>1, <1>2 DEF Becomes
<1>4. RequestsFit'
    <2>1. request' \in [Clients -> RequestRecord]
        BY <1>1, <1>2 DEF Becomes
    <2>2. \A s \in Clients : Fits(request'[s])
        BY <1>1, <1>3 DEF Becomes, ProcessInv, RequestsFit
    <2> QED
        BY <2>1, <2>2 DEF RequestsFit, Fits, OnItsWay, Logged
<1>5. phase' = phase /\ code' = code /\ broken' = broken /\ binary' = binary /\ pool' = pool /\ worker' = worker
    BY <1>1 DEF Becomes, run
<1>6. AllServed'
    <2>1. Served(request[r]) /\ \A s \in Clients : Served(request[s])
        BY DEF ProcessInv, AllServed
    <2>2. Served(v) /\ broken \in BOOLEAN
        BY <1>1, <2>1 DEF ProcessInv, AllServed, Becomes, Served, Unserved, Stopped
    <2>3. \A s \in Clients : Served(request'[s])
        BY <1>3, <2>1, <2>2
    <2> QED
        BY <1>5, <2>2, <2>3 DEF AllServed, Served
<1>7. PoolInPhase' /\ WorkerInPhase'
    BY <1>5 DEF ProcessInv, PoolInPhase, WorkerInPhase
<1>8. Counted'
    <2>1. /\ IsFiniteSet(DoneOnes) /\ IsFiniteSet(FailedOnes)
          /\ r \notin DoneOnes /\ r \notin FailedOnes
        BY <1>1, ClientsAssumption, FS_Subset DEF DoneOnes, FailedOnes, Becomes
    <2>2. DoneOnes' = IF v.at = "done" THEN DoneOnes \cup {r} ELSE DoneOnes
        BY <1>1, <1>3 DEF DoneOnes, Becomes
    <2>3. FailedOnes' = IF v.at = "done" /\ v.status >= 500 THEN FailedOnes \cup {r} ELSE FailedOnes
        BY <1>1, <1>3 DEF FailedOnes, Becomes
    <2>4. /\ Cardinality(DoneOnes \cup {r}) = Cardinality(DoneOnes) + 1
          /\ Cardinality(FailedOnes \cup {r}) = Cardinality(FailedOnes) + 1
          /\ Cardinality(DoneOnes) \in Nat /\ Cardinality(FailedOnes) \in Nat
        BY <2>1, FS_AddElement, FS_CardinalityType
    <2>5. metrics.total = Cardinality(DoneOnes) /\ metrics.errors = Cardinality(FailedOnes)
        BY DEF ProcessInv, Counted
    <2>6. CASE v.at = "done"
        <3>1. metrics' = [total |-> metrics.total + 1,
                          errors |-> metrics.errors + (IF v.status >= 500 THEN 1 ELSE 0)]
            BY <1>1, <2>6 DEF Becomes
        <3>2. metrics'.total = Cardinality(DoneOnes')
            BY <2>2, <2>4, <2>5, <2>6, <3>1
        <3>3. metrics'.errors = Cardinality(FailedOnes')
            BY <2>3, <2>4, <2>5, <2>6, <3>1
        <3> QED
            BY <3>2, <3>3 DEF Counted
    <2>7. CASE v.at # "done"
        BY <1>1, <2>2, <2>3, <2>5, <2>7 DEF Becomes, Counted
    <2> QED
        BY <2>6, <2>7
<1> QED
    BY <1>4, <1>6, <1>7, <1>8 DEF ProcessInv

\* What is said of requests and counters alone, when neither changes.
LEMMA RequestsUntouched ==
    ASSUME ProcessInv, UNCHANGED <<request, metrics>>
    PROVE  RequestsFit' /\ Counted'
BY DEF ProcessInv, RequestsFit, Fits, OnItsWay, Logged, Counted, DoneOnes, FailedOnes

\* A step of the job goroutine keeps the invariant.
LEMMA JobInv ==
    ASSUME ProcessInv, Job
    PROVE  ProcessInv'
<1>1. UNCHANGED <<run, pool, request, metrics>>
    BY DEF Job, JobBorrows, JobBorrowFails, JobTurnEnds, JobReturns
<1>2. \E at \in {"off", "claim", "claiming", "run", "finish", "finishing"}, owes \in BOOLEAN :
         /\ worker' = [worker EXCEPT !.at = at, !.owes = owes]
         /\ owes => at \in {"run", "finish", "finishing"}
    <2>1. /\ worker \in [at : {"off", "claim", "claiming", "run", "finish", "finishing"},
                         stop : BOOLEAN, jobs : {"live", "cancelled", "abandoned"}, owes : BOOLEAN]
          /\ worker.owes => worker.at \in {"run", "finish", "finishing"}
        BY DEF ProcessInv, WorkerInPhase
    <2>2. CASE JobBorrows \/ JobReturns
        <3>1. PICK at \in {"claiming", "finish", "finishing"} :
                 /\ worker' = [worker EXCEPT !.at = at]
                 /\ worker.owes => at # "claiming"
            BY <2>1, <2>2 DEF JobBorrows, JobReturns
        <3>2. worker' = [worker EXCEPT !.at = at, !.owes = worker.owes]
            BY <2>1, <3>1
        <3> QED
            BY <2>1, <3>1, <3>2
    <2>3. CASE JobBorrowFails \/ JobTurnEnds
        BY <2>3 DEF JobBorrowFails, JobTurnEnds
    <2> QED
        BY <2>2, <2>3 DEF Job
<1>3. worker.at # "off"
    BY DEF Job, JobBorrows, JobBorrowFails, JobTurnEnds, JobReturns
<1>4. RequestsFit' /\ Counted'
    BY <1>1, RequestsUntouched
<1>5. AllServed' /\ PoolInPhase'
    BY <1>1 DEF run, ProcessInv, AllServed, Served, PoolInPhase
<1>6. WorkerInPhase'
    BY <1>1, <1>2, <1>3 DEF run, ProcessInv, WorkerInPhase
<1> QED
    BY <1>4, <1>5, <1>6 DEF ProcessInv

\* The timeout of the shutdown keeps the invariant: it marks every request in
\* flight that nobody has cancelled yet.
LEMMA CutOffInv ==
    ASSUME ProcessInv, CutOff
    PROVE  ProcessInv'
<1> DEFINE cut(m) == IF m.at \notin {"away", "done"} /\ m.ended = "no" THEN [m EXCEPT !.ended = "cut"] ELSE m
<1>1. \A r \in Clients : request[r] \in RequestRecord /\ Fits(request[r]) /\ Served(request[r])
    BY DEF ProcessInv, RequestsFit, AllServed
<1>2. request' = [r \in Clients |-> cut(request[r])]
    BY DEF CutOff, InFlight
<1>3. ASSUME NEW m, m \in RequestRecord, Fits(m)
      PROVE  /\ cut(m) \in RequestRecord /\ Fits(cut(m))
             /\ cut(m).at = m.at /\ cut(m).status = m.status
             /\ m.at \notin {"away", "done"} => cut(m).ended # "no"
    <2>1. CASE m.at \notin {"away", "done"} /\ m.ended = "no"
        <3> DEFINE v == [m EXCEPT !.ended = "cut"]
        <3>1. /\ v \in RequestRecord /\ v.at = m.at /\ v.q = m.q /\ v.todo = m.todo /\ v.turn = m.turn
              /\ v.status = m.status /\ v.diagnosed = m.diagnosed /\ v.lines = m.lines
              /\ v.wrote = m.wrote /\ v.ended = "cut"
            BY <1>3 DEF RequestRecord
        <3>2. cut(m) = v
            BY <2>1
        <3> HIDE DEF v, cut
        <3>3. Fits(v)
            BY <1>3, <3>1 DEF Fits, Logged, OnItsWay
        <3> QED
            BY <3>1, <3>2, <3>3
    <2>2. CASE ~(m.at \notin {"away", "done"} /\ m.ended = "no")
        BY <1>3, <2>2
    <2> QED
        BY <2>1, <2>2
<1> HIDE DEF cut
<1>4. RequestsFit'
    <2>1. request' \in [Clients -> RequestRecord] /\ \A r \in Clients : Fits(request'[r])
        BY <1>1, <1>2, <1>3
    <2> QED
        BY <2>1 DEF RequestsFit, Fits, OnItsWay, Logged
<1>5. phase = "drain" /\ phase' = "stop worker"
    BY DEF CutOff
<1>6. code' = 1
    BY DEF CutOff, Fails
<1>7. broken' = broken /\ UNCHANGED <<binary, pool, worker, metrics>>
    BY DEF CutOff, Fails
<1>8. AllServed'
    <2>1. broken' \in BOOLEAN
        BY <1>7 DEF ProcessInv, AllServed
    <2>2. ASSUME NEW r \in Clients PROVE Served(request[r])'
        <3>1. request'[r].at = request[r].at /\ Served(request[r])
            BY <1>1, <1>2, <1>3
        <3>2. request'[r].at \notin {"away", "done"} => request'[r].ended # "no"
            BY <1>1, <1>2, <1>3
        <3>3. phase' \notin Unserved /\ phase' \in Stopped
            BY <1>5 DEF Unserved, Stopped
        <3>4. code' # 0
            BY <1>6
        <3> QED
            BY <3>2, <3>3, <3>4, Zenon DEF Served
    <2> QED
        BY <2>1, <2>2 DEF AllServed
<1>9. PoolInPhase' /\ WorkerInPhase'
    BY <1>5, <1>7 DEF ProcessInv, PoolInPhase, WorkerInPhase
<1>10. Counted'
    <2>1. DoneOnes' = DoneOnes /\ FailedOnes' = FailedOnes
        BY <1>1, <1>2, <1>3 DEF DoneOnes, FailedOnes
    <2> QED
        BY <1>7, <2>1 DEF ProcessInv, Counted
<1> QED
    BY <1>4, <1>8, <1>9, <1>10 DEF ProcessInv

\* Every other step of the process leaves requests and counters alone.
LEMMA MainInv ==
    ASSUME ProcessInv, (Main /\ ~CutOff) \/ Signal \/ ServeFails
    PROVE  ProcessInv'
<1> USE DEF Fails, Goes, ProcessInv
<1>1. UNCHANGED <<request, metrics>>
    BY DEF Main, Signal, ServeFails, LoadConfig, Connect, Wire, Listen, Drain, Drained, StopWorker,
           CancelJobs, WorkerStopped, ClosePool, Exit
<1>2. RequestsFit' /\ Counted'
    BY <1>1, RequestsUntouched
<1>3. AllServed'
    <2>1. broken \in BOOLEAN /\ broken' \in BOOLEAN
        BY DEF AllServed, Main, Signal, ServeFails, LoadConfig, Connect, Wire, Listen, Drain, Drained,
               StopWorker, CancelJobs, WorkerStopped, ClosePool, Exit
    <2> SUFFICES ASSUME NEW r \in Clients PROVE Served(request[r])'
        BY <2>1 DEF AllServed
    <2>2. Served(request[r]) /\ request' = request
        BY <1>1 DEF AllServed
    <2>3. \A c : c = 1 => c # 0
        OBVIOUS
    <2>4. CASE LoadConfig \/ Connect \/ Wire \/ Listen
        BY <2>2, <2>4 DEF LoadConfig, Connect, Wire, Listen, Served, Unserved, Stopped
    <2>5. CASE Signal \/ Drain
        BY <2>1, <2>5, <2>2 DEF Signal, Drain, Served, Unserved, Stopped
    <2>6. CASE ServeFails
        <3>1. phase' \notin Unserved /\ phase' \in Stopped /\ broken' # FALSE
            BY <2>6 DEF ServeFails, Unserved, Stopped
        <3>2. code' # 0
            BY <2>3, <2>6, Zenon DEF ServeFails
        <3> QED
            BY <3>1, <3>2, Zenon DEF Served
    <2>7. CASE Drained
        BY <2>7, <2>2 DEF Drained, InFlight, Served, Unserved, Stopped
    <2>8. CASE StopWorker \/ CancelJobs \/ ClosePool \/ Exit
        BY <2>8, <2>2 DEF StopWorker, CancelJobs, ClosePool, Exit, Served, Unserved, Stopped
    <2>9. CASE WorkerStopped
        <3>1. /\ phase \notin Unserved /\ phase' \notin Unserved
              /\ phase \in Stopped /\ phase' \in Stopped
            BY <2>9 DEF WorkerStopped, Unserved, Stopped
        <3>2. code' = 0 => code = 0
            BY <2>9, <2>3, Zenon DEF WorkerStopped
        <3>3. broken' = broken
            BY <2>9 DEF WorkerStopped
        <3> QED
            BY <2>2, <3>1, <3>2, <3>3, Zenon DEF Served
    <2> QED
        BY <2>4, <2>5, <2>6, <2>7, <2>8, <2>9 DEF Main
<1>4. PoolInPhase'
    BY DEF PoolInPhase, Main, Signal, ServeFails, LoadConfig, Connect, Wire, Listen, Drain, Drained,
           StopWorker, CancelJobs, WorkerStopped, ClosePool, Exit
<1>5. WorkerInPhase'
    <2> DEFINE record == [at : {"off", "claim", "claiming", "run", "finish", "finishing"},
                          stop : BOOLEAN, jobs : {"live", "cancelled", "abandoned"}, owes : BOOLEAN]
    <2>0. \A c : c = 1 => c # 0
        OBVIOUS
    <2>1. CASE LoadConfig \/ Connect \/ Listen
        <3>1. phase \in {"load", "connect", "listen"} /\ worker' = worker
            BY <2>1 DEF LoadConfig, Connect, Listen
        <3>2. phase' \in {"close pool", "await pool", "exited"} => phase' = "exited" /\ worker.at = "off"
            BY <2>1, <3>1 DEF LoadConfig, Connect, Listen, WorkerInPhase
        <3>3. phase' = "exited" => code' = 1
            BY <2>1 DEF LoadConfig, Connect, Listen
        <3>4. phase' = "exited" => ~(code' = 0)
            BY <2>0, <3>3, Zenon
        <3>5. phase' \in {"load", "connect", "wire"} => phase \in {"load", "connect"}
            BY <2>1 DEF LoadConfig, Connect, Listen
        <3> QED
            BY <3>1, <3>2, <3>4, <3>5 DEF WorkerInPhase
    <2>2. CASE Wire
        BY <2>2 DEF Wire, WorkerInPhase
    <2>3. CASE Signal \/ ServeFails \/ Drain \/ Drained
        BY <2>3 DEF Signal, ServeFails, Drain, Drained, WorkerInPhase
    <2>4. CASE StopWorker \/ CancelJobs
        BY <2>4 DEF StopWorker, CancelJobs, WorkerInPhase
    <2>5. CASE WorkerStopped
        <3>1. phase = "await worker" /\ phase' = "close pool" /\ binary' = binary
            BY <2>5 DEF WorkerStopped
        <3>2. CASE worker.at = "off" /\ worker' = worker
            <4>1. binary' = "worker" /\ code' = 0 => worker.jobs # "cancelled"
                BY <2>0, <2>5, <3>1, Zenon DEF WorkerStopped
            <4>2. worker \in record /\ worker.jobs # "abandoned"
                BY <3>1 DEF WorkerInPhase
            <4> QED
                BY <3>1, <3>2, <4>1, <4>2 DEF WorkerInPhase
        <3>3. CASE worker.jobs = "cancelled" /\ worker' = [worker EXCEPT !.jobs = "abandoned"]
            <4>1. binary' = "worker" => ~(code' = 0)
                BY <2>0, <2>5, <3>1, <3>3, Zenon DEF WorkerStopped
            <4>2. worker \in record /\ (worker.owes => worker.at \in {"run", "finish", "finishing"})
                BY DEF WorkerInPhase
            <4>3. /\ worker' \in record /\ worker'.jobs = "abandoned"
                  /\ worker'.at = worker.at /\ worker'.owes = worker.owes
                BY <3>3, <4>2
            <4> QED
                BY <3>1, <4>1, <4>2, <4>3 DEF WorkerInPhase
        <3> QED
            BY <2>5, <3>2, <3>3 DEF WorkerStopped
    <2>6. CASE ClosePool \/ Exit
        BY <2>6 DEF ClosePool, Exit, WorkerInPhase
    <2> QED
        BY <2>1, <2>2, <2>3, <2>4, <2>5, <2>6 DEF Main
<1> QED
    BY <1>2, <1>3, <1>4, <1>5

LEMMA StepInv ==
    ASSUME ProcessInv, [Next]_vars
    PROVE  ProcessInv'
<1>1. CASE Main \/ Signal \/ ServeFails
    <2>1. CASE CutOff
        BY <2>1, CutOffInv
    <2>2. CASE ~CutOff
        BY <1>1, <2>2, MainInv
    <2> QED
        BY <2>1, <2>2
<1>2. CASE Job
    BY <1>2, JobInv
<1>3. ASSUME NEW r \in Clients, Request(r) PROVE ProcessInv'
    BY <1>3, RequestInv
<1>4. CASE UNCHANGED vars
    <2>1. UNCHANGED <<request, metrics>>
        BY <1>4 DEF vars
    <2>2. RequestsFit' /\ Counted'
        BY <2>1, RequestsUntouched
    <2> QED
        BY <1>4, <2>2 DEF vars, ProcessInv, AllServed, Served, PoolInPhase, WorkerInPhase
<1> QED
    BY <1>1, <1>2, <1>3, <1>4 DEF Next

LEMMA AlwaysInv == Spec => []ProcessInv
<1>1. Init => ProcessInv
    BY InitInv
<1>2. ProcessInv /\ [Next]_vars => ProcessInv'
    BY StepInv
<1> QED
    BY <1>1, <1>2, PTL DEF Spec

-----------------------------------------------------------------------------
(* Types, the configuration and the loans of the pool.                     *)

Phases ==
    {"load", "connect", "wire", "listen", "serve", "work", "drain", "stop worker",
     "await worker", "close pool", "await pool", "exited"}

Typing ==
    /\ binary \in {"api", "worker"} /\ code \in {0, 1} /\ signalled \in BOOLEAN
    /\ phase \in Phases /\ pool \in {"none", "open", "closing", "closed"}
    /\ config \in Configs

ConfigInv == config # NoConfig => Usable(config)

\* Who is at a turn, and the job goroutine when it is at one.
AtTurn == {r \in Clients : request[r].at = "turn"}
JobAtTurn == IF worker.at \in {"claiming", "finishing"} THEN {"job"} ELSE {}

Lending ==
    /\ lent = AtTurn \cup JobAtTurn
    /\ Cardinality(lent) <= config.max
    /\ lent # {} => pool \in {"open", "closing"}

LEMMA InitTypes == ASSUME Init PROVE Typing /\ ConfigInv /\ Lending
<1>1. Typing
    <2>1. NoConfig \in Configs
        BY DEF NoConfig, Configs
    <2>2. /\ binary \in {"api", "worker"} /\ code = 0 /\ signalled \in BOOLEAN
          /\ phase \in Phases /\ pool \in {"none", "open", "closing", "closed"} /\ config = NoConfig
        BY DEF Init, Phases
    <2>3. code \in {0, 1}
        BY <2>2
    <2> QED
        BY <2>1, <2>2, <2>3, Zenon DEF Typing
<1>2. ConfigInv
    BY DEF Init, ConfigInv
<1>3. Lending
    <2>1. AtTurn = {} /\ JobAtTurn = {} /\ lent = {}
        BY DEF Init, NoRequest, AtTurn, JobAtTurn
    <2>2. Cardinality(lent) = 0 /\ config.max = 0
        BY <2>1, FS_EmptySet DEF Init, NoConfig
    <2> QED
        BY <2>1, <2>2 DEF Lending
<1> QED
    BY <1>1, <1>2, <1>3

\* What is lent is a finite set.
LEMMA LoansAreFinite ==
    ASSUME Lending
    PROVE  IsFiniteSet(lent) /\ Cardinality(lent) \in Nat
<1>1. IsFiniteSet(AtTurn)
    BY ClientsAssumption, FS_Subset DEF AtTurn
<1>2. IsFiniteSet(JobAtTurn)
    <2>1. IsFiniteSet({"job"}) /\ IsFiniteSet({})
        BY FS_Singleton, FS_EmptySet
    <2> QED
        BY <2>1 DEF JobAtTurn
<1>3. IsFiniteSet(lent)
    BY <1>1, <1>2, FS_Union DEF Lending
<1> QED
    BY <1>3, FS_CardinalityType

\* Whoever comes, one connection more is lent; whoever goes, none.
LEMMA LoanCounts ==
    ASSUME Lending, NEW x
    PROVE  /\ Cardinality(lent \cup {x}) <= Cardinality(lent) + 1
           /\ Cardinality(lent \ {x}) <= Cardinality(lent)
           /\ Cardinality(lent) \in Nat /\ Cardinality(lent \cup {x}) \in Nat
           /\ Cardinality(lent \ {x}) \in Nat
<1>1. IsFiniteSet(lent) /\ Cardinality(lent) \in Nat
    BY LoansAreFinite
<1>2. /\ IsFiniteSet(lent \cup {x}) /\ Cardinality(lent \cup {x}) <= Cardinality(lent) + 1
      /\ Cardinality(lent \cup {x}) \in Nat
    <2>1. CASE x \in lent
        <3>1. lent \cup {x} = lent
            BY <2>1
        <3> QED
            BY <1>1, <3>1
    <2>2. CASE x \notin lent
        BY <1>1, <2>2, FS_AddElement
    <2> QED
        BY <2>1, <2>2
<1>3. Cardinality(lent \ {x}) <= Cardinality(lent) /\ Cardinality(lent \ {x}) \in Nat
    BY <1>1, FS_Subset, FS_CardinalityType
<1> QED
    BY <1>1, <1>2, <1>3

LEMMA RequestLoans ==
    ASSUME ProcessInv, Typing, Lending, NEW r \in Clients, Request(r)
    PROVE  Lending'
<1>1. PICK v : Becomes(r, v)
    BY RequestStep DEF ProcessInv
<1>2. request'[r] = v /\ \A s \in Clients \ {r} : request'[s] = request[s]
    BY <1>1 DEF Becomes, ProcessInv, RequestsFit
<1>3. UNCHANGED <<config, pool, worker>>
    BY <1>1 DEF Becomes, run
<1>4. r # "job"
    BY ClientsAssumption
<1>5. JobAtTurn' = JobAtTurn /\ JobAtTurn \subseteq {"job"}
    BY <1>3 DEF JobAtTurn
<1>6. AtTurn' = IF v.at = "turn" THEN AtTurn \cup {r} ELSE AtTurn \ {r}
    BY <1>2 DEF AtTurn
<1>7. Lends(r, v) /\ (r \in AtTurn <=> request[r].at = "turn")
    BY <1>1 DEF Becomes, AtTurn
<1>8. lent' = AtTurn' \cup JobAtTurn'
    BY <1>4, <1>5, <1>6, <1>7 DEF Lends, Lending
<1>9. Cardinality(lent') <= config.max
    <2>1. config.max \in Int /\ Cardinality(lent) <= config.max
        BY DEF Typing, Configs, Lending
    <2> DEFINE n == Cardinality(lent)
               more == Cardinality(lent \cup {r})
               less == Cardinality(lent \ {r})
    <2>2. more <= n + 1 /\ less <= n /\ n \in Nat /\ more \in Nat /\ less \in Nat
        BY LoanCounts
    <2>3. lent' = lent \cup {r} => Cardinality(lent') = more
        OBVIOUS
    <2>4. CASE lent' \in {lent, lent \ {r}}
        <3>1. Cardinality(lent') \in {less, n}
            BY <2>4
        <3> QED
            BY <2>1, <2>2, <3>1
    <2>5. CASE lent' = lent \cup {r} /\ Cardinality(lent) < config.max
        <3> HIDE DEF more, less
        <3> QED
            BY <2>1, <2>2, <2>3, <2>5
    <2> QED
        BY <1>7, <2>4, <2>5 DEF Lends
<1>10. lent' # {} => pool \in {"open", "closing"}
    <2>1. CASE lent' \subseteq lent
        BY <2>1 DEF Lending
    <2>2. CASE pool = "open"
        BY <2>2
    <2> QED
        BY <1>7, <2>1, <2>2 DEF Lends
<1> QED
    BY <1>3, <1>8, <1>9, <1>10 DEF Lending

LEMMA JobLoans ==
    ASSUME ProcessInv, Typing, Lending, Job
    PROVE  Lending'
<1>1. UNCHANGED <<run, pool, request>> /\ config' = config
    BY DEF Job, JobBorrows, JobBorrowFails, JobTurnEnds, JobReturns, run
<1>2. AtTurn' = AtTurn /\ "job" \notin AtTurn
    BY <1>1, ClientsAssumption DEF AtTurn
<1>3. config.max \in Int /\ Cardinality(lent) <= config.max
    BY DEF Typing, Configs, Lending
<1>4. worker \in [at : {"off", "claim", "claiming", "run", "finish", "finishing"},
                  stop : BOOLEAN, jobs : {"live", "cancelled", "abandoned"}, owes : BOOLEAN]
    BY DEF ProcessInv, WorkerInPhase
<1>5. CASE JobBorrows
    <2>1. /\ pool = "open" /\ Cardinality(lent) < config.max /\ lent' = lent \cup {"job"}
          /\ worker'.at \in {"claiming", "finishing"}
        BY <1>4, <1>5 DEF JobBorrows
    <2>2. JobAtTurn' = {"job"} /\ JobAtTurn \subseteq {"job"}
        BY <2>1 DEF JobAtTurn
    <2>3. Cardinality(lent') <= config.max
        <3>1. PICK x : x = "job"
            OBVIOUS
        <3>2. /\ Cardinality(lent \cup {x}) <= Cardinality(lent) + 1
              /\ Cardinality(lent) \in Nat /\ Cardinality(lent \cup {x}) \in Nat
            BY LoanCounts
        <3>3. lent' = lent \cup {x}
            BY <2>1, <3>1
        <3>4. Cardinality(lent) < config.max
            BY <2>1
        <3> QED
            BY <1>3, <3>2, <3>3, <3>4
    <2>4. lent' = AtTurn' \cup JobAtTurn'
        BY <1>2, <2>1, <2>2 DEF Lending
    <2> QED
        BY <1>1, <2>1, <2>3, <2>4 DEF Lending
<1>6. CASE JobTurnEnds
    <2>1. /\ lent' = lent \ {"job"}
          /\ worker'.at \notin {"claiming", "finishing"}
        BY <1>4, <1>6 DEF JobTurnEnds
    <2>2. JobAtTurn' = {} /\ JobAtTurn \subseteq {"job"}
        BY <2>1 DEF JobAtTurn
    <2>3. Cardinality(lent') <= config.max
        <3>1. PICK x : x = "job"
            OBVIOUS
        <3>2. /\ Cardinality(lent \ {x}) <= Cardinality(lent)
              /\ Cardinality(lent) \in Nat /\ Cardinality(lent \ {x}) \in Nat
            BY LoanCounts
        <3>3. lent' = lent \ {x}
            BY <2>1, <3>1
        <3> QED
            BY <1>3, <3>2, <3>3
    <2>4. lent' = AtTurn' \cup JobAtTurn'
        BY <1>2, <2>1, <2>2 DEF Lending
    <2>5. lent' # {} => pool' \in {"open", "closing"}
        BY <1>1, <2>1 DEF Lending
    <2> QED
        BY <1>1, <2>3, <2>4, <2>5 DEF Lending
<1>7. CASE JobBorrowFails \/ JobReturns
    <2>1. lent' = lent /\ worker.at \notin {"claiming", "finishing"}
          /\ worker'.at \notin {"claiming", "finishing"}
        BY <1>4, <1>7 DEF JobBorrowFails, JobReturns
    <2>2. JobAtTurn' = JobAtTurn
        BY <2>1 DEF JobAtTurn
    <2> QED
        BY <1>1, <1>2, <2>1, <2>2 DEF Lending
<1> QED
    BY <1>5, <1>6, <1>7 DEF Job

LEMMA MainLoans ==
    ASSUME ProcessInv, Typing, Lending, ConfigInv', Main \/ Signal \/ ServeFails
    PROVE  Lending'
<1> USE DEF Fails, Goes
<1>1. lent' = lent
    BY DEF Main, Signal, ServeFails, LoadConfig, Connect, Wire, Listen, Drain, Drained, CutOff, StopWorker,
           CancelJobs, WorkerStopped, ClosePool, Exit
<1>2. AtTurn' = AtTurn
    <2>1. CASE CutOff
        <3>1. \A r \in Clients : request'[r].at = request[r].at
            BY <2>1 DEF CutOff, ProcessInv, RequestsFit, RequestRecord
        <3> QED
            BY <3>1 DEF AtTurn
    <2>2. CASE request' = request
        BY <2>2 DEF AtTurn
    <2> QED
        BY <2>1, <2>2 DEF Main, Signal, ServeFails, LoadConfig, Connect, Wire, Listen, Drain, Drained,
           StopWorker, CancelJobs, WorkerStopped, ClosePool, Exit
<1>3. worker \in [at : {"off", "claim", "claiming", "run", "finish", "finishing"},
                  stop : BOOLEAN, jobs : {"live", "cancelled", "abandoned"}, owes : BOOLEAN]
    BY DEF ProcessInv, WorkerInPhase
<1>4. JobAtTurn' = JobAtTurn
    <2>1. CASE Wire
        BY <2>1 DEF Wire, ProcessInv, WorkerInPhase, JobAtTurn
    <2>2. CASE worker'.at = worker.at
        BY <2>2 DEF JobAtTurn
    <2> QED
        BY <1>3, <2>1, <2>2 DEF Main, Signal, ServeFails, LoadConfig, Connect, Listen, Drain, Drained, CutOff,
           StopWorker, CancelJobs, WorkerStopped, ClosePool, Exit
<1>5. phase \in {"load", "connect"} => lent = {}
    <2> SUFFICES ASSUME phase \in {"load", "connect"} PROVE lent = {}
        OBVIOUS
    <2>1. \A r \in Clients : request[r].at = "away"
        BY DEF ProcessInv, AllServed, Served, Unserved
    <2>2. worker.at = "off"
        BY DEF ProcessInv, WorkerInPhase
    <2> QED
        BY <2>1, <2>2 DEF Lending, AtTurn, JobAtTurn
<1>6. Cardinality(lent') <= config'.max
    <2>1. CASE LoadConfig
        <3>1. Cardinality(lent') = 0
            BY <1>1, <1>5, <2>1, FS_EmptySet DEF LoadConfig
        <3>2. config' = config \/ \E e \in Environments : Loads(e) /\ config' = Effective(Built(e))
            BY <2>1 DEF LoadConfig
        <3>3. CASE config' = config
            BY <1>1, <3>3 DEF Lending
        <3>4. ASSUME NEW e \in Environments, Loads(e), config' = Effective(Built(e))
              PROVE  0 <= config'.max
            BY <3>4, LoadedConfig DEF Usable, Configs
        <3> QED
            BY <3>1, <3>2, <3>3, <3>4
    <2>2. CASE config' = config
        BY <1>1, <2>2 DEF Lending
    <2> QED
        BY <2>1, <2>2 DEF Main, Signal, ServeFails, Connect, Wire, Listen, Drain, Drained, CutOff, StopWorker,
           CancelJobs, WorkerStopped, ClosePool, Exit
<1>7. lent # {} => pool' \in {"open", "closing"}
    <2>1. CASE LoadConfig \/ Connect
        BY <1>5, <2>1 DEF LoadConfig, Connect
    <2>2. CASE ClosePool \/ Exit
        BY <2>2 DEF ClosePool, Exit
    <2>3. CASE pool' = pool
        BY <2>3 DEF Lending
    <2> QED
        BY <2>1, <2>2, <2>3 DEF Main, Signal, ServeFails, Wire, Listen, Drain, Drained, CutOff, StopWorker,
           CancelJobs, WorkerStopped
<1> QED
    BY <1>1, <1>2, <1>4, <1>6, <1>7 DEF Lending

\* Only loading changes the configuration, and it takes what validation accepts.
LEMMA ConfigStep ==
    ASSUME Typing, ConfigInv, [Next]_vars
    PROVE  ConfigInv' /\ config' \in Configs
<1>1. CASE LoadConfig
    <2>1. config' = config \/ \E e \in Environments : Loads(e) /\ config' = Effective(Built(e))
        BY <1>1 DEF LoadConfig
    <2>2. CASE config' = config
        BY <2>2 DEF Typing, ConfigInv, Usable
    <2>3. ASSUME NEW e \in Environments, Loads(e), config' = Effective(Built(e))
          PROVE  Usable(config') /\ config' \in Configs
        BY <2>3, LoadedConfig
    <2>4. CASE Usable(config') /\ config' \in Configs
        BY <2>4 DEF ConfigInv, Usable
    <2> QED
        BY <2>1, <2>2, <2>3, <2>4
<1>2. CASE config' = config
    BY <1>2 DEF Typing, ConfigInv, Usable
<1>3. ASSUME NEW r \in Clients, Request(r) PROVE config' = config
    BY <1>3 DEF Request, Arrive, LimitRate, RefuseEarly, Borrow, BorrowFails, TurnDone, TurnRefuses, TurnFails,
           Panic, LogRequest, Leave, run
<1>4. Job => config' = config
    BY DEF Job, JobBorrows, JobBorrowFails, JobTurnEnds, JobReturns, run
<1>5. Main \/ Signal \/ ServeFails => LoadConfig \/ config' = config
    BY DEF Main, Signal, ServeFails, Connect, Wire, Listen, Drain, Drained, CutOff, StopWorker,
           CancelJobs, WorkerStopped, ClosePool, Exit, Fails, Goes
<1> QED
    BY <1>1, <1>2, <1>3, <1>4, <1>5 DEF Next, vars

LEMMA TypingStep ==
    ASSUME ProcessInv, Typing, ConfigInv, [Next]_vars
    PROVE  Typing'
<1>1. config' \in Configs
    BY ConfigStep
<1>2. ASSUME NEW r \in Clients, Request(r) PROVE UNCHANGED <<run, pool>>
    BY <1>2, RequestStep DEF ProcessInv, Becomes
<1>3. Job => UNCHANGED <<run, pool>>
    BY DEF Job, JobBorrows, JobBorrowFails, JobTurnEnds, JobReturns
<1>4. CASE UNCHANGED <<run, pool>>
    BY <1>4 DEF run, Typing
<1>5. CASE Main \/ Signal \/ ServeFails
    <2> USE DEF Fails, Goes
    <2>1. binary' = binary /\ (signalled' = TRUE \/ signalled' = signalled)
        BY <1>5 DEF Main, Signal, ServeFails, LoadConfig, Connect, Wire, Listen, Drain, Drained, CutOff,
           StopWorker, CancelJobs, WorkerStopped, ClosePool, Exit
    <2>2. code' = code \/ code' = 1
        BY <1>5, Zenon DEF Main, Signal, ServeFails, LoadConfig, Connect, Wire, Listen, Drain, Drained, CutOff,
           StopWorker, CancelJobs, WorkerStopped, ClosePool, Exit
    <2>3. phase' \in Phases /\ pool' \in {"none", "open", "closing", "closed"}
        <3>1. phase \in Phases /\ pool \in {"none", "open", "closing", "closed"}
            BY DEF Typing
        <3> QED
            BY <1>5, <3>1 DEF Phases, Main, Signal, ServeFails, LoadConfig, Connect, Wire, Listen, Drain, Drained,
               CutOff, StopWorker, CancelJobs, WorkerStopped, ClosePool, Exit
    <2>4. code' \in {0, 1}
        BY <2>2, Zenon DEF Typing
    <2> QED
        BY <1>1, <2>1, <2>3, <2>4, Zenon DEF Typing
<1> QED
    BY <1>2, <1>3, <1>4, <1>5 DEF Next, vars, run

LEMMA LendingStep ==
    ASSUME ProcessInv, Typing, ConfigInv, Lending, [Next]_vars
    PROVE  Lending'
<1>1. CASE Main \/ Signal \/ ServeFails
    BY <1>1, ConfigStep, MainLoans
<1>2. CASE Job
    BY <1>2, JobLoans
<1>3. ASSUME NEW r \in Clients, Request(r) PROVE Lending'
    BY <1>3, RequestLoans
<1>4. CASE UNCHANGED vars
    BY <1>4 DEF vars, Lending, AtTurn, JobAtTurn
<1> QED
    BY <1>1, <1>2, <1>3, <1>4 DEF Next

LEMMA AlwaysTyped == Spec => [](Typing /\ ConfigInv /\ Lending)
<1>1. Init => Typing /\ ConfigInv /\ Lending
    BY InitTypes
<1>2. ProcessInv /\ (Typing /\ ConfigInv /\ Lending) /\ [Next]_vars => (Typing /\ ConfigInv /\ Lending)'
    BY TypingStep, ConfigStep, LendingStep
<1> QED
    BY <1>1, <1>2, AlwaysInv, PTL DEF Spec

-----------------------------------------------------------------------------
(* The theorems.                                                           *)

\* In every process: whoever holds a connection is at a database turn, the pool
\* never lends more than DB_MAX_CONNS, and none outside an open pool's time.
THEOREM TypeCorrect == Spec => []ApiTypeOK
<1>1. ProcessInv /\ Typing /\ ConfigInv /\ Lending => ApiTypeOK
    <2> SUFFICES ASSUME ProcessInv, Typing, Lending PROVE ApiTypeOK
        OBVIOUS
    <2>1. /\ binary \in {"api", "worker"} /\ code \in {0, 1} /\ signalled \in BOOLEAN /\ broken \in BOOLEAN
          /\ phase \in Phases /\ config \in Configs /\ pool \in {"none", "open", "closing", "closed"}
        BY Zenon DEF Typing, ProcessInv, AllServed
    <2>2. /\ lent = AtTurn \cup JobAtTurn
          /\ Cardinality(lent) <= config.max
          /\ lent # {} => pool \in {"open", "closing"}
        BY DEF Lending
    <2>3. ASSUME NEW r \in Clients
          PROVE  /\ request[r].at \in {"away", "limit", "borrow", "turn", "written", "done"}
                 /\ InFlight(r) => request[r].q \in Requests
                 /\ request[r].ended \in {"no", "gone", "cut"} /\ request[r].wrote \in BOOLEAN
        BY DEF ProcessInv, RequestsFit, Fits, RequestRecord, InFlight
    <2>4. /\ worker.at \in {"off", "claim", "claiming", "run", "finish", "finishing"}
          /\ worker.stop \in BOOLEAN /\ worker.jobs \in {"live", "cancelled", "abandoned"}
          /\ worker.owes \in BOOLEAN
        BY DEF ProcessInv, WorkerInPhase
    <2> QED
        BY <2>1, <2>2, <2>3, <2>4, Zenon DEF ApiTypeOK, Phases, Configs, AtTurn, JobAtTurn
<1> QED
    BY <1>1, AlwaysInv, AlwaysTyped, PTL

\* Whatever the clients ask and the database does, only a request with every
\* right to changes anything in a handler (NewRouter, RegisterRoutes, Handle).
THEOREM AuthorisedWrites == Spec => []WritesAreAuthorised
<1>1. ProcessInv => WritesAreAuthorised
    BY DEF ProcessInv, RequestsFit, Fits, Authorised, WritesAreAuthorised
<1> QED
    BY <1>1, AlwaysInv, PTL

\* Every request, however it ends, is answered once, diagnosed once if that is
\* a 5xx, and leaves one access line that the counters agree with.
THEOREM AnsweredAndLoggedOnce == Spec => []OneAnswerOneLine
<1>1. ProcessInv => OneAnswerOneLine
    BY DEF ProcessInv, RequestsFit, Fits, Logged, Counted, DoneOnes, FailedOnes, OneAnswerOneLine
<1> QED
    BY <1>1, AlwaysInv, PTL

\* The pool closes last: nothing that nobody has cancelled is still running,
\* unless the server broke.
THEOREM PoolClosedLast == Spec => []PoolClosesLast
<1>1. ProcessInv => PoolClosesLast
    <2> SUFFICES ASSUME ProcessInv, pool \in {"closing", "closed"}
                 PROVE  /\ \A r \in Clients : InFlight(r) =>
                              request[r].ended = "cut" \/ request[r].ended = "gone" \/ broken
                        /\ worker.at # "off" => worker.jobs = "abandoned"
        BY DEF PoolClosesLast
    <2>1. phase \in {"await pool", "exited"}
        BY DEF ProcessInv, PoolInPhase
    <2>2. worker.at # "off" => worker.jobs = "abandoned"
        BY <2>1 DEF ProcessInv, WorkerInPhase
    <2>3. ASSUME NEW r \in Clients, InFlight(r), ~broken
          PROVE  request[r].ended \in {"cut", "gone"}
        BY <2>1, <2>3 DEF ProcessInv, AllServed, Served, Stopped, InFlight, RequestsFit, RequestRecord
    <2> QED
        BY <2>2, <2>3
<1> QED
    BY <1>1, AlwaysInv, PTL

\* A process that exits with 0 has cut nothing off: its clients have their
\* answers, and in cmd/worker every handler ran to its end and the outcome of
\* every job that was claimed was tried.
THEOREM NothingCutOffAtCleanExit == Spec => []CleanExitCutsNothingOff
<1>1. ProcessInv => CleanExitCutsNothingOff
    BY DEF ProcessInv, AllServed, Served, Stopped, WorkerInPhase, CleanExitCutsNothingOff
<1> QED
    BY <1>1, AlwaysInv, PTL
=============================================================================
