---------------------------- MODULE HttpPipeline ----------------------------
(***************************************************************************)
(* What becomes of an HTTP request: the route table, the stages a request  *)
(* passes in order (the middleware stack of api.NewRouter, the middleware  *)
(* of its route, api.Handle's binding and validation, the handler), and    *)
(* the status with which a stage that asks nobody refuses it.              *)
(*                                                                         *)
(* A request is abstracted to what the stages tell apart: its path and     *)
(* method, the site its Origin and Referer name, the state of its session  *)
(* cookie, whose account its path names, and flaws, what is wrong with its *)
(* parameters and body.  Request ids, client addresses, response headers   *)
(* and bodies are left out; ApiProcess lets the limiters and the database  *)
(* answer.                                                                 *)
(***************************************************************************)
EXTENDS Naturals, Sequences, FiniteSetsExt

Route(path, method, ok) == [path |-> path, method |-> method, ok |-> ok]

\* The endpoints of each package and the status of their success.
AppRoutes == {Route(path, "GET", 200) : path \in {"healthz", "readyz", "metricsz"}}

AuthRoutes ==
    {Route("signup", "POST", 201), Route("login", "POST", 200), Route("me", "GET", 200)}
      \cup {Route(path, "POST", 204) : path \in {"verify-email", "forgot-password", "reset-password",
                                                "logout", "logout-all", "resend-verification"}}

AccountRoutes == {Route(path, "GET", 200) : path \in {"accounts", "accounts/id"}}

ExampleRoutes ==
    {Route("examples", "POST", 201), Route("examples", "GET", 200), Route("examples/id", "GET", 200),
     Route("examples/id", "PATCH", 200), Route("examples/id", "DELETE", 204)}

EventRoutes == {Route(path, "GET", 200) : path \in {"public-events", "public-events/id"}}

Routes == AppRoutes \cup AuthRoutes \cup AccountRoutes \cup ExampleRoutes \cup EventRoutes

\* Paths that are no endpoint's, by the router that answers for them.
Unrouted == {"unknown", "accounts/unknown", "examples/unknown", "public-events/unknown"}
Paths == {r.path : r \in Routes} \cup Unrouted

\* Sub-routers whose middleware runs before they look for an endpoint, and
\* endpoints with middleware of their own.
Scoped == {"examples", "examples/id", "examples/unknown"}
Mounted == Scoped \cup {"accounts", "accounts/id", "accounts/unknown",
                        "public-events", "public-events/id", "public-events/unknown"}
Limited == {"signup", "login", "verify-email", "forgot-password", "reset-password", "resend-verification"}
Protected == Mounted \cup {"me", "logout", "logout-all", "resend-verification"}

Requests ==
    [path : Paths, method : {"GET", "HEAD", "POST", "PATCH", "DELETE", "OPTIONS"}, preflight : BOOLEAN,
     origin : {"none", "ours", "foreign"}, referer : {"none", "ours", "foreign", "garbled"},
     cookie : {"none", "malformed", "dead", "live"}, account : {"mine", "other", "malformed"},
     flaws : SUBSET {"params", "large", "unreadable", "empty", "media type", "json", "fields"}]

\* The endpoint's route; the fallback stands for no endpoint at all.
RouteOf(q) ==
    LET found == {r \in Routes : r.path = q.path /\ r.method = q.method}
    IN IF found = {} THEN Route("none", "none", IF q.path \in Unrouted THEN 404 ELSE 405)
                     ELSE CHOOSE r \in found : TRUE

Safe(q) == q.method \in {"GET", "HEAD", "OPTIONS"}

\* An allowed origin is answered with the CORS headers; a preflight ends here.
CORS(q) ==
    CASE q.origin = "none" \/ q.method # "OPTIONS" \/ ~q.preflight -> 0
      [] q.origin = "ours"    -> 204
      [] q.origin = "foreign" -> 403

\* Not the code: a request without Origin is trusted whatever its Referer.
OriginAlone(q) == q.origin

\* The site an unsafe request says it comes from: Origin, else Referer.
ClaimedOrigin(q) == IF q.origin = "none" THEN q.referer ELSE q.origin

TrustedOrigin(q) == IF ~Safe(q) /\ ClaimedOrigin(q) \notin {"none", "ours"} THEN 403 ELSE 0

\* The router's 404 and 405.
Routing(q) == IF RouteOf(q).path = "none" THEN RouteOf(q).ok ELSE 0

\* RequireSession and RequireMembership before they ask the database.
Cookie(q) == IF q.cookie \in {"none", "malformed"} THEN 401 ELSE 0
AccountID(q) == IF q.account = "malformed" THEN 400 ELSE 0

\* Handle's order: parameters, then the body's size, presence, type and JSON,
\* then validation; the first flaw answers.
FlawOrder == <<"params", "large", "unreadable", "empty", "media type", "json", "fields">>
FlawStatus == <<400, 413, 400, 400, 415, 400, 422>>

HasParams(q) == q.path \in {"examples/id", "public-events", "public-events/id"} \/ (q.path = "examples" /\ q.method = "GET")
HasBody(q) ==
    \/ q.path \in {"signup", "login", "verify-email", "forgot-password", "reset-password"}
    \/ q.path = "examples" /\ q.method = "POST"
    \/ q.path = "examples/id" /\ q.method = "PATCH"

\* The flaws in a part of the request that the endpoint reads.
Seen(q) ==
    {f \in q.flaws : CASE f = "params" -> HasParams(q)
                       [] f = "fields" -> HasParams(q) \/ HasBody(q)
                       [] OTHER -> HasBody(q)}

Bind(q) ==
    LET hit == {i \in DOMAIN FlawOrder : FlawOrder[i] \in Seen(q)}
    IN IF q.path = "accounts/id" /\ q.account = "malformed" THEN 400
       ELSE IF hit = {} THEN 0 ELSE FlawStatus[Min(hit)]

\* The status a stage refuses the request with on its own, 0 to let it pass.
Verdict(q, stage) ==
    CASE stage = "cors"    -> CORS(q)
      [] stage = "origin"  -> TrustedOrigin(q)
      [] stage = "route"   -> Routing(q)
      [] stage = "session" -> Cookie(q)
      [] stage = "member"  -> AccountID(q)
      [] stage = "bind"    -> Bind(q)
      [] OTHER -> 0

When(condition, stage) == IF condition THEN <<stage>> ELSE <<>>

\* The stages of a request, outermost first.
Stages(q) ==
    <<"cors", "origin">>
      \o When(q.path \in Mounted, "session") \o When(q.path \in Scoped, "member")
      \o <<"route">>
      \o When(q.path \in Protected \ Mounted, "session") \o When(q.path \in Limited, "limit")
      \o <<"bind", "handler">>

\* How many times a handler turns to the database before it succeeds; each
\* turn borrows one connection and returns it.
Turns(q) ==
    CASE q.path \in {"healthz", "metricsz"} -> {0}
      [] q.path = "forgot-password" -> {1, 2}
      [] q.path = "login" -> {2, 3}
      [] OTHER -> {1}

\* The statuses a handler may answer before its first turn: a token that does
\* not look like one, a cursor or a filter that cannot be read.
RefusedEarly(q) ==
    CASE q.path \in {"verify-email", "reset-password"} -> {422}
      [] q.path = "public-events" -> {400, 422}
      [] q.path = "examples" /\ q.method = "GET" -> {400}
      [] OTHER -> {}

\* The statuses it may answer to what its first turn found.
RefusedLate(q) ==
    CASE q.path = "signup" -> {409}
      [] q.path = "login" -> {401}
      [] q.path \in {"verify-email", "reset-password"} -> {422}
      [] q.path = "resend-verification" -> {409, 429}
      [] q.path \in {"accounts/id", "examples/id", "public-events/id"} -> {404}
      [] OTHER -> {}
=============================================================================
