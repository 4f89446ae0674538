---------------------------- MODULE MCApiProcess ----------------------------
(* Small instances of ApiProcess: two clients, the second one simple.      *)
EXTENDS ApiProcess

CONSTANTS c1, c2

Plain == [path |-> "examples/id", method |-> "PATCH", preflight |-> FALSE, origin |-> "ours", referer |-> "none",
          cookie |-> "live", account |-> "mine", flaws |-> {}]
At(path, method) == [Plain EXCEPT !.path = path, !.method = method]

\* A write to the caller's account and what can be wrong with it.
Writes ==
    {Plain, [Plain EXCEPT !.origin = "foreign", !.referer = "ours"]}
      \cup {[Plain EXCEPT !.origin = "none", !.referer = f] : f \in {"none", "foreign", "garbled"}}
      \cup {[Plain EXCEPT !.cookie = s] : s \in {"malformed", "dead"}}
      \cup {[Plain EXCEPT !.account = a] : a \in {"other"}}
      \cup {[Plain EXCEPT !.flaws = f] : f \in {{"large", "fields"}, {"fields"}}}
      \cup {[At("examples", "OPTIONS") EXCEPT !.preflight = TRUE, !.origin = o] : o \in {"ours", "foreign"}}

\* The other kinds of endpoint, and what is none.
Others ==
    {At(p, "GET") : p \in {"healthz", "accounts/id", "accounts/unknown"}}
      \cup {At(p, "POST") : p \in {"login", "verify-email", "resend-verification"}}
      \cup {At("login", "HEAD"), [At("accounts/id", "GET") EXCEPT !.account = "other"]}

TheClients == {c1, c2}
TheAsks == [c \in TheClients |-> IF c = c1 THEN Writes \cup Others ELSE {At("readyz", "GET")}]

Blank == [k \in Keys |-> Unset]
Local == [Blank EXCEPT !["DATABASE_URL"] = Text("disable"), !["AUTH_ENCRYPTION_KEY"] = Text("development key")]
Https(e, k) == [e EXCEPT ![k] = Text(Localhost("https"))]
Deployed ==
    [Https(Local, "APP_BASE_URL") EXCEPT
        !["ENV"] = Text("production"), !["HTTP_ALLOWED_ORIGINS"] = Text({Localhost("https")}),
        !["DATABASE_URL"] = Text("verify-full"), !["AUTH_ENCRYPTION_KEY"] = Text("own key"), !["LOG_FORMAT"] = Text("json")]

\* Two processes that start: a local one with one connection, the worker in the
\* API, a lock no longer than its job, and pool sizes that wrap; and a deployed
\* one.  The others change one variable and do not start.
Small == [Local EXCEPT !["DB_MAX_CONNS"] = Text(33), !["DB_MIN_CONNS"] = Text(32), !["JOBS_WORKER_IN_API"] = Text(TRUE),
                       !["JOBS_LOCK_TIMEOUT"] = Text(60)]
TheEnvironments ==
    {Blank, Small, [Deployed EXCEPT !["DB_MAX_CONNS"] = Text(2)]}
      \cup {[Local EXCEPT ![k] = Malformed] : k \in DOMAIN Numbers \cup DOMAIN Durations \cup Switches \cup DOMAIN Lists}
      \cup {[Local EXCEPT ![k] = Text(0)] : k \in DOMAIN Numbers \ {"DB_MIN_CONNS"}}
      \cup {[Local EXCEPT !["JOBS_LOCK_TIMEOUT"] = Text(n)] : n \in {0, 59}}
      \cup {[Local EXCEPT ![k] = Text("other")] : k \in {"ENV", "LOG_LEVEL", "LOG_FORMAT", "EMAIL_PROVIDER"}}
      \cup {[Local EXCEPT !["DB_MIN_CONNS"] = Text(n)] : n \in {11, 16}}
      \cup {[Small EXCEPT !["DB_MAX_CONNS"] = Text(n)] : n \in {16, 31, 32}}
      \cup {[Deployed EXCEPT ![k] = Text(FALSE)] : k \in {"AUTH_SESSION_COOKIE_SECURE", "SMTP_REQUIRE_TLS"}}
      \cup {[Deployed EXCEPT !["JOBS_WORKER_IN_API"] = Text(TRUE)], [Deployed EXCEPT !["LOG_FORMAT"] = Unset]}
=============================================================================
