--------------------------- MODULE ProcessConfig ---------------------------
(***************************************************************************)
(* internal/platform/config: the environment a process starts in, read     *)
(* into a configuration and validated once.  An environment gives every    *)
(* variable a reading; a configuration is a function on the same names.    *)
(*                                                                         *)
(* Data kept: whether a text parses as its variable's type, numbers and    *)
(* durations (in seconds), booleans, and what validation asks of the       *)
(* others.  An origin is the pieces url.Parse finds in it, the database    *)
(* URL its sslmode (or garbled), the encryption key which key it is.       *)
(***************************************************************************)
EXTENDS Integers

CONSTANT IntHalf    \* MaxConns and MinConns are in -IntHalf .. IntHalf - 1, 2^31 in the code

ASSUME IntHalfAssumption == IntHalf \in Nat \ {0}

\* What os.LookupEnv and the parser of a variable's type make of its text: a
\* blank text counts as unset.
Unset == [set |-> FALSE]
Malformed == [set |-> TRUE, reads |-> FALSE]
Text(v) == [set |-> TRUE, reads |-> TRUE, value |-> v]

\* A text as url.Parse sees it; rest stands for a path or a query.
Origin(scheme, host, rest) == [scheme |-> scheme, host |-> host, rest |-> rest]
Localhost(scheme) == Origin(scheme, TRUE, FALSE)

\* The defaults.  A blank text is unset, so that a text whose default is not
\* empty is never empty: HTTP_ADDR, AUTH_SESSION_COOKIE_NAME, EMAIL_FROM and
\* SMTP_HOST, of which only that is asked, are left out.
Strings == [ENV |-> "development", LOG_LEVEL |-> "info", LOG_FORMAT |-> "text", EMAIL_PROVIDER |-> "smtp",
            AUTH_ENCRYPTION_KEY |-> "none", DATABASE_URL |-> "none"]
Origins == [APP_BASE_URL |-> Localhost("http"), ARBETSMILJOVERKET_BASE_URL |-> Localhost("https"),
            STOCKHOLM_BASE_URL |-> Localhost("https")]
Numbers == [HTTP_MAX_BODY_BYTES |-> 1048576, DB_MAX_CONNS |-> 10, DB_MIN_CONNS |-> 0,
            AUTH_RATE_LIMIT_REQUESTS |-> 10, SMTP_PORT |-> 1025, JOBS_CONCURRENCY |-> 4]
Durations == [AUTH_SESSION_TTL |-> 2592000, AUTH_VERIFICATION_TOKEN_TTL |-> 86400, AUTH_RESET_TOKEN_TTL |-> 3600,
              AUTH_RESEND_COOLDOWN |-> 60, AUTH_RATE_LIMIT_WINDOW |-> 60, HTTP_SHUTDOWN_TIMEOUT |-> 15,
              JOBS_POLL_INTERVAL |-> 1, JOBS_JOB_TIMEOUT |-> 60, JOBS_LOCK_TIMEOUT |-> 300,
              JOBS_SHUTDOWN_TIMEOUT |-> 30, ARBETSMILJOVERKET_REQUEST_INTERVAL |-> 1,
              STOCKHOLM_REQUEST_INTERVAL |-> 1, STOCKHOLM_REFRESH_INTERVAL |-> 604800]
Switches == {"AUTH_SESSION_COOKIE_SECURE", "SMTP_REQUIRE_TLS", "JOBS_WORKER_IN_API"}
Lists == [HTTP_ALLOWED_ORIGINS |-> {Localhost("http")}, HTTP_TRUSTED_PROXIES |-> {}]

Keys == DOMAIN Strings \cup DOMAIN Origins \cup DOMAIN Numbers \cup DOMAIN Durations
          \cup Switches \cup DOMAIN Lists

\* Two switches default to whether this is production.
DefaultOf(e, k) ==
    CASE k \in DOMAIN Strings   -> Strings[k]
      [] k \in DOMAIN Origins   -> Origins[k]
      [] k \in DOMAIN Numbers   -> Numbers[k]
      [] k \in DOMAIN Durations -> Durations[k]
      [] k \in DOMAIN Lists     -> Lists[k]
      [] k \in Switches         -> e.ENV = Text("production") /\ k # "JOBS_WORKER_IN_API"

\* The value of a variable: its text when it parses, else its default.
Reads(e, k) == e[k].set /\ e[k].reads
Read(e, k) == IF Reads(e, k) THEN e[k].value ELSE DefaultOf(e, k)

\* What the parsers of numbers, durations and switches return.
Typed(e) ==
    /\ \A k \in DOMAIN Numbers \cup DOMAIN Durations : Reads(e, k) => e[k].value \in Int
    /\ \A k \in Switches : Reads(e, k) => e[k].value \in BOOLEAN

\* The variables whose text does not parse: every one is reported, none falls
\* back to its default silently.
Unreadable(e) == {k \in Keys : e[k].set /\ ~e[k].reads}

\* int32(n): a number too large for the pool's fields wraps.
Wrapped(n) == ((n + IntHalf) % (2 * IntHalf)) - IntHalf

\* The configuration of an environment in which everything parses.
Built(e) == [k \in Keys |-> IF k \in {"DB_MAX_CONNS", "DB_MIN_CONNS"} THEN Wrapped(Read(e, k)) ELSE Read(e, k)]

ValidOrigin(o) == o.scheme \in {"http", "https"} /\ o.host /\ ~o.rest

KnownNames(c) ==
    /\ c.ENV \in {"development", "test", "production"}
    /\ c.LOG_LEVEL \in {"debug", "info", "warn", "error"}
    /\ c.LOG_FORMAT \in {"json", "text"}
    /\ c.EMAIL_PROVIDER \in {"smtp", "log"}

Positive(c) ==
    \A k \in {"HTTP_MAX_BODY_BYTES", "AUTH_SESSION_TTL", "AUTH_VERIFICATION_TOKEN_TTL", "AUTH_RESET_TOKEN_TTL",
              "AUTH_RATE_LIMIT_REQUESTS", "AUTH_RATE_LIMIT_WINDOW", "JOBS_POLL_INTERVAL", "JOBS_CONCURRENCY",
              "JOBS_JOB_TIMEOUT", "JOBS_LOCK_TIMEOUT", "JOBS_SHUTDOWN_TIMEOUT", "STOCKHOLM_REFRESH_INTERVAL"} :
        c[k] > 0

Ports == 1..65535

\* HTTP_SHUTDOWN_TIMEOUT and AUTH_RESEND_COOLDOWN may be anything.
InRange(c) ==
    /\ c.DB_MAX_CONNS >= 1
    /\ c.DB_MIN_CONNS >= 0 /\ c.DB_MIN_CONNS <= c.DB_MAX_CONNS
    /\ c.JOBS_LOCK_TIMEOUT >= c.JOBS_JOB_TIMEOUT
    /\ c.ARBETSMILJOVERKET_REQUEST_INTERVAL >= 0 /\ c.STOCKHOLM_REQUEST_INTERVAL >= 0
    /\ c.EMAIL_PROVIDER = "smtp" => c.SMTP_PORT \in Ports

WellFormed(c) ==
    /\ \A o \in c.HTTP_ALLOWED_ORIGINS \cup {c[k] : k \in DOMAIN Origins} : ValidOrigin(o)
    /\ c.DATABASE_URL \notin {"none", "garbled"}
    /\ c.AUTH_ENCRYPTION_KEY # "none"

\* What is only acceptable locally.
ProductionReady(c) ==
    /\ c.AUTH_SESSION_COOKIE_SECURE /\ c.SMTP_REQUIRE_TLS
    /\ ~c.JOBS_WORKER_IN_API
    /\ c.AUTH_ENCRYPTION_KEY # "development key"
    /\ \A o \in c.HTTP_ALLOWED_ORIGINS \cup {c.APP_BASE_URL} : o.scheme = "https"
    /\ c.EMAIL_PROVIDER = "smtp" /\ c.LOG_FORMAT = "json"
    /\ c.DATABASE_URL \in {"require", "verify-ca", "verify-full"}

Valid(c) ==
    /\ KnownNames(c) /\ Positive(c) /\ InRange(c) /\ WellFormed(c)
    /\ c.ENV = "production" => ProductionReady(c)

\* LoadFrom returns a configuration.
Loads(e) == Unreadable(e) = {} /\ Valid(Built(e))
=============================================================================
