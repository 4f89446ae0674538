----------------------------- MODULE ApiProcess -----------------------------
(***************************************************************************)
(* The life of one process: cmd/api (or cmd/worker) from its environment   *)
(* to its exit code, with the HTTP requests it serves, the worker loop it  *)
(* may run and the connections of the pool they share.                     *)
(*                                                                         *)
(*   load -> connect -> wire -> listen -> serve -> drain -> stop worker    *)
(*        -> await worker -> close pool -> await pool -> exited            *)
(*                                                                         *)
(* cmd/worker goes from wire to work and from there to stop worker.  Each  *)
(* request is one goroutine that borrows at most one connection at a time; *)
(* one job goroutine stands for the worker's.  What handlers and jobs do   *)
(* to the tables is the subject of the other modules.                      *)
(***************************************************************************)
EXTENDS ProcessConfig, HttpPipeline

CONSTANTS
    Clients,         \* one request each
    Asks,            \* what a client may ask, a function from Clients
    Environments     \* the environments a process may start in

ASSUME ClientsAssumption ==
    /\ IsFiniteSet(Clients) /\ "job" \notin Clients
    /\ Asks \in [Clients -> SUBSET Requests]

ASSUME EnvironmentsAssumption == \A e \in Environments : Typed(e)

VARIABLES
    binary,      \* "api" or "worker"
    phase,       \* how far run has come
    config,      \* what it reads of its configuration
    signalled,   \* SIGINT or SIGTERM has come
    code,        \* what the process will exit with
    broken,      \* srv.Serve failed by itself
    pool,        \* "none", "open", "closing" or "closed"
    lent,        \* the goroutines that hold a connection
    request,     \* the request of each client
    worker,      \* the job goroutine
    metrics      \* the request counters

vars == <<binary, phase, config, signalled, code, broken, pool, lent, request, worker, metrics>>
run == <<binary, phase, config, signalled, code, broken>>

NoConfig == [max |-> 0, inApi |-> FALSE]

\* What the rest of the process reads of its configuration.
Effective(c) == [max |-> c.DB_MAX_CONNS, inApi |-> c.JOBS_WORKER_IN_API]

\* A request: todo are the stages ahead, the current one first; turn counts
\* the stage's database turns; ended says whether its context was cancelled,
\* because the client went away or because the server cut it off.
NoRequest ==
    [at |-> "away", q |-> "none", todo |-> <<>>, turn |-> 0, status |-> 0,
     lines |-> <<>>, diagnosed |-> 0, wrote |-> FALSE, ended |-> "no"]

InFlight(r) == request[r].at \notin {"away", "done"}

Init ==
    /\ binary \in {"api", "worker"}
    /\ phase = "load" /\ config = NoConfig /\ code = 0
    /\ signalled = FALSE /\ broken = FALSE
    /\ pool = "none" /\ lent = {}
    /\ request = [r \in Clients |-> NoRequest]
    /\ worker = [at |-> "off", stop |-> FALSE, jobs |-> "live", owes |-> FALSE]
    /\ metrics = [total |-> 0, errors |-> 0]

-----------------------------------------------------------------------------
(* Requests.                                                               *)

Stage(r) == Head(request[r].todo)

\* WriteError, WriteJSON and WriteNoContent: the first status counts, and a
\* 5xx is diagnosed where it is written.
Written(m, status) ==
    [m EXCEPT !.at = "written", !.todo = <<>>, !.turn = 0, !.status = IF @ = 0 THEN status ELSE @,
              !.diagnosed = @ + (IF status >= 500 THEN 1 ELSE 0)]

\* The request passes the stages that ask nobody, up to the one that answers
\* it or has to ask: the limiter, or the database.
Onward(m, todo) ==
    LET asks == {"limit", "session", "member", "handler"}
        i == Min({j \in DOMAIN todo : todo[j] \in asks \/ Verdict(m.q, todo[j]) # 0})
    IN IF Verdict(m.q, todo[i]) # 0 THEN Written(m, Verdict(m.q, todo[i]))
       ELSE IF todo[i] = "handler" /\ Turns(m.q) = {0} THEN Written(m, RouteOf(m.q).ok)
       ELSE [m EXCEPT !.at = IF todo[i] = "limit" THEN "limit" ELSE "borrow",
                      !.todo = SubSeq(todo, i, Len(todo)), !.turn = 0]

\* net/http accepts a connection and starts its goroutine.
Arrive(r) ==
    /\ phase = "serve" /\ request[r].at = "away"
    /\ \E q \in Asks[r] : request' = [request EXCEPT ![r] = Onward([NoRequest EXCEPT !.q = q], Stages(q))]
    /\ UNCHANGED <<run, pool, lent, worker, metrics>>

\* RateLimit: the limiter of the route admits the client or not.
LimitRate(r) ==
    /\ request[r].at = "limit"
    /\ \E answer \in {Onward(request[r], Tail(request[r].todo)), Written(request[r], 429)} :
         request' = [request EXCEPT ![r] = answer]
    /\ UNCHANGED <<run, pool, lent, worker, metrics>>

\* The handler answers what it can tell from the request alone.
RefuseEarly(r) ==
    /\ request[r].at = "borrow" /\ Stage(r) = "handler" /\ request[r].turn = 0
    /\ \E status \in RefusedEarly(request[r].q) :
         request' = [request EXCEPT ![r] = Written(@, status)]
    /\ UNCHANGED <<run, pool, lent, worker, metrics>>

\* Not the code: the pool lends one connection more than it has.
BorrowOneMore(r) ==
    /\ request[r].at = "borrow" /\ request[r].ended = "no"
    /\ pool = "open" /\ Cardinality(lent) <= config.max
    /\ lent' = lent \cup {r}
    /\ request' = [request EXCEPT ![r].at = "turn"]
    /\ UNCHANGED <<run, pool, worker, metrics>>

\* The pool lends a connection.
Borrow(r) ==
    /\ request[r].at = "borrow" /\ request[r].ended = "no"
    /\ pool = "open" /\ Cardinality(lent) < config.max
    /\ lent' = lent \cup {r}
    /\ request' = [request EXCEPT ![r].at = "turn"]
    /\ UNCHANGED <<run, pool, worker, metrics>>

\* toAppError of a failed database call: 499 for a cancelled context, 500 for
\* anything else.  Readyz answers 503 for either.
Failed(m, cancelled) ==
    Written(m, IF m.q.path = "readyz" THEN 503 ELSE IF cancelled THEN 499 ELSE 500)

\* The error of a cancelled request may still be another one.
Causes(r) == {FALSE, request[r].ended # "no"}

\* A closed pool lends nothing, nor does one to a cancelled request; readyz
\* waits two seconds.
BorrowFails(r) ==
    /\ request[r].at = "borrow"
    /\ request[r].ended # "no" \/ pool # "open" \/ request[r].q.path = "readyz"
    /\ \E cancelled \in Causes(r) : request' = [request EXCEPT ![r] = Failed(@, cancelled)]
    /\ UNCHANGED <<run, pool, lent, worker, metrics>>

\* What a stage answers to what its first turn found.
Found(m) ==
    CASE m.turn # 0 -> {}
      [] Head(m.todo) = "session" -> IF m.q.cookie = "dead" THEN {401} ELSE {}
      [] Head(m.todo) = "member"  -> IF m.q.account = "other" THEN {403} ELSE {}
      [] Head(m.todo) = "handler" -> RefusedLate(m.q)

\* The request may pass the stage: a handler may find what it looks for, but no
\* account that the user is not a member of.
Passes(m) ==
    IF Head(m.todo) = "handler" THEN m.q.path = "accounts/id" => m.q.account = "mine" ELSE Found(m) = {}

\* A session is looked up and touched, a membership is looked up.
TurnsOf(m) == CASE Head(m.todo) = "session" -> {2} [] Head(m.todo) = "member" -> {1} [] OTHER -> Turns(m.q)

\* A turn is done: the statements ran, the transaction committed, and the
\* connection went back.
TurnDone(r) ==
    /\ request[r].at = "turn"
    /\ lent' = lent \ {r}
    /\ \E m \in {[request[r] EXCEPT !.turn = @ + 1, !.wrote = @ \/ (Stage(r) = "handler" /\ ~Safe(request[r].q))]} :
         \/ /\ m.turn < Max(TurnsOf(m)) /\ Passes(request[r])
            /\ request' = [request EXCEPT ![r] = [m EXCEPT !.at = "borrow"]]
         \/ /\ m.turn \in TurnsOf(m) /\ Passes(request[r])
            /\ request' = [request EXCEPT ![r] = IF Stage(r) = "handler" THEN Written(m, RouteOf(m.q).ok) ELSE Onward(m, Tail(m.todo))]
    /\ UNCHANGED <<run, pool, worker, metrics>>

\* The turn found that the request must be refused; nothing was written.
TurnRefuses(r) ==
    /\ request[r].at = "turn"
    /\ \E status \in Found(request[r]) : request' = [request EXCEPT ![r] = Written(@, status)]
    /\ lent' = lent \ {r}
    /\ UNCHANGED <<run, pool, worker, metrics>>

\* The turn fails; when it was the commit that failed, it may have happened.
TurnFails(r) ==
    /\ request[r].at = "turn"
    /\ \E committed \in BOOLEAN, cancelled \in Causes(r) :
         /\ committed => Stage(r) = "handler" /\ ~Safe(request[r].q)
         /\ request' = [request EXCEPT ![r] = Failed([request[r] EXCEPT !.wrote = @ \/ committed], cancelled)]
    /\ lent' = lent \ {r}
    /\ UNCHANGED <<run, pool, worker, metrics>>

\* Not the code: Recover answers through WriteError, which logs again.
DiagnosedTwice(m) == [Written(m, 500) EXCEPT !.diagnosed = @ + 1]

\* Recover logs the panic and writes the response without logging again.
Recovered(m) == Written(m, 500)

\* The handler panics: InTx rolls back and returns the connection.
Panic(r) ==
    /\ request[r].at \in {"borrow", "turn"} /\ Stage(r) = "handler"
    /\ lent' = lent \ {r}
    /\ request' = [request EXCEPT ![r] = Recovered(@)]
    /\ UNCHANGED <<run, pool, worker, metrics>>

\* RequestLogger's line and the counters, when the stack has returned; of the
\* request nothing else is left.
LogRequest(r) ==
    /\ request[r].at = "written"
    /\ request' = [request EXCEPT ![r] = [request[r] EXCEPT !.at = "done", !.q = "none", !.wrote = FALSE,
                                                           !.lines = Append(@, request[r].status)]]
    /\ metrics' = [total |-> metrics.total + 1,
                   errors |-> metrics.errors + (IF request[r].status >= 500 THEN 1 ELSE 0)]
    /\ UNCHANGED <<run, pool, lent, worker>>

\* The client goes away, which cancels the request's context.
Leave(r) ==
    /\ InFlight(r) /\ request[r].ended = "no"
    /\ request' = [request EXCEPT ![r].ended = "gone"]
    /\ UNCHANGED <<run, pool, lent, worker, metrics>>

Request(r) ==
    \/ Arrive(r) \/ LimitRate(r) \/ RefuseEarly(r)
    \/ Borrow(r) \/ BorrowFails(r) \/ TurnDone(r) \/ TurnRefuses(r) \/ TurnFails(r)
    \/ Panic(r) \/ LogRequest(r) \/ Leave(r)

-----------------------------------------------------------------------------
(* The job goroutine: claim, run, finish, once around for every job.  It   *)
(* owes an outcome from a claim it knows of until it has tried to record   *)
(* one.                                                                    *)

\* A connection for the claim or for the outcome.
JobBorrows ==
    /\ worker.at \in {"claim", "finish"} /\ (worker.at = "claim" => ~worker.stop)
    /\ pool = "open" /\ Cardinality(lent) < config.max
    /\ lent' = lent \cup {"job"}
    /\ worker' = [worker EXCEPT !.at = IF @ = "claim" THEN "claiming" ELSE "finishing"]
    /\ UNCHANGED <<run, pool, request, metrics>>

\* A claim is refused by the cancelled context of a stopping worker; the
\* outcome is given up after ten seconds or to a closed pool.
JobBorrowFails ==
    /\ worker.at = "finish" \/ (worker.at = "claim" /\ worker.stop)
    /\ worker' = [worker EXCEPT !.at = IF worker.stop THEN "off" ELSE "claim", !.owes = FALSE]
    /\ UNCHANGED <<run, pool, lent, request, metrics>>

\* The statement is over: the claim has found a job or none, or it committed
\* and its reply was lost; the outcome is recorded, or refused because another
\* worker has the job, or lost.  A stopping worker's loop ends instead of going
\* round.
JobTurnEnds ==
    /\ worker.at \in {"claiming", "finishing"}
    /\ lent' = lent \ {"job"}
    /\ \E found \in {FALSE, worker.at = "claiming"} :
         worker' = [worker EXCEPT !.at = IF found THEN "run" ELSE IF worker.stop THEN "off" ELSE "claim",
                                 !.owes = found]
    /\ UNCHANGED <<run, pool, request, metrics>>

\* Not the code: a stopping worker leaves once its handler has returned.
JobReturnsUnrecorded ==
    /\ worker.at = "run"
    /\ worker' = [worker EXCEPT !.at = IF worker.stop THEN "off" ELSE "finish"]
    /\ UNCHANGED <<run, pool, lent, request, metrics>>

\* The handler returns.
JobReturns ==
    /\ worker.at = "run"
    /\ worker' = [worker EXCEPT !.at = "finish"]
    /\ UNCHANGED <<run, pool, lent, request, metrics>>

Job == JobBorrows \/ JobBorrowFails \/ JobTurnEnds \/ JobReturns

-----------------------------------------------------------------------------
(* The process.                                                            *)

Fails == code' = 1 /\ UNCHANGED <<binary, config, signalled, broken>>
Goes == UNCHANGED <<binary, config, signalled, code, broken>>

\* A configuration, or exit 1 before anything is started.
LoadConfig ==
    /\ phase = "load"
    /\ \E e \in Environments :
         \/ Loads(e) /\ config' = Effective(Built(e)) /\ phase' = "connect" /\ code' = code
         \/ ~Loads(e) /\ config' = config /\ phase' = "exited" /\ code' = 1
    /\ UNCHANGED <<binary, signalled, broken, pool, lent, request, worker, metrics>>

\* signal.NotifyContext cancels the context; a second signal changes nothing.
Signal ==
    /\ phase \notin {"load", "exited"} /\ ~signalled
    /\ signalled' = TRUE
    /\ UNCHANGED <<binary, phase, config, code, broken, pool, lent, request, worker, metrics>>

\* NewPool opens the pool and pings the database through it.
Connect ==
    /\ phase = "connect"
    /\ \/ ~signalled /\ pool' = "open" /\ phase' = "wire" /\ Goes
       \/ pool' = "closed" /\ phase' = "exited" /\ Fails
    /\ UNCHANGED <<lent, request, worker, metrics>>

\* NewSender and app.New, which fail on nothing that validation lets through,
\* and the worker's start.
Wire ==
    /\ phase = "wire"
    /\ phase' = IF binary = "api" THEN "listen" ELSE "work"
    /\ worker' = [worker EXCEPT !.at = IF binary = "worker" \/ config.inApi THEN "claim" ELSE "off"]
    /\ Goes /\ UNCHANGED <<pool, lent, request, metrics>>

Listen ==
    /\ phase = "listen"
    /\ \/ phase' = "serve" /\ Goes
       \/ phase' = "stop worker" /\ Fails
    /\ UNCHANGED <<pool, lent, request, worker, metrics>>

\* srv.Serve returns by itself: Serve reports it and drains nothing.
ServeFails ==
    /\ phase = "serve"
    /\ broken' = TRUE /\ code' = 1 /\ phase' = "stop worker"
    /\ UNCHANGED <<binary, config, signalled, pool, lent, request, worker, metrics>>

\* The context is cancelled: Shutdown closes the listener and waits.
Drain ==
    /\ phase = "serve" /\ signalled
    /\ phase' = "drain"
    /\ Goes /\ UNCHANGED <<pool, lent, request, worker, metrics>>

\* Every connection has become idle.
Drained ==
    /\ phase = "drain" /\ ~\E r \in Clients : InFlight(r)
    /\ phase' = "stop worker"
    /\ Goes /\ UNCHANGED <<pool, lent, request, worker, metrics>>

\* Not the code: a shutdown that ran out of time is not reported.
CutOffSilently ==
    /\ phase = "drain" /\ \E r \in Clients : InFlight(r)
    /\ phase' = "stop worker" /\ Goes
    /\ request' = [r \in Clients |-> IF InFlight(r) /\ request[r].ended = "no"
                                      THEN [request[r] EXCEPT !.ended = "cut"] ELSE request[r]]
    /\ UNCHANGED <<pool, lent, worker, metrics>>

\* HTTP_SHUTDOWN_TIMEOUT is over: Close cuts the requests still running, whose
\* contexts are cancelled, and Serve returns the error.  (net/http notices
\* a closed connection only when the body has been read: that is assumed.)
CutOff ==
    /\ phase = "drain" /\ \E r \in Clients : InFlight(r)
    /\ phase' = "stop worker" /\ Fails
    /\ request' = [r \in Clients |-> IF InFlight(r) /\ request[r].ended = "no"
                                      THEN [request[r] EXCEPT !.ended = "cut"] ELSE request[r]]
    /\ UNCHANGED <<pool, lent, worker, metrics>>

\* Not the code: the worker is told to stop and not waited for.
StopWorkerUnawaited ==
    /\ phase = "stop worker" \/ (phase = "work" /\ signalled)
    /\ phase' = "close pool" /\ worker' = [worker EXCEPT !.stop = TRUE]
    /\ Goes /\ UNCHANGED <<pool, lent, request, metrics>>

\* stopWorker in the API, the cancelled context itself in cmd/worker.
StopWorker ==
    /\ phase = "stop worker" \/ (phase = "work" /\ signalled)
    /\ phase' = "await worker" /\ worker' = [worker EXCEPT !.stop = TRUE]
    /\ Goes /\ UNCHANGED <<pool, lent, request, metrics>>

\* JOBS_SHUTDOWN_TIMEOUT is over: the context of the handlers is cancelled.
CancelJobs ==
    /\ phase = "await worker" /\ worker.at # "off" /\ worker.jobs = "live"
    /\ worker' = [worker EXCEPT !.jobs = "cancelled"]
    /\ Goes /\ UNCHANGED <<phase, pool, lent, request, metrics>>

\* Not the code: a handler that ignores its cancellation is waited for.
WorkerAwaited ==
    /\ phase = "await worker" /\ worker.at = "off"
    /\ phase' = "close pool"
    /\ IF binary = "worker" /\ worker.jobs = "cancelled" THEN Fails ELSE Goes
    /\ UNCHANGED <<pool, lent, request, worker, metrics>>

\* Worker.Run returns: its goroutines are over, or five seconds after the
\* cancellation it leaves a handler behind.  cmd/api only logs its error.
WorkerStopped ==
    /\ phase = "await worker"
    /\ \/ worker.at = "off" /\ worker' = worker
       \/ worker.at # "off" /\ worker.jobs = "cancelled" /\ worker' = [worker EXCEPT !.jobs = "abandoned"]
    /\ phase' = "close pool"
    /\ IF binary = "worker" /\ worker.jobs = "cancelled" THEN Fails ELSE Goes
    /\ UNCHANGED <<pool, lent, request, metrics>>

\* The deferred pool.Close: nothing is lent any more.
ClosePool ==
    /\ phase = "close pool"
    /\ phase' = "await pool" /\ pool' = "closing"
    /\ Goes /\ UNCHANGED <<lent, request, worker, metrics>>

\* Close returns when every connection has come back, and the process ends
\* with whatever goroutines are left.
Exit ==
    /\ phase = "await pool" /\ lent = {}
    /\ phase' = "exited" /\ pool' = "closed"
    /\ Goes /\ UNCHANGED <<lent, request, worker, metrics>>

Main ==
    \/ LoadConfig \/ Connect \/ Wire \/ Listen \/ Drain \/ Drained \/ CutOff
    \/ StopWorker \/ CancelJobs \/ WorkerStopped \/ ClosePool \/ Exit

Next == Main \/ Signal \/ ServeFails \/ (phase # "exited" /\ (Job \/ \E r \in Clients : Request(r)))

-----------------------------------------------------------------------------
(* Timers fire, goroutines are scheduled, a statement whose context is     *)
(* cancelled or timed out ends.  Nothing is assumed of a statement whose   *)
(* context is live, of a job's handler, or of the clients.                 *)

Cancelled(r) == request[r].ended # "no"

Fairness ==
    /\ WF_vars(Main)
    /\ WF_vars(phase # "exited" /\ worker.stop /\ (JobBorrows \/ JobBorrowFails \/ JobTurnEnds))
    /\ \A r \in Clients :
         WF_vars(phase # "exited" /\ (\/ LimitRate(r) \/ BorrowFails(r) \/ LogRequest(r)
                                     \/ (Cancelled(r) /\ (TurnDone(r) \/ TurnRefuses(r) \/ TurnFails(r)))))

Spec == Init /\ [][Next]_vars /\ Fairness

-----------------------------------------------------------------------------
(* Properties.                                                             *)

\* Types of the variables; a goroutine that holds a connection is at a turn,
\* no more are lent than the pool has, and none but in an open pool's time.
ApiTypeOK ==
    /\ binary \in {"api", "worker"} /\ code \in {0, 1} /\ signalled \in BOOLEAN /\ broken \in BOOLEAN
    /\ phase \in {"load", "connect", "wire", "listen", "serve", "work", "drain", "stop worker",
                 "await worker", "close pool", "await pool", "exited"}
    /\ config \in [max : Int, inApi : BOOLEAN]
    /\ pool \in {"none", "open", "closing", "closed"}
    /\ lent = {r \in Clients : request[r].at = "turn"}
                \cup (IF worker.at \in {"claiming", "finishing"} THEN {"job"} ELSE {})
    /\ Cardinality(lent) <= config.max /\ (lent # {} => pool \in {"open", "closing"})
    /\ \A r \in Clients :
         /\ request[r].at \in {"away", "limit", "borrow", "turn", "written", "done"}
         /\ InFlight(r) => request[r].q \in Requests
         /\ request[r].ended \in {"no", "gone", "cut"} /\ request[r].wrote \in BOOLEAN
    /\ worker.at \in {"off", "claim", "claiming", "run", "finish", "finishing"}
    /\ worker.stop \in BOOLEAN /\ worker.jobs \in {"live", "cancelled", "abandoned"}
    /\ worker.owes \in BOOLEAN

\* Whatever happens to a request (refused by any stage, cancelled, failed by
\* the database, panicked), it is answered once, leaves one access line with
\* the status that was written, one diagnostic if that is a 5xx and none if
\* it is not, and the counters agree with the lines (WriteError, Recover,
\* RequestLogger, ObserveRequest).
OneAnswerOneLine ==
    /\ \A r \in Clients :
         LET m == request[r] IN
         /\ m.at \in {"written", "done"} <=> m.status # 0
         /\ m.lines = IF m.at = "done" THEN <<m.status>> ELSE <<>>
         /\ m.diagnosed = IF m.status >= 500 THEN 1 ELSE 0
    /\ metrics.total = Cardinality({r \in Clients : request[r].at = "done"})
    /\ metrics.errors = Cardinality({r \in Clients : request[r].at = "done" /\ request[r].status >= 500})

\* Only a request that has every right to changes anything in a handler: no
\* other site sent it, it reached an endpoint, its session was live where one
\* is needed, it is a member of the account it names, and nothing in it was
\* malformed (NewRouter's order of middleware, RegisterRoutes, Handle).
WritesAreAuthorised ==
    \A r \in Clients :
        request[r].wrote =>
            LET q == request[r].q IN
            /\ q.origin # "foreign" /\ (q.origin = "none" => q.referer \in {"none", "ours"})
            /\ \E e \in Routes : e.path = q.path /\ e.method = q.method /\ e.method # "GET"
            /\ q.path \in Protected => q.cookie = "live"
            /\ q.path \in Scoped => q.account = "mine"
            /\ Seen(q) = {}

\* The order of the shutdown (cmd/api/main.go): while the pool is closing or
\* closed, every request still running was cut off or its server had failed,
\* and the worker's goroutine has stopped or been abandoned.
PoolClosesLast ==
    pool \in {"closing", "closed"} =>
        /\ \A r \in Clients : InFlight(r) => request[r].ended = "cut" \/ request[r].ended = "gone" \/ broken
        /\ worker.at # "off" => worker.jobs = "abandoned"

\* Exit code 0 means that the shutdown cut nothing off (server.Serve,
\* Worker.Run): every request that was accepted has its answer, and in
\* cmd/worker no handler was cancelled or left behind and no claimed job was
\* dropped before its outcome was tried.  It does not mean that every job's row
\* was released: a claim or an outcome whose statement fails leaves its row
\* locked and is only logged.  Nor does it cover a worker inside the API, whose
\* error is only logged too.
CleanExitCutsNothingOff ==
    phase = "exited" /\ code = 0 =>
        /\ \A r \in Clients : request[r].at \in {"away", "done"} /\ request[r].ended # "cut"
        /\ binary = "worker" => worker.at = "off" /\ worker.jobs = "live" /\ ~worker.owes

\* A process that is told to stop does, whatever its database, its jobs and
\* its clients do (server.Serve, Worker.Run); only one whose listener broke
\* waits for its statements.
ShutdownEnds == signalled ~> (phase = "exited" \/ broken)
=============================================================================
