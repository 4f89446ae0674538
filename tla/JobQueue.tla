------------------------------ MODULE JobQueue ------------------------------
(***************************************************************************)
(* The PostgreSQL-backed job queue of internal/platform/jobs: the rows of  *)
(* the jobs table, the worker processes that claim them, and inside each   *)
(* worker the Concurrency goroutines of Worker.Run, which all lock rows    *)
(* under the one id of their Worker.                                       *)
(*                                                                         *)
(* Time is relative: every stored instant is an offset from the present,   *)
(* 0 is "now", and Tick moves all offsets one unit into the past.  Offsets *)
(* older than a horizon are not told apart.  A worker whose clock is fast  *)
(* by Skew[w] reads w.now() = Skew[w], and writes or compares the reading  *)
(* when its statement runs: a claim has waited for a connection by then.   *)
(*                                                                         *)
(* Every SQL statement of the package is one statement on one row, so it   *)
(* is one atomic step.  Faults (a claim or an outcome whose statement or   *)
(* reply is lost, a goroutine that is not scheduled or ignores its         *)
(* context, a crash) are actions; MaxFaults bounds how many happen.  What  *)
(* an ordinary shutdown does (a claim cancelled after it committed, a      *)
(* handler abandoned after the grace period) is no fault.                  *)
(***************************************************************************)
EXTENDS Integers, FiniteSets

CONSTANTS
    Jobs,          \* ids of the jobs (UUIDv7: ordered by creation)
    UnknownJobs,   \* jobs whose type has no registered handler
    Workers,       \* worker ids; every process start draws a fresh one
    Nobody,        \* locked_by IS NULL
    Concurrency,   \* goroutines per worker
    MaxAttempts,   \* max_attempts of each job
    ClaimDelay,    \* bound: from a claim's w.now() to the start of its job
    JobTimeout,    \* JOBS_JOB_TIMEOUT
    FinishTimeout, \* the ten seconds processOne gives finish
    LockTimeout,   \* JOBS_LOCK_TIMEOUT
    RetryDelay,    \* Worker.backoff, one delay for all attempts
    StartDelay,    \* the largest RunAt offset a producer asks for
    Skew,          \* how fast each worker's clock is
    Horizon,       \* bound: locked_at older than this are equally old
    RunHorizon,    \* bound: run_at older than this are equally old
    MaxFaults      \* bound: faults in one behaviour

\* Config.validate, Enqueue and the migration's CHECK accept exactly these.
ASSUME JobAssumption ==
    /\ Jobs \subseteq Nat \ {0}
    /\ UnknownJobs \subseteq Jobs
    /\ Nobody \notin Workers
    /\ Concurrency \in Nat \ {0}
    /\ MaxAttempts \in [Jobs -> Nat \ {0}]
    /\ ClaimDelay \in Nat
    /\ JobTimeout \in Nat \ {0}
    /\ FinishTimeout \in Nat \ {0}
    /\ LockTimeout \in Nat \ {0}
    /\ LockTimeout >= JobTimeout
    /\ RetryDelay \in Nat \ {0}
    /\ StartDelay \in Nat
    /\ Skew \in [Workers -> Nat]
    /\ MaxFaults \in Nat
    /\ Horizon \in Nat
    /\ Horizon > LockTimeout + ClaimDelay
    /\ RunHorizon \in Nat
    /\ RunHorizon >= ClaimDelay

VARIABLES
    jobs,      \* the jobs table
    process,   \* the state of each worker process
    thread,    \* what each worker goroutine is doing
    delivered, \* history: jobs whose handler has returned nil
    faults     \* faults so far

vars == <<jobs, process, thread, delivered, faults>>

-----------------------------------------------------------------------------
NoJob == 0
Never == 0   \* locked_at when it is NULL

Threads == Workers \X (1..Concurrency)
Owner(t) == t[1]

Terminal == {"succeeded", "failed"}
Status == {"absent", "pending", "running"} \cup Terminal
Results == {"ok", "error", "permanent"}

\* One row.  The booleans say whether the column is non-NULL; lockedBy =
\* Nobody stands for locked_by and locked_at both NULL, which every statement
\* sets or clears together.  "absent" is a row not inserted yet.
Row == [status: Status,
        attempts: Nat, runAt: Int, lockedBy: Workers \cup {Nobody},
        lockedAt: Int, payload: BOOLEAN, lastError: BOOLEAN,
        completed: BOOLEAN]

NoRow == [status |-> "absent", attempts |-> 0, runAt |-> 0,
          lockedBy |-> Nobody, lockedAt |-> Never, payload |-> FALSE,
          lastError |-> FALSE, completed |-> FALSE]

\* A goroutine: the job value it scanned (its id and attempts), its age, the
\* time left for its current step, and whether a fault made it overstay.  The
\* age of a busy one is that of its lease, counted from the clock reading in
\* locked_at and saturated beyond LockTimeout; that of an idle one is the time
\* since it became idle, saturated at ClaimDelay: the claim it has under way
\* may have read the clock that long ago.  "ended" is a loop that returned;
\* history: its job is the one whose claim shutdown cancelled too late.
Thread == [pc: {"idle", "executing", "finishing", "ended"},
           job: Jobs \cup {NoJob}, attempt: Nat, age: Nat, left: Nat,
           result: Results, stuck: BOOLEAN]

Idle == [pc |-> "idle", job |-> NoJob, attempt |-> 0, age |-> 0, left |-> 0,
         result |-> "ok", stuck |-> FALSE]

Ended == [Idle EXCEPT !.pc = "ended"]

Busy(t) == thread[t].pc \in {"executing", "finishing"}

Init ==
    /\ jobs = [j \in Jobs |-> NoRow]
    /\ process = [w \in Workers |-> "off"]
    /\ thread = [t \in Threads |-> Idle]
    /\ delivered = {}
    /\ faults = 0

Fault == faults < MaxFaults /\ faults' = faults + 1

-----------------------------------------------------------------------------
\* Enqueue: the producer's transaction commits and the row appears.
Enqueue(j) ==
    /\ jobs[j].status = "absent"
    /\ \E delay \in 0..StartDelay :
          jobs' = [jobs EXCEPT ![j] =
                     [NoRow EXCEPT !.status = "pending", !.runAt = delay,
                                   !.payload = TRUE]]
    /\ UNCHANGED <<process, thread, delivered, faults>>

-----------------------------------------------------------------------------
\* What w.now() returned, a while ago.
Reading(w, wait) == Skew[w] - wait

\* Not the code: the boundary is inclusive, a lease ends one instant early.
RunnableAtTimeout(j, now) ==
    \/ jobs[j].status = "pending" /\ jobs[j].runAt <= now
    \/ jobs[j].status = "running" /\ jobs[j].lockedAt <= now - LockTimeout

\* Not the code: running rows are never reclaimed.
RunnableIfPending(j, now) ==
    jobs[j].status = "pending" /\ jobs[j].runAt <= now

\* The WHERE clause of claimSQL, with $2 = now and $3 = LockTimeout.
Runnable(j, now) ==
    \/ jobs[j].status = "pending" /\ jobs[j].runAt <= now
    \/ jobs[j].status = "running" /\ jobs[j].lockedAt < now - LockTimeout

\* ORDER BY run_at, id; beyond RunHorizon the order is no longer known.
Before(i, j) ==
    \/ jobs[i].runAt < jobs[j].runAt
    \/ jobs[i].runAt = jobs[j].runAt /\ i < j /\ jobs[i].runAt > -RunHorizon

\* FOR UPDATE SKIP LOCKED LIMIT 1: the first runnable row whose row lock is
\* free.  The statement each other goroutine has in flight may hold one.
Claimable(j, now) ==
    /\ Runnable(j, now)
    /\ Cardinality({i \in Jobs : Runnable(i, now) /\ Before(i, j)})
          < Cardinality(Threads)

\* Not the code: reclaiming a row does not renew its locked_at.
ClaimedUnrenewed(row, w, now) ==
    [row EXCEPT !.status = "running", !.lockedBy = w, !.attempts = @ + 1,
                !.lockedAt = IF row.status = "running" THEN @ ELSE now]

\* The SET clause of claimSQL.
Claimed(row, w, now) ==
    [row EXCEPT !.status = "running", !.lockedBy = w, !.lockedAt = now,
                !.attempts = @ + 1]

\* claimSQL of a goroutine whose w.now() is wait old: the row is locked with
\* the instant that was read, not with that of the commit.
Takes(t, j, wait) ==
    /\ thread[t].pc = "idle"
    /\ wait <= thread[t].age
    /\ Claimable(j, Reading(Owner(t), wait))
    /\ jobs' = [jobs EXCEPT ![j] =
                  Claimed(@, Owner(t), Reading(Owner(t), wait))]

\* processOne claims a job and executes it.  The reply may use up the rest of
\* ClaimDelay before execute starts the JobTimeout.
Claim(t, j) ==
    \E wait \in 0..ClaimDelay :
       /\ process[Owner(t)] = "up"
       /\ Takes(t, j, wait)
       /\ thread' = [thread EXCEPT ![t] =
                       [Idle EXCEPT !.pc = "executing", !.job = j,
                                    !.attempt = jobs[j].attempts + 1,
                                    !.age = wait,
                                    !.left = ClaimDelay - wait + JobTimeout]]
       /\ UNCHANGED <<process, delivered, faults>>

\* The claim commits but its reply is lost with the connection: processOne
\* returns an error and runs nothing.
ClaimLost(t, j) ==
    \E wait \in 0..ClaimDelay :
       /\ process[Owner(t)] = "up"
       /\ Takes(t, j, wait)
       /\ Fault
       /\ thread' = [thread EXCEPT ![t] = Idle]
       /\ UNCHANGED <<process, delivered>>

\* Shutdown cancels claimCtx while the claim is under way, and the claim
\* commits nevertheless: its row is locked, its loop returns.
ClaimCancelled(t, j) ==
    \E wait \in 0..ClaimDelay :
       /\ process[Owner(t)] = "stopping"
       /\ Takes(t, j, wait)
       /\ thread' = [thread EXCEPT ![t] =
                       [Ended EXCEPT !.job = j,
                                     !.attempt = jobs[j].attempts + 1]]
       /\ UNCHANGED <<process, delivered, faults>>

\* execute returns: the handler's nil or error, a recovered panic, a context
\* that ended (all "error"), Permanent, or the unknown type's permanent error.
Return(t, r) ==
    /\ thread[t].pc = "executing"
    /\ thread[t].job \in UnknownJobs => r = "permanent"
    /\ thread' = [thread EXCEPT ![t].pc = "finishing", ![t].result = r,
                                ![t].left = FinishTimeout]
    /\ delivered' = IF r = "ok" THEN delivered \cup {thread[t].job}
                                ELSE delivered
    /\ UNCHANGED <<jobs, process, faults>>

-----------------------------------------------------------------------------
\* Not the code: the guard is the row's status instead of its owner.
OwnsRunningRow(t) == jobs[thread[t].job].status = "running"

\* WHERE id = $1 AND locked_by = $2 of the three outcome statements.
OwnsLease(t) == jobs[thread[t].job].lockedBy = Owner(t)

\* locked_at = NULL, locked_by = NULL, in all three of them.
Released(row) == [row EXCEPT !.lockedBy = Nobody, !.lockedAt = Never]

\* completed_at = $3, payload = NULL.
Completed(row) == [Released(row) EXCEPT !.completed = TRUE, !.payload = FALSE]

Succeeded(row) ==
    [Completed(row) EXCEPT !.status = "succeeded", !.lastError = FALSE]

Failed(row) ==
    [Completed(row) EXCEPT !.status = "failed", !.lastError = TRUE]

\* Not the code: a retry has a status of its own, unknown to the table's CHECK.
RetriedApart(row, now) ==
    [Released(row) EXCEPT !.status = "retrying", !.lastError = TRUE,
                          !.runAt = now + RetryDelay]

Retried(row, now) ==
    [Released(row) EXCEPT !.status = "pending", !.lastError = TRUE,
                          !.runAt = now + RetryDelay]

\* Not the code: one attempt too many.
ExhaustedLate(t) == thread[t].attempt > MaxAttempts[thread[t].job]

\* job.Attempts >= job.MaxAttempts, on the attempts this goroutine scanned.
Exhausted(t) == thread[t].attempt >= MaxAttempts[thread[t].job]

\* The statement finish runs for the result at hand.  It has read the clock
\* when it began, FinishTimeout - left ago.
Outcome(t) ==
    LET row == jobs[thread[t].job]
        now == Reading(Owner(t), FinishTimeout - thread[t].left)
    IN  IF thread[t].result = "ok" THEN Succeeded(row)
        ELSE IF thread[t].result = "permanent" \/ Exhausted(t)
             THEN Failed(row)
             ELSE Retried(row, now)

\* The loop goes round, or returns once ctx is cancelled.
Loop(t) == IF process[Owner(t)] = "up" THEN Idle ELSE Ended

\* finish: records the outcome, or finds the lease lost (no row matches).
Finish(t) ==
    /\ thread[t].pc = "finishing"
    /\ jobs' = IF OwnsLease(t)
               THEN [jobs EXCEPT ![thread[t].job] = Outcome(t)]
               ELSE jobs
    /\ thread' = [thread EXCEPT ![t] = Loop(t)]
    /\ UNCHANGED <<process, delivered, faults>>

\* The outcome statement fails: the loop logs it and goes on, or returns.
FinishLost(t) ==
    /\ thread[t].pc = "finishing"
    /\ Fault
    /\ thread' = [thread EXCEPT ![t] = Loop(t)]
    /\ UNCHANGED <<jobs, process, delivered>>

\* The goroutine is not scheduled, or its handler ignores its context: from
\* here on no timeout bounds it.
Stall(t) ==
    /\ Busy(t)
    /\ ~thread[t].stuck
    /\ Fault
    /\ thread' = [thread EXCEPT ![t].stuck = TRUE]
    /\ UNCHANGED <<jobs, process, delivered>>

-----------------------------------------------------------------------------
ThreadsOf(w) == {t \in Threads : Owner(t) = w}
Drop(w) == [t \in Threads |-> IF Owner(t) = w THEN Ended ELSE thread[t]]

\* NewWorker and Run.
Start(w) ==
    /\ process[w] = "off"
    /\ process' = [process EXCEPT ![w] = "up"]
    /\ UNCHANGED <<jobs, thread, delivered, faults>>

\* ctx is cancelled: nothing more is claimed, handlers go on.
Shutdown(w) ==
    /\ process[w] = "up"
    /\ process' = [process EXCEPT ![w] = "stopping"]
    /\ UNCHANGED <<jobs, thread, delivered, faults>>

\* ShutdownTimeout passed with a job in flight: cancelJobs.
CancelJobs(w) ==
    /\ process[w] = "stopping"
    /\ \E t \in ThreadsOf(w) : Busy(t)
    /\ process' = [process EXCEPT ![w] = "cancelled"]
    /\ UNCHANGED <<jobs, thread, delivered, faults>>

\* Not the code: Run returns without waiting for its goroutines.
ExitAtOnce(w) ==
    /\ process[w] \in {"stopping", "cancelled"}
    /\ process' = [process EXCEPT ![w] = "down"]
    /\ thread' = Drop(w)
    /\ UNCHANGED <<jobs, delivered, faults>>

\* wg.Wait returned, Run returns: idle goroutines notice ctx at once.
Exit(w) ==
    /\ process[w] \in {"stopping", "cancelled"}
    /\ \A t \in ThreadsOf(w) : ~Busy(t)
    /\ process' = [process EXCEPT ![w] = "down"]
    /\ thread' = [t \in Threads |->
                    IF Owner(t) = w /\ thread[t].pc = "idle" THEN Ended
                                                             ELSE thread[t]]
    /\ UNCHANGED <<jobs, delivered, faults>>

\* cancelGracePeriod passed too, which is shorter than the FinishTimeout: Run
\* returns, and the process ends with the goroutines it abandons.
Abandon(w) ==
    /\ process[w] = "cancelled"
    /\ \E t \in ThreadsOf(w) : Busy(t)
    /\ process' = [process EXCEPT ![w] = "abandoned"]
    /\ thread' = Drop(w)
    /\ UNCHANGED <<jobs, delivered, faults>>

\* The process dies; the rows it locked stay as they are.
Crash(w) ==
    /\ process[w] \in {"up", "stopping", "cancelled"}
    /\ Fault
    /\ process' = [process EXCEPT ![w] = "down"]
    /\ thread' = Drop(w)
    /\ UNCHANGED <<jobs, delivered>>

-----------------------------------------------------------------------------
Older(offset, bound) == IF offset > -bound THEN offset - 1 ELSE offset

Aged(row) ==
    CASE row.status = "pending" ->
             [row EXCEPT !.runAt = Older(@, RunHorizon)]
      [] row.status = "running" ->
             [row EXCEPT !.runAt = Older(@, RunHorizon),
                         !.lockedAt = Older(@, Horizon)]
      [] OTHER -> row

\* A goroutine grows older: it works, or it may be waiting for its claim.
Later(t) ==
    IF Busy(t)
    THEN [thread[t] EXCEPT !.age = IF @ <= LockTimeout THEN @ + 1 ELSE @,
                           !.left = IF @ > 0 THEN @ - 1 ELSE @]
    ELSE IF thread[t].pc = "idle" /\ process[Owner(t)] # "off"
    THEN [thread[t] EXCEPT !.age = IF @ < ClaimDelay THEN @ + 1 ELSE @]
    ELSE thread[t]

\* One unit of time passes.  A goroutine no fault has struck keeps its
\* deadlines: the handler obeys JobTimeout, the outcome FinishTimeout.
Tick ==
    /\ \A t \in Threads : Busy(t) /\ ~thread[t].stuck => thread[t].left > 0
    /\ jobs' = [j \in Jobs |-> Aged(jobs[j])]
    /\ thread' = [t \in Threads |-> Later(t)]
    /\ UNCHANGED <<process, delivered, faults>>

-----------------------------------------------------------------------------
ThreadStep(t) ==
    \/ \E j \in Jobs : Claim(t, j)
    \/ \E j \in Jobs : ClaimLost(t, j)
    \/ \E j \in Jobs : ClaimCancelled(t, j)
    \/ \E r \in Results : Return(t, r)
    \/ Finish(t)
    \/ FinishLost(t)
    \/ Stall(t)

ProcessStep(w) ==
    \/ Start(w)
    \/ Shutdown(w)
    \/ CancelJobs(w)
    \/ Exit(w)
    \/ Abandon(w)
    \/ Crash(w)

Next ==
    \/ \E j \in Jobs : Enqueue(j)
    \/ \E t \in Threads : ThreadStep(t)
    \/ \E w \in Workers : ProcessStep(w)
    \/ Tick

Spec == Init /\ [][Next]_vars

\* Time passes, a started worker keeps polling, a goroutine that is not stuck
\* returns and records, and the supervisor starts every worker.  Nothing is
\* assumed of faults, shutdown, producers or stuck goroutines.
Fairness ==
    /\ WF_vars(Tick)
    /\ \A w \in Workers : WF_vars(Start(w))
    /\ \A t \in Threads :
          /\ WF_vars(\E j \in Jobs : Claim(t, j))
          /\ WF_vars(/\ ~thread[t].stuck
                     /\ Finish(t) \/ \E r \in Results : Return(t, r))

FairSpec == Spec /\ Fairness

-----------------------------------------------------------------------------
\* Types of the table, the processes and the goroutines.
TypeOK ==
    /\ jobs \in [Jobs -> Row]
    /\ process \in [Workers -> {"off", "up", "stopping", "cancelled",
                                "abandoned", "down"}]
    /\ thread \in [Threads -> Thread]
    /\ delivered \subseteq Jobs
    /\ faults \in 0..MaxFaults

\* What each status promises of the other columns (package comment, jobs.go:
\* payloads are cleared once a job reaches a terminal state, and not before a
\* worker may still need them; a lock is held exactly while running; a
\* terminal row says when it ended and a failed one why).
RowShape ==
    \A j \in Jobs :
       LET row == jobs[j]
       IN  /\ row.status = "absent" => row.attempts = 0
           /\ row.payload <=> row.status \in {"pending", "running"}
           /\ row.lockedBy # Nobody <=> row.status = "running"
           /\ row.completed <=> row.status \in Terminal
           /\ row.status = "failed" => row.lastError
           /\ row.status = "succeeded" => ~row.lastError

\* A lease matches the guard of a goroutine's outcome statement only if it is
\* the lease that goroutine took: locked_by identifies the attempt.
LeaseNamesAttempt ==
    \A t \in Threads :
       Busy(t) /\ OwnsLease(t) =>
          jobs[thread[t].job].attempts = thread[t].attempt

\* A goroutine whose lease is not older than LockTimeout, counted from the
\* clock reading it was taken with, still has it.
LeaseHolds ==
    \A t \in Threads :
       Busy(t) /\ thread[t].age <= LockTimeout =>
          LET row == jobs[thread[t].job]
          IN  /\ row.status = "running"
              /\ row.lockedBy = Owner(t)
              /\ row.attempts = thread[t].attempt
              /\ row.lockedAt = -thread[t].age

\* A lease that is not older than LockTimeout excludes every other goroutine
\* (docs/database.md: concurrent workers never execute the same job; a row is
\* reclaimed when its lock is older than JOBS_LOCK_TIMEOUT).
LeaseExclusive ==
    \A s, t \in Threads :
       /\ s # t
       /\ Busy(s) /\ thread[s].age <= LockTimeout
       /\ Busy(t) /\ thread[t].age <= LockTimeout
       => thread[s].job # thread[t].job

\* A row says succeeded only if a handler returned nil for it, whatever
\* outcomes other goroutines brought for the same job.
SuccessWasEarned ==
    \A j \in Jobs : jobs[j].status = "succeeded" => j \in delivered

\* A goroutine that is busy works on a job, and reports success only after the
\* handler returned nil.
ThreadShape ==
    \A t \in Threads :
       /\ Busy(t) => thread[t].job \in Jobs
       /\ thread[t].pc = "finishing" /\ thread[t].result = "ok" =>
             thread[t].job \in delivered

\* A job waits for a retry only while it has attempts left (package comment:
\* retried up to max_attempts and then marked failed).
RetriesAreBounded ==
    \A j \in Jobs :
       jobs[j].status = "pending" => jobs[j].attempts < MaxAttempts[j]

\* The inductive invariant behind the lease properties: what the age of a
\* lease says of its row, and what the row's locked_by says of the attempt.
LeaseInv ==
    /\ ThreadShape
    /\ LeaseNamesAttempt
    /\ LeaseHolds
    /\ RetriesAreBounded

\* The attempt a goroutine took, or took too late, is the one its row names.
TookLease(t) ==
    LET row == jobs[thread[t].job]
    IN  /\ row.status = "running"
        /\ row.lockedBy = Owner(t)
        /\ row.attempts = thread[t].attempt

\* When no fault happens, whoever executes a job holds its lease until the
\* outcome is recorded, so that no job is executed twice at a time, and a row
\* is running only while somebody works on it, apart from what shutdown leaves
\* locked: the job of a claim it cancelled too late, and those of a worker
\* that abandoned its handlers (Run waits for its goroutines, finish does not
\* depend on a context that shutdown cancelled).  It needs LockTimeout >=
\* ClaimDelay + JobTimeout + FinishTimeout, and more if clocks differ, which
\* Config.validate does not ask for; nothing in the code bounds ClaimDelay.
FaultFreeLease ==
    faults = 0 =>
       /\ \A t \in Threads : Busy(t) => TookLease(t)
       /\ \A s, t \in Threads :
             s # t /\ Busy(s) /\ Busy(t) => thread[s].job # thread[t].job
       /\ \A j \in Jobs : jobs[j].status = "running" =>
             \/ \E t \in Threads : /\ Busy(t) \/ thread[t].pc = "ended"
                                   /\ thread[t].job = j
                                   /\ TookLease(t)
             \/ process[jobs[j].lockedBy] = "abandoned"

\* A terminal row never changes again: no claim takes it, no late outcome of a
\* stale goroutine overwrites it.
TerminalIsFinal ==
    [][\A j \in Jobs :
          jobs[j].status \in Terminal => jobs'[j] = jobs[j]]_vars

\* A goroutine whose job was reclaimed changes nothing (comment of finish:
\* a job reclaimed after a lock timeout is never overwritten).
StaleOutcomeDiscarded ==
    [][\A t \in Threads :
          LET j == thread[t].job
          IN  /\ thread[t].pc = "finishing"
              /\ thread'[t].pc # "finishing"
              /\ jobs'[j] # jobs[j]
              => jobs[j].attempts = thread[t].attempt]_vars

\* Every enqueued job ends succeeded or failed, whatever faults and shutdowns
\* happen, if one goroutine of one worker lasts.
EventuallyTerminal ==
    (\E t \in Threads : <>[](process[Owner(t)] = "up" /\ ~thread[t].stuck)) =>
       \A j \in Jobs :
          jobs[j].status = "pending" ~> jobs[j].status \in Terminal

\* The table, seen as statuses and leases, behaves as the package promises.
Lifecycle == INSTANCE JobLifecycle
                WITH status <- [j \in Jobs |-> jobs[j].status],
                     lease <- [j \in Jobs |-> jobs[j].attempts]

LifecycleSpec == Lifecycle!Spec
=============================================================================
