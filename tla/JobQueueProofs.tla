--------------------------- MODULE JobQueueProofs ---------------------------
(***************************************************************************)
(* Proofs about JobQueue, for every set of jobs and workers, all timeouts  *)
(* and any number of faults.                                               *)
(***************************************************************************)
EXTENDS JobQueue, TLAPS

-----------------------------------------------------------------------------
(* What the statements of the package do to one row. *)

\* Every statement yields a well-typed row.
LEMMA RowTypes ==
    ASSUME NEW row \in Row, NEW w \in Workers, NEW now \in Int
    PROVE  /\ Claimed(row, w, now) \in Row
           /\ Succeeded(row) \in Row
           /\ Failed(row) \in Row
           /\ Retried(row, now) \in Row
<1>1. RetryDelay \in Int
    BY JobAssumption
<1>2. Claimed(row, w, now) \in Row
    <2>1. row.attempts + 1 \in Nat
        BY DEF Row
    <2> QED
        BY <2>1 DEF Claimed, Row, Status
<1>3. Released(row) \in Row
    <2>1. Never \in Int
        BY DEF Never
    <2> QED
        BY <2>1 DEF Released, Row
<1>4. Completed(row) \in Row
    BY <1>3 DEF Completed, Row
<1>5. Succeeded(row) \in Row /\ Failed(row) \in Row
    BY <1>4 DEF Succeeded, Failed, Row, Status, Terminal
<1>6. Retried(row, now) \in Row
    <2>1. now + RetryDelay \in Int
        BY <1>1
    <2> QED
        BY <1>3, <2>1 DEF Retried, Row, Status
<1> QED
    BY <1>2, <1>5, <1>6

\* Time leaves a row well-typed.
LEMMA AgedType ==
    ASSUME NEW row \in Row
    PROVE  Aged(row) \in Row
<1>1. /\ Older(row.runAt, RunHorizon) \in Int
      /\ Older(row.lockedAt, Horizon) \in Int
    BY JobAssumption DEF Older, Row
<1>2. [row EXCEPT !.runAt = Older(row.runAt, RunHorizon)] \in Row
    BY <1>1 DEF Row
<1>3. [row EXCEPT !.runAt = Older(row.runAt, RunHorizon),
                  !.lockedAt = Older(row.lockedAt, Horizon)] \in Row
    BY <1>1 DEF Row
<1> QED
    BY <1>2, <1>3 DEF Aged

\* A goroutine belongs to a worker and is named by it when it is the only one.
LEMMA Owners ==
    /\ \A t \in Threads : Owner(t) \in Workers
    /\ Concurrency = 1 => \A s, t \in Threads : Owner(s) = Owner(t) => s = t
BY DEF Threads, Owner

\* A row that is not there yet is well-typed.
LEMMA NoRowType == NoRow \in Row
BY DEF NoRow, Row, Status, Never

\* An idle goroutine is well-typed, and so is one whose loop has returned.
LEMMA IdleType == Idle \in Thread /\ Ended \in Thread
BY JobAssumption DEF Idle, Ended, Thread, Results, NoJob

\* So is a goroutine after its outcome; neither is busy.
LEMMA LoopType ==
    ASSUME NEW t
    PROVE  Loop(t) \in Thread /\ Loop(t).pc \in {"idle", "ended"}
BY IdleType DEF Loop, Idle, Ended

\* A clock reading is an instant.
LEMMA ReadingType ==
    ASSUME NEW w \in Workers, NEW wait \in Int
    PROVE  Reading(w, wait) \in Int
BY JobAssumption DEF Reading

\* The outcome of a goroutine is one of the three statements on its row.
LEMMA OutcomeType ==
    ASSUME TypeOK, NEW t \in Threads, thread[t].job \in Jobs
    PROVE  Outcome(t) \in Row
<1>1. jobs[thread[t].job] \in Row /\ Owner(t) \in Workers
    BY Owners DEF TypeOK
<1>2. Reading(Owner(t), FinishTimeout - thread[t].left) \in Int
    BY <1>1, ReadingType, JobAssumption DEF TypeOK, Thread
<1> QED
    BY <1>1, <1>2, RowTypes DEF Outcome

\* A claim of either ending locks one row under the reading it carries.
LEMMA TakesRow ==
    ASSUME TypeOK, NEW t \in Threads, NEW j \in Jobs,
           NEW wait \in 0..ClaimDelay, Takes(t, j, wait)
    PROVE  /\ thread[t].pc = "idle" /\ ~Busy(t) /\ Owner(t) \in Workers
           /\ Reading(Owner(t), wait) \in Int
           /\ Runnable(j, Reading(Owner(t), wait))
           /\ jobs'[j] = Claimed(jobs[j], Owner(t), Reading(Owner(t), wait))
           /\ \A i \in Jobs \ {j} : jobs'[i] = jobs[i]
           /\ jobs' \in [Jobs -> Row]
           /\ jobs[j].attempts + 1 \in Nat
<1>1. Owner(t) \in Workers /\ wait \in Int
    BY Owners, JobAssumption
<1>2. Reading(Owner(t), wait) \in Int
    BY <1>1, ReadingType
<1>3. Claimed(jobs[j], Owner(t), Reading(Owner(t), wait)) \in Row
    BY <1>1, <1>2, RowTypes DEF TypeOK
<1> QED
    BY <1>1, <1>2, <1>3 DEF Takes, Claimable, Busy, TypeOK, Row

\* The faults stay within their bound.
LEMMA FaultType == TypeOK /\ Fault => faults' \in 0..MaxFaults
BY JobAssumption DEF TypeOK, Fault

-----------------------------------------------------------------------------
(* Type correctness. *)

LEMMA InitType == Init => TypeOK
BY JobAssumption, NoRowType, IdleType DEF Init, TypeOK

LEMMA NextType == TypeOK /\ ThreadShape /\ [Next]_vars => TypeOK'
<1> SUFFICES ASSUME TypeOK, ThreadShape, [Next]_vars
             PROVE  TypeOK'
    OBVIOUS
<1> USE JobAssumption
<1>1. ASSUME NEW j \in Jobs, Enqueue(j) PROVE TypeOK'
    <2>1. ASSUME NEW delay \in 0..StartDelay
          PROVE  [NoRow EXCEPT !.status = "pending", !.runAt = delay,
                               !.payload = TRUE] \in Row
        <3>1. delay \in Int
            OBVIOUS
        <3> QED
            BY <3>1, NoRowType DEF Row, Status
    <2>2. jobs' \in [Jobs -> Row]
        <3>1. PICK delay \in 0..StartDelay :
                 jobs' = [jobs EXCEPT ![j] =
                            [NoRow EXCEPT !.status = "pending", !.runAt = delay,
                                          !.payload = TRUE]]
            BY <1>1 DEF Enqueue
        <3>2. jobs \in [Jobs -> Row]
            BY DEF TypeOK
        <3> HIDE DEF NoRow
        <3> QED
            BY <2>1, <3>1, <3>2
    <2> QED
        BY <1>1, <2>2 DEF TypeOK, Enqueue
<1>2. ASSUME NEW t \in Threads, NEW j \in Jobs, Claim(t, j) PROVE TypeOK'
    <2>1. PICK wait \in 0..ClaimDelay :
             /\ Takes(t, j, wait)
             /\ thread' = [thread EXCEPT ![t] =
                             [Idle EXCEPT !.pc = "executing", !.job = j,
                                          !.attempt = jobs[j].attempts + 1,
                                          !.age = wait,
                                          !.left = ClaimDelay - wait + JobTimeout]]
             /\ UNCHANGED <<process, delivered, faults>>
        BY <1>2 DEF Claim
    <2>2. /\ jobs[j].attempts + 1 \in Nat /\ jobs' \in [Jobs -> Row]
          /\ wait \in Nat /\ ClaimDelay - wait + JobTimeout \in Nat
        BY <2>1, TakesRow
    <2>3. [Idle EXCEPT !.pc = "executing", !.job = j,
                       !.attempt = jobs[j].attempts + 1, !.age = wait,
                       !.left = ClaimDelay - wait + JobTimeout] \in Thread
        BY <2>2, IdleType DEF Thread
    <2> QED
        BY <2>1, <2>2, <2>3 DEF TypeOK
<1>3. ASSUME NEW t \in Threads, NEW j \in Jobs,
             ClaimLost(t, j) \/ ClaimCancelled(t, j)
      PROVE  TypeOK'
    <2>1. jobs' \in [Jobs -> Row] /\ jobs[j].attempts + 1 \in Nat
        BY <1>3, TakesRow DEF ClaimLost, ClaimCancelled
    <2>2. [Ended EXCEPT !.job = j, !.attempt = jobs[j].attempts + 1] \in Thread
        BY <2>1, IdleType DEF Thread
    <2>3. thread' \in [Threads -> Thread] /\ UNCHANGED <<process, delivered>>
        BY <1>3, <2>2, IdleType DEF ClaimLost, ClaimCancelled, TypeOK
    <2>4. faults' \in 0..MaxFaults
        BY <1>3, FaultType DEF ClaimLost, ClaimCancelled, TypeOK
    <2> QED
        BY <2>1, <2>3, <2>4 DEF TypeOK
<1>4. ASSUME NEW t \in Threads, NEW r \in Results, Return(t, r) PROVE TypeOK'
    <2>1. [thread[t] EXCEPT !.pc = "finishing", !.result = r,
                            !.left = FinishTimeout] \in Thread
        <3>1. thread[t] \in Thread
            BY DEF TypeOK
        <3>2. FinishTimeout \in Nat
            OBVIOUS
        <3> QED
            BY <3>1, <3>2 DEF Thread
    <2>2. thread[t].job \in Jobs
        BY <1>4 DEF ThreadShape, Busy, Return
    <2> QED
        BY <1>4, <2>1, <2>2 DEF TypeOK, Return
<1>5. ASSUME NEW t \in Threads, Finish(t) PROVE TypeOK'
    <2>1. thread[t].job \in Jobs
        BY <1>5 DEF ThreadShape, Busy, Finish
    <2> QED
        BY <1>5, <2>1, OutcomeType, LoopType DEF TypeOK, Finish
<1>6. ASSUME NEW t \in Threads, FinishLost(t) PROVE TypeOK'
    <2>1. [thread EXCEPT ![t] = Loop(t)] \in [Threads -> Thread]
        BY LoopType DEF TypeOK
    <2> QED
        BY <1>6, <2>1, FaultType DEF TypeOK, FinishLost
<1>7. ASSUME NEW t \in Threads, Stall(t) PROVE TypeOK'
    <2>1. thread[t] \in Thread
        BY DEF TypeOK
    <2>2. [thread[t] EXCEPT !.stuck = TRUE] \in Thread
        BY <2>1 DEF Thread
    <2> QED
        BY <1>7, <2>2, FaultType DEF TypeOK, Stall
<1>8. ASSUME NEW w \in Workers, ProcessStep(w) PROVE TypeOK'
    <2>1. /\ Drop(w) \in [Threads -> Thread]
          /\ [t \in Threads |-> IF Owner(t) = w /\ thread[t].pc = "idle"
                               THEN Ended ELSE thread[t]] \in [Threads -> Thread]
        BY IdleType DEF Drop, TypeOK
    <2> QED
        BY <1>8, <2>1, FaultType
        DEF ProcessStep, Start, Shutdown, CancelJobs, Exit, Abandon, Crash,
            TypeOK
<1>9. CASE Tick
    <2>1. jobs' \in [Jobs -> Row]
        <3>1. ASSUME NEW j \in Jobs PROVE Aged(jobs[j]) \in Row
            BY AgedType DEF TypeOK
        <3> QED
            BY <1>9, <3>1 DEF Tick
    <2>2. thread' \in [Threads -> Thread]
        <3>1. ASSUME NEW t \in Threads
              PROVE  Later(t) \in Thread
            <4>1. /\ thread[t] \in Thread
                  /\ thread[t].age \in Nat
                  /\ thread[t].left \in Nat
                BY DEF TypeOK, Thread
            <4>2. /\ (IF thread[t].age <= LockTimeout
                       THEN thread[t].age + 1
                       ELSE thread[t].age) \in Nat
                  /\ (IF thread[t].age < ClaimDelay
                       THEN thread[t].age + 1
                       ELSE thread[t].age) \in Nat
                  /\ (IF thread[t].left > 0
                       THEN thread[t].left - 1
                       ELSE thread[t].left) \in Nat
                BY <4>1
            <4> QED
                BY <4>1, <4>2 DEF Thread, Later
        <3> QED
            BY <1>9, <3>1 DEF Tick, TypeOK
    <2> QED
        BY <1>9, <2>1, <2>2 DEF Tick, TypeOK
<1>10. CASE UNCHANGED vars
    BY <1>10 DEF vars, TypeOK
<1> QED
    BY <1>1, <1>2, <1>3, <1>4, <1>5, <1>6, <1>7, <1>8, <1>9, <1>10
    DEF Next, ThreadStep

\* Time changes nothing of a goroutine but its age and what it has left.
LEMMA LaterColumns ==
    ASSUME TypeOK, NEW s \in Threads
    PROVE  /\ Later(s).pc = thread[s].pc
           /\ Later(s).job = thread[s].job
           /\ Later(s).attempt = thread[s].attempt
           /\ Later(s).result = thread[s].result
           /\ Later(s).stuck = thread[s].stuck
BY DEF TypeOK, Thread, Later

\* A goroutine whose claim was lost does nothing.
LEMMA LostAtRest ==
    ASSUME TypeOK, NEW t \in Threads, NEW j \in Jobs,
           ClaimLost(t, j) \/ ClaimCancelled(t, j), NEW s \in Threads
    PROVE  /\ delivered' = delivered
           /\ thread'[s] = thread[s] \/ thread'[s].pc \in {"idle", "ended"}
<1> DEFINE Dropped == [Ended EXCEPT !.job = j, !.attempt = jobs[j].attempts + 1]
<1>1. PICK new \in {Idle, Dropped} : thread' = [thread EXCEPT ![t] = new]
    BY DEF ClaimLost, ClaimCancelled
<1>2. new.pc \in {"idle", "ended"}
    <2>1. Idle.pc = "idle" /\ Dropped.pc = "ended"
        BY DEF Idle, Ended
    <2> QED
        BY <2>1
<1> HIDE DEF Dropped
<1> QED
    BY <1>1, <1>2 DEF ClaimLost, ClaimCancelled, TypeOK

LEMMA InitThreadShape == Init => ThreadShape
BY DEF Init, ThreadShape, Busy, Idle

LEMMA NextThreadShape ==
    TypeOK /\ ThreadShape /\ [Next]_vars => ThreadShape'
<1> SUFFICES ASSUME TypeOK, ThreadShape, [Next]_vars,
                    NEW s \in Threads
             PROVE  /\ Busy(s)' => thread'[s].job \in Jobs
                    /\ thread'[s].pc = "finishing" /\ thread'[s].result = "ok"
                          => thread'[s].job \in delivered'
    BY DEF ThreadShape
<1> USE DEF Busy
<1>0. thread \in [Threads -> Thread] /\ thread[s] \in Thread
    BY DEF TypeOK
<1>s. /\ Busy(s) => thread[s].job \in Jobs
      /\ thread[s].pc = "finishing" /\ thread[s].result = "ok" =>
            thread[s].job \in delivered
    BY DEF ThreadShape
<1> DEFINE AtRest == thread'[s].pc \in {"idle", "ended"}
<1>1. CASE thread'[s] = thread[s] /\ delivered' = delivered
    BY <1>1, <1>s
<1>2. CASE AtRest
    BY <1>2
<1>3. ASSUME NEW t \in Threads, NEW j \in Jobs, Claim(t, j), s = t
      PROVE  /\ thread'[s].pc = "executing"
             /\ thread'[s].job = j
    BY <1>3, <1>0 DEF Claim, Idle
<1>4. ASSUME NEW t \in Threads, NEW r \in Results, Return(t, r)
      PROVE  /\ Busy(s)' => thread'[s].job \in Jobs
             /\ thread'[s].pc = "finishing" /\ thread'[s].result = "ok"
                   => thread'[s].job \in delivered'
    <2>1. CASE s # t
        <3>1. thread'[s] = thread[s] /\ delivered \subseteq delivered'
            BY <1>4, <2>1, <1>0 DEF Return
        <3> QED
            BY <3>1, <1>s
    <2>2. CASE s = t
        <3>1. /\ thread'[s].job = thread[s].job
              /\ thread'[s].result = r
              /\ thread[s].pc = "executing"
            BY <1>4, <2>2, <1>0 DEF Return, Thread
        <3>2. r = "ok" => thread[s].job \in delivered'
            BY <1>4, <2>2 DEF Return
        <3> QED
            BY <3>1, <3>2, <1>s
    <2> QED
        BY <2>1, <2>2
<1>5. ASSUME NEW t \in Threads, Stall(t)
      PROVE  /\ thread'[s].pc = thread[s].pc
             /\ thread'[s].job = thread[s].job
             /\ thread'[s].result = thread[s].result
             /\ delivered' = delivered
    BY <1>5, <1>0 DEF Stall, Thread
<1>6. ASSUME Tick
      PROVE  /\ thread'[s].pc = thread[s].pc
             /\ thread'[s].job = thread[s].job
             /\ thread'[s].result = thread[s].result
             /\ delivered' = delivered
    BY <1>6, LaterColumns DEF Tick
<1>7. ASSUME NEW t \in Threads, ThreadStep(t)
      PROVE  \/ thread'[s] = thread[s] /\ delivered' = delivered
             \/ AtRest
             \/ \E j \in Jobs : Claim(t, j) /\ s = t
             \/ \E r \in Results : Return(t, r)
             \/ Stall(t)
    <2>1. CASE \E j \in Jobs : Claim(t, j)
        BY <2>1, <1>0 DEF Claim
    <2>2. CASE \E j \in Jobs : ClaimLost(t, j) \/ ClaimCancelled(t, j)
        BY <2>2, <1>0, LostAtRest
    <2>3. CASE Finish(t) \/ FinishLost(t)
        BY <2>3, <1>0, LoopType DEF Finish, FinishLost
    <2> QED
        BY <1>7, <2>1, <2>2, <2>3 DEF ThreadStep
<1>8. ASSUME NEW w \in Workers, ProcessStep(w)
      PROVE  \/ thread'[s] = thread[s] /\ delivered' = delivered
             \/ AtRest
    BY <1>8, <1>0
    DEF Idle, Ended, ProcessStep, Start, Shutdown, CancelJobs, Exit, Abandon, Crash, Drop
<1>9. CASE UNCHANGED vars \/ \E j \in Jobs : Enqueue(j)
    BY <1>9, <1>1 DEF vars, Enqueue
<1> QED
    BY <1>1, <1>2, <1>3, <1>4, <1>5, <1>6, <1>7, <1>8, <1>9, <1>s DEF Next

\* The state has its types in every reachable state: in particular a goroutine
\* that reports success always leaves a trace in delivered, and a busy one
\* always names a job of the table.
THEOREM TypesHold == Spec => [](TypeOK /\ ThreadShape)
<1>1. Init => TypeOK /\ ThreadShape
    BY InitType, InitThreadShape
<1>2. TypeOK /\ ThreadShape /\ [Next]_vars => (TypeOK /\ ThreadShape)'
    BY NextType, NextThreadShape
<1> QED
    BY <1>1, <1>2, PTL DEF Spec

\* Every reachable state is well-typed.
THEOREM TypeCorrect == Spec => []TypeOK
BY TypesHold, PTL

-----------------------------------------------------------------------------
(* What a step does to one row. *)

Appears(j) ==
    /\ jobs[j].status = "absent"
    /\ \E delay \in 0..StartDelay :
          jobs'[j] = [NoRow EXCEPT !.status = "pending", !.runAt = delay,
                                   !.payload = TRUE]
    /\ thread' = thread

IsClaimed(j) ==
    \E t \in Threads : \E wait \in 0..ClaimDelay :
       /\ Runnable(j, Reading(Owner(t), wait))
       /\ ~Busy(t)
       /\ jobs'[j] = Claimed(jobs[j], Owner(t), Reading(Owner(t), wait))

IsRecorded(j) ==
    \E t \in Threads :
       /\ thread[t].pc = "finishing"
       /\ thread[t].job = j
       /\ OwnsLease(t)
       /\ jobs'[j] = Outcome(t)
       /\ Finish(t)

\* A row changes only by being inserted, claimed, given an outcome by the
\* worker that holds its lock, or growing older.
LEMMA RowSteps ==
    ASSUME TypeOK, ThreadShape, [Next]_vars, NEW j \in Jobs
    PROVE  \/ jobs'[j] = jobs[j]
           \/ Appears(j)
           \/ IsClaimed(j)
           \/ IsRecorded(j)
           \/ Tick /\ jobs'[j] = Aged(jobs[j])
<1>0. jobs \in [Jobs -> Row]
    BY DEF TypeOK
<1>1. ASSUME NEW i \in Jobs, Enqueue(i)
      PROVE  jobs'[j] = jobs[j] \/ Appears(j)
    BY <1>1, <1>0 DEF Enqueue, Appears
<1>2. ASSUME NEW t \in Threads, NEW i \in Jobs,
             Claim(t, i) \/ ClaimLost(t, i) \/ ClaimCancelled(t, i)
      PROVE  jobs'[j] = jobs[j] \/ IsClaimed(j)
    <2>1. PICK wait \in 0..ClaimDelay : Takes(t, i, wait)
        BY <1>2 DEF Claim, ClaimLost, ClaimCancelled
    <2> QED
        BY <2>1, TakesRow DEF IsClaimed
<1>3. ASSUME NEW t \in Threads, Finish(t)
      PROVE  jobs'[j] = jobs[j] \/ IsRecorded(j)
    BY <1>3, <1>0 DEF Finish, IsRecorded
<1>4. ASSUME NEW t \in Threads,
             \/ \E r \in Results : Return(t, r)
             \/ FinishLost(t)
             \/ Stall(t)
      PROVE  jobs'[j] = jobs[j]
    BY <1>4 DEF Return, FinishLost, Stall
<1>5. ASSUME NEW w \in Workers, ProcessStep(w)
      PROVE  jobs'[j] = jobs[j]
    BY <1>5
    DEF ProcessStep, Start, Shutdown, CancelJobs, Exit, Abandon, Crash
<1>6. CASE Tick
    BY <1>6 DEF Tick
<1>7. CASE UNCHANGED vars
    BY <1>7 DEF vars
<1> QED
    BY <1>1, <1>2, <1>3, <1>4, <1>5, <1>6, <1>7 DEF Next, ThreadStep

\* The columns after each statement.
LEMMA Columns ==
    ASSUME NEW row \in Row, NEW w, NEW now
    PROVE  /\ Claimed(row, w, now).status = "running"
           /\ Claimed(row, w, now).lockedBy = w
           /\ Claimed(row, w, now).attempts = row.attempts + 1
           /\ Claimed(row, w, now).lockedAt = now
           /\ Claimed(row, w, now).payload = row.payload
           /\ Claimed(row, w, now).completed = row.completed
           /\ Claimed(row, w, now).lastError = row.lastError
           /\ Succeeded(row).status = "succeeded"
           /\ Failed(row).status = "failed"
           /\ Retried(row, now).status = "pending"
           /\ Succeeded(row).attempts = row.attempts
           /\ Failed(row).attempts = row.attempts
           /\ Retried(row, now).attempts = row.attempts
           /\ Succeeded(row).lockedBy = Nobody
           /\ Failed(row).lockedBy = Nobody
           /\ Retried(row, now).lockedBy = Nobody
           /\ Succeeded(row).completed /\ ~Succeeded(row).payload
           /\ Failed(row).completed /\ ~Failed(row).payload
           /\ Retried(row, now).completed = row.completed
           /\ Retried(row, now).payload = row.payload
           /\ ~Succeeded(row).lastError
           /\ Failed(row).lastError
           /\ Aged(row).status = row.status
           /\ Aged(row).lockedBy = row.lockedBy
           /\ Aged(row).attempts = row.attempts
           /\ Aged(row).payload = row.payload
           /\ Aged(row).completed = row.completed
           /\ Aged(row).lastError = row.lastError
BY DEF Claimed, Succeeded, Failed, Retried, Completed, Released, Aged, Row

-----------------------------------------------------------------------------
(* The shape of a row, and that its end is final. *)

LEMMA InitRowShape == Init => RowShape
BY DEF Init, RowShape, NoRow, Terminal

LEMMA NextRowShape ==
    TypeOK /\ ThreadShape /\ RowShape /\ [Next]_vars => RowShape'
<1> DEFINE Shape(row) ==
       /\ row.status = "absent" => row.attempts = 0
       /\ row.payload <=> row.status \in {"pending", "running"}
       /\ row.lockedBy # Nobody <=> row.status = "running"
       /\ row.completed <=> row.status \in Terminal
       /\ row.status = "failed" => row.lastError
       /\ row.status = "succeeded" => ~row.lastError
<1> SUFFICES ASSUME TypeOK, ThreadShape, RowShape, [Next]_vars,
                    NEW j \in Jobs
             PROVE  Shape(jobs'[j])
    BY DEF RowShape
<1>0. jobs[j] \in Row /\ Shape(jobs[j])
    BY DEF TypeOK, RowShape
<1>1. CASE jobs'[j] = jobs[j]
    BY <1>1, <1>0
<1>2. CASE Appears(j)
    BY <1>2 DEF Appears, NoRow, Terminal
<1>3. CASE IsClaimed(j)
    <2>1. PICK t \in Threads, now \in {Reading(Owner(s), wait) :
                                        s \in Threads, wait \in 0..ClaimDelay} :
             /\ Runnable(j, now)
             /\ jobs'[j] = Claimed(jobs[j], Owner(t), now)
        BY <1>3 DEF IsClaimed
    <2>2. jobs[j].status \in {"pending", "running"}
        BY <2>1 DEF Runnable
    <2>3. Owner(t) \in Workers /\ Owner(t) # Nobody
        BY Owners, JobAssumption
    <2> QED
        BY <1>0, <2>1, <2>2, <2>3, Columns DEF Terminal
<1>4. CASE IsRecorded(j)
    <2>1. PICK t \in Threads : /\ thread[t].job = j
                               /\ OwnsLease(t)
                               /\ jobs'[j] = Outcome(t)
        BY <1>4 DEF IsRecorded
    <2>2. Owner(t) \in Workers /\ Owner(t) # Nobody
        BY Owners, JobAssumption
    <2>3. jobs[j].status = "running"
        BY <2>1, <2>2, <1>0 DEF OwnsLease
    <2>4. \E now : jobs'[j] \in {Succeeded(jobs[j]), Failed(jobs[j]),
                                  Retried(jobs[j], now)}
        BY <2>1 DEF Outcome
    <2> QED
        BY <1>0, <2>2, <2>3, <2>4, Columns DEF Terminal
<1>5. CASE jobs'[j] = Aged(jobs[j])
    <2>1. /\ Aged(jobs[j]).status = jobs[j].status
          /\ Aged(jobs[j]).attempts = jobs[j].attempts
          /\ Aged(jobs[j]).lockedBy = jobs[j].lockedBy
          /\ Aged(jobs[j]).payload = jobs[j].payload
          /\ Aged(jobs[j]).completed = jobs[j].completed
          /\ Aged(jobs[j]).lastError = jobs[j].lastError
        BY <1>0 DEF Aged, Row
    <2> QED
        BY <1>5, <1>0, <2>1
<1> QED
    BY <1>1, <1>2, <1>3, <1>4, <1>5, RowSteps

\* Every row has the shape its status promises: payloads are gone from
\* terminal rows and present in all others, and exactly running rows are locked.
THEOREM RowsAreShaped == Spec => []RowShape
<1>1. Init => RowShape
    BY InitRowShape
<1>2. TypeOK /\ ThreadShape /\ RowShape /\ [Next]_vars => RowShape'
    BY NextRowShape
<1> QED
    BY <1>1, <1>2, TypesHold, PTL DEF Spec

LEMMA TerminalStep ==
    TypeOK /\ ThreadShape /\ RowShape /\ [Next]_vars =>
       \A j \in Jobs : jobs[j].status \in Terminal => jobs'[j] = jobs[j]
<1> SUFFICES ASSUME TypeOK, ThreadShape, RowShape, [Next]_vars,
                    NEW j \in Jobs, jobs[j].status \in Terminal
             PROVE  jobs'[j] = jobs[j]
    OBVIOUS
<1>0. /\ jobs[j].status \notin {"absent", "pending", "running"}
      /\ jobs[j].lockedBy = Nobody
    BY DEF RowShape, Terminal
<1>1. ~Appears(j)
    BY <1>0 DEF Appears
<1>2. ~IsClaimed(j)
    BY <1>0 DEF IsClaimed, Runnable
<1>3. ~IsRecorded(j)
    <2>1. \A t \in Threads : thread[t].job = j => ~OwnsLease(t)
        BY <1>0, Owners, JobAssumption DEF OwnsLease
    <2> QED
        BY <2>1 DEF IsRecorded
<1>4. Aged(jobs[j]) = jobs[j]
    BY <1>0 DEF Aged
<1> QED
    BY <1>1, <1>2, <1>3, <1>4, RowSteps

\* For any number of workers, goroutines and faults, and whatever the clocks
\* and timeouts: a row that ended never changes again.
THEOREM TerminalRowsAreFinal == Spec => TerminalIsFinal
<1>1. TypeOK /\ ThreadShape /\ RowShape /\ [Next]_vars =>
         [\A j \in Jobs :
             jobs[j].status \in Terminal => jobs'[j] = jobs[j]]_vars
    BY TerminalStep
<1> QED
    BY <1>1, TypesHold, RowsAreShaped, PTL DEF Spec, TerminalIsFinal

LEMMA SuccessStep ==
    TypeOK /\ ThreadShape /\ SuccessWasEarned /\ [Next]_vars =>
       SuccessWasEarned'
<1> SUFFICES ASSUME TypeOK, ThreadShape, SuccessWasEarned, [Next]_vars,
                    NEW j \in Jobs, jobs'[j].status = "succeeded"
             PROVE  j \in delivered'
    BY DEF SuccessWasEarned
<1>0. jobs[j] \in Row /\ (jobs[j].status = "succeeded" => j \in delivered)
    BY DEF TypeOK, SuccessWasEarned
<1>1. delivered \subseteq delivered'
    BY DEF Next, ThreadStep, ProcessStep, Enqueue, Claim, ClaimLost,
           ClaimCancelled, Return, Finish, FinishLost, Stall, Start, Shutdown, CancelJobs, Exit,
           Abandon, Crash, Tick, vars
<1>2. CASE jobs'[j] = jobs[j]
    BY <1>0, <1>1, <1>2
<1>3. CASE Appears(j)
    BY <1>3 DEF Appears, NoRow
<1>4. CASE IsClaimed(j)
    BY <1>4, <1>0, Columns, Owners DEF IsClaimed
<1>5. CASE IsRecorded(j)
    <2>1. PICK t \in Threads : /\ thread[t].pc = "finishing"
                               /\ thread[t].job = j
                               /\ jobs'[j] = Outcome(t)
        BY <1>5 DEF IsRecorded
    <2>2. thread[t].result = "ok"
        BY <1>0, <2>1, Columns, Owners DEF Outcome
    <2> QED
        BY <2>1, <2>2, <1>1 DEF ThreadShape
<1>6. CASE jobs'[j] = Aged(jobs[j])
    <2>1. Aged(jobs[j]).status = jobs[j].status
        BY <1>0 DEF Aged, Row
    <2> QED
        BY <1>6, <2>1, <1>0, <1>1
<1> QED
    BY <1>2, <1>3, <1>4, <1>5, <1>6, RowSteps

\* A row says succeeded only if a handler returned nil for it.
THEOREM SuccessIsEarned == Spec => []SuccessWasEarned
<1>1. Init => SuccessWasEarned
    BY DEF Init, SuccessWasEarned, NoRow
<1>2. TypeOK /\ ThreadShape /\ SuccessWasEarned /\ [Next]_vars =>
         SuccessWasEarned'
    BY SuccessStep
<1> QED
    BY <1>1, <1>2, TypesHold, PTL DEF Spec

-----------------------------------------------------------------------------
(* Leases, when every worker runs one goroutine.                           *)

\* A goroutine that is busy after a step was busy on the same attempt before,
\* or has just claimed its job.
LEMMA ThreadSteps ==
    ASSUME TypeOK, [Next]_vars, NEW s \in Threads, Busy(s)'
    PROVE  \/ /\ Busy(s)
              /\ thread'[s].job = thread[s].job
              /\ thread'[s].attempt = thread[s].attempt
              /\ Tick \/ thread'[s].age = thread[s].age
           \/ \E j \in Jobs : Claim(s, j)
<1>0. /\ thread \in [Threads -> Thread]
      /\ thread[s] \in Thread
      /\ thread'[s].pc \notin {"idle", "ended"}
    BY DEF TypeOK, Busy
<1> DEFINE Keeps == /\ Busy(s)
                    /\ thread'[s].job = thread[s].job
                    /\ thread'[s].attempt = thread[s].attempt
                    /\ Tick \/ thread'[s].age = thread[s].age
<1>1. CASE thread'[s] = thread[s]
    BY <1>1, <1>0 DEF Busy
<1>2. ASSUME NEW t \in Threads, NEW r \in Results, Return(t, r)
      PROVE  Keeps
    BY <1>2, <1>0 DEF Return, Busy, Thread
<1>3. ASSUME NEW t \in Threads, Stall(t)
      PROVE  Keeps
    BY <1>3, <1>0 DEF Stall, Busy, Thread
<1>4. ASSUME Tick
      PROVE  Keeps
    BY <1>4, <1>0, LaterColumns DEF Tick, Busy
<1>5. ASSUME NEW t \in Threads, ThreadStep(t)
      PROVE  \/ thread'[s] = thread[s]
             \/ \E j \in Jobs : Claim(s, j)
             \/ \E r \in Results : Return(t, r)
             \/ Stall(t)
    <2>1. CASE \E j \in Jobs : Claim(t, j)
        <3>1. CASE t = s
            BY <2>1, <3>1, Zenon
        <3>2. CASE t # s
            <4>1. PICK v : thread' = [thread EXCEPT ![t] = v]
                BY <2>1 DEF Claim
            <4> QED
                BY <1>0, <3>2, <4>1
        <3> QED
            BY <3>1, <3>2
    <2>2. CASE \E j \in Jobs : ClaimLost(t, j) \/ ClaimCancelled(t, j)
        BY <2>2, <1>0, LostAtRest
    <2>3. CASE Finish(t) \/ FinishLost(t)
        BY <2>3, <1>0, LoopType DEF Finish, FinishLost
    <2> QED
        BY <1>5, <2>1, <2>2, <2>3 DEF ThreadStep
<1>6. ASSUME NEW w \in Workers, ProcessStep(w)
      PROVE  thread'[s] = thread[s]
    BY <1>6, <1>0
    DEF ProcessStep, Start, Shutdown, CancelJobs, Exit, Abandon, Crash, Drop,
        Idle, Ended
<1>7. CASE UNCHANGED vars \/ \E j \in Jobs : Enqueue(j)
    BY <1>7, <1>1 DEF vars, Enqueue
<1> QED
    BY <1>1, <1>2, <1>3, <1>4, <1>5, <1>6, <1>7 DEF Next

\* The effect of one's own claim.
LEMMA OwnClaim ==
    ASSUME TypeOK, NEW s \in Threads, NEW j \in Jobs, Claim(s, j)
    PROVE  \E wait \in 0..ClaimDelay :
              /\ thread'[s].pc = "executing"
              /\ thread'[s].job = j
              /\ thread'[s].attempt = jobs[j].attempts + 1
              /\ thread'[s].age = wait
              /\ thread'[s].left = ClaimDelay - wait + JobTimeout
              /\ ~thread'[s].stuck
              /\ Takes(s, j, wait)
              /\ jobs'[j] = Claimed(jobs[j], Owner(s), Reading(Owner(s), wait))
              /\ \A t \in Threads \ {s} : thread'[t] = thread[t]
<1>1. PICK wait \in 0..ClaimDelay :
         /\ Takes(s, j, wait)
         /\ thread' = [thread EXCEPT ![s] =
                         [Idle EXCEPT !.pc = "executing", !.job = j,
                                      !.attempt = jobs[j].attempts + 1,
                                      !.age = wait,
                                      !.left = ClaimDelay - wait + JobTimeout]]
    BY DEF Claim
<1>2. thread \in [Threads -> Thread]
    BY DEF TypeOK
<1> QED
    BY <1>1, <1>2, TakesRow DEF Idle

LEMMA AttemptStep ==
    ASSUME Concurrency = 1
    PROVE  TypeOK /\ ThreadShape /\ LeaseNamesAttempt /\ [Next]_vars =>
              LeaseNamesAttempt'
<1> SUFFICES ASSUME TypeOK, ThreadShape, LeaseNamesAttempt, [Next]_vars,
                    NEW s \in Threads, Busy(s)', OwnsLease(s)'
             PROVE  jobs'[thread'[s].job].attempts = thread'[s].attempt
    BY DEF LeaseNamesAttempt
<1>0. Owner(s) \in Workers /\ Owner(s) # Nobody
    BY Owners, JobAssumption
<1>1. ASSUME NEW j \in Jobs, Claim(s, j)
      PROVE  jobs'[thread'[s].job].attempts = thread'[s].attempt
    <2>1. jobs[j] \in Row
        BY DEF TypeOK
    <2> QED
        BY <1>0, <1>1, <2>1, OwnClaim, Columns
<1>2. ASSUME Busy(s), thread'[s].job = thread[s].job,
             thread'[s].attempt = thread[s].attempt
      PROVE  jobs'[thread'[s].job].attempts = thread'[s].attempt
    <2> DEFINE j == thread[s].job
    <2>1. j \in Jobs /\ jobs[j] \in Row
        BY <1>2 DEF ThreadShape, TypeOK
    <2>2. /\ jobs[j].lockedBy = Owner(s) =>
                jobs[j].attempts = thread[s].attempt
          /\ jobs'[j].lockedBy = Owner(s)
        BY <1>2 DEF LeaseNamesAttempt, OwnsLease
    <2>3. ~Appears(j)
        BY <2>2, <1>0 DEF Appears, NoRow
    <2>4. ~IsClaimed(j)
        <3>1. ASSUME NEW t \in Threads, ~Busy(t), NEW now,
                     jobs'[j] = Claimed(jobs[j], Owner(t), now)
              PROVE  FALSE
            BY <1>2, <2>1, <2>2, <3>1, Owners, Columns
        <3> QED
            BY <3>1 DEF IsClaimed
    <2>5. ~IsRecorded(j)
        <3>1. ASSUME NEW t \in Threads, thread[t].job = j,
                     jobs'[j] = Outcome(t)
              PROVE  FALSE
            <4>1. jobs'[j].lockedBy = Nobody
                BY <2>1, <3>1, Owners, Columns DEF Outcome
            <4> QED
                BY <4>1, <2>2, <1>0
        <3> QED
            BY <3>1 DEF IsRecorded
    <2>6. /\ Aged(jobs[j]).lockedBy = jobs[j].lockedBy
          /\ Aged(jobs[j]).attempts = jobs[j].attempts
        BY <2>1 DEF Aged, Row
    <2> QED
        BY <1>2, <2>1, <2>2, <2>3, <2>4, <2>5, <2>6, RowSteps
<1> QED
    BY <1>1, <1>2, ThreadSteps

LEMMA InitAttempts == Init => LeaseNamesAttempt /\ RetriesAreBounded
BY DEF Init, LeaseNamesAttempt, RetriesAreBounded, Busy, Idle, NoRow

\* With one goroutine per worker, locked_by names the attempt: a goroutine's
\* outcome statement matches its row only under the lease it took itself.
\* Clocks and timeouts do not matter.
THEOREM LocksNameAttempts ==
    ASSUME Concurrency = 1
    PROVE  Spec => []LeaseNamesAttempt
<1>1. Init => LeaseNamesAttempt
    BY InitAttempts
<1>2. TypeOK /\ ThreadShape /\ LeaseNamesAttempt /\ [Next]_vars =>
         LeaseNamesAttempt'
    BY AttemptStep
<1> QED
    BY <1>1, <1>2, TypesHold, PTL DEF Spec

\* Then no stale outcome overwrites what a later lease did.
THEOREM StaleOutcomesAreDiscarded ==
    ASSUME Concurrency = 1
    PROVE  Spec => StaleOutcomeDiscarded
<1> DEFINE Discards ==
       \A t \in Threads :
          LET j == thread[t].job
          IN  /\ thread[t].pc = "finishing"
              /\ thread'[t].pc # "finishing"
              /\ jobs'[j] # jobs[j]
              => jobs[j].attempts = thread[t].attempt
<1>1. TypeOK /\ ThreadShape /\ LeaseNamesAttempt /\ [Next]_vars =>
         [Discards]_vars
    <2> SUFFICES ASSUME TypeOK, ThreadShape, LeaseNamesAttempt, [Next]_vars,
                        NEW t \in Threads, thread[t].pc = "finishing",
                        thread'[t].pc # "finishing",
                        jobs'[thread[t].job] # jobs[thread[t].job]
                 PROVE  jobs[thread[t].job].attempts = thread[t].attempt
        OBVIOUS
    <2>0. /\ thread[t].job \in Jobs
          /\ thread \in [Threads -> Thread]
          /\ jobs \in [Jobs -> Row]
        BY DEF TypeOK, ThreadShape, Busy
    <2>1. ASSUME NEW j \in Jobs, Enqueue(j) PROVE FALSE
        BY <2>1 DEF Enqueue
    <2>2. ASSUME NEW s \in Threads, ThreadStep(s) PROVE Finish(t)
        BY <2>0, <2>2
        DEF ThreadStep, Claim, ClaimLost, ClaimCancelled, Takes, Return, Finish,
            FinishLost, Stall
    <2>3. ASSUME NEW w \in Workers, ProcessStep(w) PROVE FALSE
        BY <2>3 DEF ProcessStep, Start, Shutdown, CancelJobs, Exit, Abandon,
                    Crash
    <2>4. CASE Tick
        <3>1. thread'[t].pc = thread[t].pc
            BY <2>4, LaterColumns DEF Tick
        <3> QED
            BY <3>1
    <2>5. CASE UNCHANGED vars
        BY <2>5 DEF vars
    <2>6. Finish(t) => OwnsLease(t)
        BY DEF Finish
    <2> QED
        BY <2>1, <2>2, <2>3, <2>4, <2>5, <2>6
        DEF Next, LeaseNamesAttempt, Busy
<1> QED
    BY <1>1, TypesHold, LocksNameAttempts, PTL
    DEF Spec, StaleOutcomeDiscarded

LEMMA RetryStep ==
    TypeOK /\ ThreadShape /\ LeaseNamesAttempt /\ RetriesAreBounded
       /\ [Next]_vars => RetriesAreBounded'
<1> SUFFICES ASSUME TypeOK, ThreadShape, LeaseNamesAttempt, RetriesAreBounded,
                    [Next]_vars,
                    NEW j \in Jobs, jobs'[j].status = "pending"
             PROVE  jobs'[j].attempts < MaxAttempts[j]
    BY DEF RetriesAreBounded
<1>0. /\ jobs[j] \in Row
      /\ jobs[j].status = "pending" => jobs[j].attempts < MaxAttempts[j]
    BY DEF TypeOK, RetriesAreBounded
<1>1. CASE jobs'[j] = jobs[j]
    BY <1>0, <1>1
<1>2. CASE Appears(j)
    <2>1. jobs'[j].attempts = 0
        BY <1>2 DEF Appears, NoRow
    <2> QED
        BY <2>1, JobAssumption
<1>3. CASE IsClaimed(j)
    BY <1>3, <1>0, Columns, Owners DEF IsClaimed
<1>4. CASE IsRecorded(j)
    <2>1. PICK t \in Threads : /\ thread[t].pc = "finishing"
                               /\ thread[t].job = j
                               /\ OwnsLease(t)
                               /\ jobs'[j] = Outcome(t)
        BY <1>4 DEF IsRecorded
    <2>2. PICK now : jobs'[j] = Retried(jobs[j], now) /\ ~Exhausted(t)
        <3> DEFINE read == Reading(Owner(t), FinishTimeout - thread[t].left)
        <3>1. \/ jobs'[j] \in {Succeeded(jobs[j]), Failed(jobs[j])}
              \/ jobs'[j] = Retried(jobs[j], read) /\ ~Exhausted(t)
            BY <2>1 DEF Outcome
        <3> HIDE DEF read
        <3>2. /\ Succeeded(jobs[j]).status # "pending"
              /\ Failed(jobs[j]).status # "pending"
            BY <1>0, Columns
        <3> QED
            BY <3>1, <3>2
    <2>3. jobs[j].attempts = thread[t].attempt
        BY <2>1 DEF LeaseNamesAttempt, Busy
    <2>4. thread[t].attempt \in Nat /\ MaxAttempts[j] \in Nat
        BY JobAssumption DEF TypeOK, Thread
    <2>5. jobs'[j].attempts = jobs[j].attempts
        BY <1>0, <2>2, Columns
    <2> QED
        BY <2>1, <2>2, <2>3, <2>4, <2>5 DEF Exhausted
<1>5. CASE jobs'[j] = Aged(jobs[j])
    <2>1. /\ Aged(jobs[j]).status = jobs[j].status
          /\ Aged(jobs[j]).attempts = jobs[j].attempts
        BY <1>0 DEF Aged, Row
    <2> QED
        BY <1>5, <2>1, <1>0
<1> QED
    BY <1>1, <1>2, <1>3, <1>4, <1>5, RowSteps

\* Then too a row waits for a retry only while it has attempts left.
THEOREM RetriesStayBounded ==
    ASSUME Concurrency = 1
    PROVE  Spec => []RetriesAreBounded
<1>1. Init => RetriesAreBounded
    BY InitAttempts
<1>2. TypeOK /\ ThreadShape /\ LeaseNamesAttempt /\ RetriesAreBounded
         /\ [Next]_vars => RetriesAreBounded'
    BY RetryStep
<1> QED
    BY <1>1, <1>2, TypesHold, LocksNameAttempts, PTL DEF Spec

-----------------------------------------------------------------------------
(* Leases in time, when moreover every clock is exact. *)

LEMMA LeaseStep ==
    ASSUME Concurrency = 1, \A w \in Workers : Skew[w] = 0
    PROVE  TypeOK /\ ThreadShape /\ LeaseHolds /\ [Next]_vars => LeaseHolds'
<1> DEFINE Holds(row, o, n, age) ==
       /\ row.status = "running"
       /\ row.lockedBy = o
       /\ row.attempts = n
       /\ row.lockedAt = -age
<1> SUFFICES ASSUME TypeOK, ThreadShape, LeaseHolds, [Next]_vars,
                    NEW s \in Threads, Busy(s)', thread'[s].age <= LockTimeout
             PROVE  Holds(jobs'[thread'[s].job], Owner(s),
                          thread'[s].attempt, thread'[s].age)
    BY DEF LeaseHolds
<1>0. /\ Owner(s) \in Workers /\ Owner(s) # Nobody
      /\ thread \in [Threads -> Thread] /\ thread[s] \in Thread
      /\ LockTimeout \in Nat /\ Horizon \in Nat /\ LockTimeout < Horizon
    BY Owners, JobAssumption DEF TypeOK
<1>1. ASSUME NEW j \in Jobs, Claim(s, j)
      PROVE  Holds(jobs'[j], Owner(s), thread'[s].attempt, thread'[s].age)
             /\ thread'[s].job = j
    <2>1. jobs[j] \in Row
        BY DEF TypeOK
    <2>2. PICK wait \in 0..ClaimDelay :
             /\ thread'[s].job = j
             /\ thread'[s].attempt = jobs[j].attempts + 1
             /\ thread'[s].age = wait
             /\ jobs'[j] = Claimed(jobs[j], Owner(s), Reading(Owner(s), wait))
        BY <1>1, OwnClaim
    <2>3. Reading(Owner(s), wait) = -wait
        BY <1>0 DEF Reading
    <2> QED
        BY <2>1, <2>2, <2>3, Columns
<1>2. ASSUME Busy(s), thread'[s].job = thread[s].job,
             thread'[s].attempt = thread[s].attempt,
             Tick \/ thread'[s].age = thread[s].age
      PROVE  Holds(jobs'[thread'[s].job], Owner(s),
                   thread'[s].attempt, thread'[s].age)
    <2> DEFINE j == thread[s].job
    <2>1. j \in Jobs /\ jobs[j] \in Row /\ thread[s].age \in Nat
        BY <1>0, <1>2 DEF ThreadShape, TypeOK, Thread
    <2>2. thread[s].age <= LockTimeout
        <3>1. CASE Tick
            BY <1>0, <1>2, <2>1, <3>1 DEF Tick, Later, Thread
        <3> QED
            BY <1>2, <3>1
    <2>3. Holds(jobs[j], Owner(s), thread[s].attempt, thread[s].age)
        BY <1>2, <2>2 DEF LeaseHolds
    <2>4. CASE Tick
        <3>1. jobs'[j] = [jobs[j] EXCEPT !.runAt = Older(@, RunHorizon),
                                         !.lockedAt = Older(@, Horizon)]
            BY <2>1, <2>3, <2>4 DEF Tick, Aged
        <3>2. thread'[s].age = thread[s].age + 1
            BY <1>0, <1>2, <2>1, <2>2, <2>4 DEF Tick, Later, Thread
        <3>3. Older(jobs[j].lockedAt, Horizon) = -(thread[s].age + 1)
            BY <1>0, <2>1, <2>2, <2>3 DEF Older
        <3>4. /\ jobs'[j].status = jobs[j].status
              /\ jobs'[j].lockedBy = jobs[j].lockedBy
              /\ jobs'[j].attempts = jobs[j].attempts
              /\ jobs'[j].lockedAt = Older(jobs[j].lockedAt, Horizon)
            BY <2>1, <3>1 DEF Row
        <3> QED
            BY <1>2, <2>3, <3>2, <3>3, <3>4
    <2>5. ~Appears(j)
        BY <2>3 DEF Appears
    <2>6. ~IsClaimed(j)
        <3>1. ASSUME NEW t \in Threads, NEW wait \in 0..ClaimDelay,
                     Runnable(j, Reading(Owner(t), wait))
              PROVE  FALSE
            <4>1. Reading(Owner(t), wait) = -wait /\ wait \in Nat
                BY Owners DEF Reading
            <4> QED
                BY <1>0, <2>1, <2>2, <2>3, <3>1, <4>1 DEF Runnable
        <3> QED
            BY <3>1 DEF IsClaimed
    <2>7. ASSUME IsRecorded(j)
          PROVE  FALSE
        <3>1. PICK t \in Threads : OwnsLease(t) /\ thread[t].job = j
                                   /\ Finish(t)
            BY <2>7 DEF IsRecorded
        <3>2. t = s
            BY <2>3, <3>1, Owners DEF OwnsLease
        <3>3. thread'[s] = Loop(s)
            BY <1>0, <3>1, <3>2 DEF Finish
        <3> QED
            BY <3>3, LoopType DEF Busy
    <2> QED
        BY <1>2, <2>1, <2>3, <2>4, <2>5, <2>6, <2>7, RowSteps
<1> QED
    BY <1>1, <1>2, ThreadSteps

\* With one goroutine per worker and exact clocks, a goroutine whose lease is
\* not older than LockTimeout still holds it, whatever faults happen: the
\* inductive invariant of the run JobQueueOne, for every value of the constants.
THEOREM LeasesHold ==
    ASSUME Concurrency = 1, \A w \in Workers : Skew[w] = 0
    PROVE  Spec => []LeaseInv
<1>1. Init => LeaseHolds
    BY DEF Init, LeaseHolds, Busy, Idle
<1>2. TypeOK /\ ThreadShape /\ LeaseHolds /\ [Next]_vars => LeaseHolds'
    BY LeaseStep
<1>3. ThreadShape /\ LeaseNamesAttempt /\ LeaseHolds /\ RetriesAreBounded
      => LeaseInv
    BY DEF LeaseInv
<1> QED
    BY <1>1, <1>2, <1>3, TypesHold, LocksNameAttempts, RetriesStayBounded, PTL
    DEF Spec

\* Therefore two goroutines execute one job at the same time only when the
\* lease of one of them is older than LockTimeout.
THEOREM LeasesExclude ==
    ASSUME Concurrency = 1, \A w \in Workers : Skew[w] = 0
    PROVE  Spec => []LeaseExclusive
<1>1. LeaseInv => LeaseExclusive
    BY Owners DEF LeaseInv, LeaseHolds, LeaseExclusive
<1> QED
    BY <1>1, LeasesHold, PTL

-----------------------------------------------------------------------------
(* Leases when nothing fails, for any number of goroutines and any clocks  *)
(* that the lock outlasts.                                                 *)

\* The lock outlasts the claim, the job, its outcome and the difference of two
\* clocks.  The first of them is what the code does not bound.
LockOutlasts ==
    \A v, w \in Workers :
       ClaimDelay + JobTimeout + FinishTimeout + Skew[w] - Skew[v] <= LockTimeout

\* What a lease may last, from the reading it was taken with.
Allowance(pc) ==
    IF pc = "executing" THEN ClaimDelay + JobTimeout
                        ELSE ClaimDelay + JobTimeout + FinishTimeout

\* A goroutine that no fault has struck keeps its deadlines: what it has spent
\* and what it has left make up what it is given.
OnTime(self) ==
    /\ ~self.stuck
    /\ self.age + self.left <= Allowance(self.pc)

\* The row is locked as the goroutine's claim left it.
LockedFor(row, o, self) ==
    /\ row.status = "running"
    /\ row.lockedBy = o
    /\ row.attempts = self.attempt
    /\ row.lockedAt = Skew[o] - self.age

\* Nobody is late or has lost a lease, no two goroutines work on one job, and
\* somebody works on each that runs or shutdown has left it so.
NothingLate == \A t \in Threads : Busy(t) => OnTime(thread[t])
AllLocked ==
    \A t \in Threads :
       Busy(t) => LockedFor(jobs[thread[t].job], Owner(t), thread[t])
NoneShared ==
    \A s, t \in Threads : s # t /\ Busy(s) /\ Busy(t) => thread[s].job # thread[t].job
Answers(t, j) ==
    /\ Busy(t) \/ thread[t].pc = "ended"
    /\ thread[t].job = j
    /\ TookLease(t)
NoneLeft ==
    \A j \in Jobs : jobs[j].status = "running" =>
       (\E t \in Threads : Answers(t, j)) \/ process[jobs[j].lockedBy] = "abandoned"

Undisturbed == NothingLate /\ AllLocked /\ NoneShared /\ NoneLeft
FaultFreeInv == faults = 0 => Undisturbed

\* The steps that are no faults.
QuietProcessStep(w) == Start(w) \/ Shutdown(w) \/ CancelJobs(w) \/ Exit(w) \/ Abandon(w)
QuietThreadStep(t) ==
    \/ \E j \in Jobs : Claim(t, j) \/ ClaimCancelled(t, j)
    \/ \E r \in Results : Return(t, r)
    \/ Finish(t)
QuietStep ==
    \/ \E j \in Jobs : Enqueue(j)
    \/ \E t \in Threads : QuietThreadStep(t)
    \/ \E w \in Workers : QuietProcessStep(w)
    \/ Tick
    \/ UNCHANGED vars

LEMMA FaultsStay ==
    ASSUME TypeOK, [Next]_vars, faults' = 0
    PROVE  faults = 0 /\ QuietStep
<1>1. faults \in Nat
    BY JobAssumption DEF TypeOK
<1>2. ~Fault
    BY <1>1 DEF Fault
<1>3. ASSUME NEW t \in Threads, ThreadStep(t)
      PROVE  faults' = faults /\ QuietThreadStep(t)
    BY <1>2, <1>3
    DEF ThreadStep, Claim, ClaimLost, ClaimCancelled, Return, Finish,
        FinishLost, Stall, QuietThreadStep
<1>4. ASSUME NEW w \in Workers, ProcessStep(w)
      PROVE  faults' = faults /\ QuietProcessStep(w)
    BY <1>2, <1>4
    DEF ProcessStep, Start, Shutdown, CancelJobs, Exit, Abandon, Crash,
        QuietProcessStep
<1>5. (\E j \in Jobs : Enqueue(j)) \/ Tick \/ UNCHANGED vars => faults' = faults
    BY DEF Enqueue, Tick, vars
<1> QED
    BY <1>3, <1>4, <1>5 DEF Next, QuietStep

\* What a goroutine on time may have spent, with the clocks it is judged by.
LEMMA Spent ==
    ASSUME LockOutlasts, TypeOK, Undisturbed, NEW t \in Threads, Busy(t),
           NEW w \in Workers
    PROVE  /\ Owner(t) \in Workers
           /\ Skew[w] \in Nat /\ Skew[Owner(t)] \in Nat
           /\ thread[t].age \in Nat /\ thread[t].left \in Nat
           /\ thread[t].age + thread[t].left + Skew[w] - Skew[Owner(t)] <= LockTimeout
<1>1. OnTime(thread[t]) /\ Owner(t) \in Workers
    BY Owners DEF Undisturbed, NothingLate
<1>2. /\ thread[t].age \in Nat /\ thread[t].left \in Nat
      /\ ClaimDelay \in Nat /\ JobTimeout \in Nat /\ FinishTimeout \in Nat
      /\ Skew[w] \in Nat /\ Skew[Owner(t)] \in Nat /\ LockTimeout \in Nat
    BY <1>1, JobAssumption DEF TypeOK, Thread
<1>3. thread[t].age + thread[t].left <= ClaimDelay + JobTimeout + FinishTimeout
    BY <1>1, <1>2 DEF OnTime, Allowance
<1>4. ClaimDelay + JobTimeout + FinishTimeout + Skew[w] - Skew[Owner(t)] <= LockTimeout
    BY <1>1 DEF LockOutlasts
<1> QED
    BY <1>1, <1>2, <1>3, <1>4

\* A job on which somebody works is not reclaimed: its goroutine is not late.
LEMMA NotReclaimed ==
    ASSUME LockOutlasts, TypeOK, Undisturbed,
           NEW j \in Jobs, NEW w \in Workers, NEW wait \in 0..ClaimDelay,
           Runnable(j, Reading(w, wait)),
           NEW t \in Threads, Busy(t)
    PROVE  thread[t].job # j
<1>1. SUFFICES ASSUME thread[t].job = j PROVE FALSE
    OBVIOUS
<1>2. LockedFor(jobs[j], Owner(t), thread[t])
    BY <1>1 DEF Undisturbed, AllLocked
<1>3. jobs[j].lockedAt < Reading(w, wait) - LockTimeout
    BY <1>2 DEF LockedFor, Runnable
<1>4. jobs[j].lockedAt = Skew[Owner(t)] - thread[t].age
    BY <1>2 DEF LockedFor
<1>5. /\ Skew[w] \in Nat /\ Skew[Owner(t)] \in Nat
      /\ thread[t].age \in Nat /\ thread[t].left \in Nat
      /\ thread[t].age + thread[t].left + Skew[w] - Skew[Owner(t)] <= LockTimeout
    BY Spent
<1>6. LockTimeout \in Nat /\ wait \in Nat
    BY JobAssumption
<1>7. Skew[Owner(t)] - thread[t].age < Skew[w] - wait - LockTimeout
    BY <1>3, <1>4 DEF Reading
<1> QED
    BY <1>5, <1>6, <1>7

\* Whoever answers for a job still does while neither his state nor the row
\* changes.
LEMMA StillAnswers ==
    ASSUME NEW t \in Threads, NEW j \in Jobs, Answers(t, j),
           jobs'[j] = jobs[j], thread'[t] = thread[t]
    PROVE  Answers(t, j)'
BY DEF Answers, TookLease, Busy

LEMMA EnqueueUndisturbed ==
    ASSUME TypeOK, ThreadShape, Undisturbed, NEW j \in Jobs, Enqueue(j)
    PROVE  Undisturbed'
<1> USE DEF Busy
<1>1. /\ thread' = thread /\ process' = process /\ jobs[j].status = "absent"
      /\ \A i \in Jobs \ {j} : jobs'[i] = jobs[i]
    BY DEF Enqueue, TypeOK
<1>2. jobs'[j].status = "pending"
    BY DEF Enqueue, TypeOK, NoRow
<1>3. \A t \in Threads : Busy(t) => thread[t].job \in Jobs \ {j}
    BY <1>1 DEF ThreadShape, Undisturbed, AllLocked, LockedFor
<1>4. NothingLate' /\ NoneShared'
    BY <1>1 DEF Undisturbed, NothingLate, NoneShared
<1>5. AllLocked'
    BY <1>1, <1>3 DEF Undisturbed, AllLocked
<1>6. NoneLeft'
    <2> SUFFICES ASSUME NEW i \in Jobs, jobs'[i].status = "running"
                 PROVE  \/ \E t \in Threads : Answers(t, i)'
                        \/ process'[jobs'[i].lockedBy] = "abandoned"
        BY DEF NoneLeft
    <2>1. jobs'[i] = jobs[i]
        BY <1>1, <1>2
    <2> QED
        BY <1>1, <2>1, StillAnswers DEF Undisturbed, NoneLeft
<1> QED
    BY <1>4, <1>5, <1>6 DEF Undisturbed

\* A row is locked for a goroutine that answers for it, and nobody worked on
\* it.
LEMMA TakesUndisturbed ==
    ASSUME LockOutlasts, TypeOK, ThreadShape, Undisturbed,
           NEW s \in Threads, NEW j \in Jobs, NEW wait \in 0..ClaimDelay,
           Takes(s, j, wait), process' = process,
           \A t \in Threads \ {s} : thread'[t] = thread[t],
           thread'[s].pc \in {"executing", "ended"},
           thread'[s].job = j, thread'[s].attempt = jobs[j].attempts + 1,
           thread'[s].pc = "executing" => OnTime(thread'[s]) /\ thread'[s].age = wait
    PROVE  Undisturbed'
<1> USE DEF Busy
<1>1. /\ thread[s].pc = "idle" /\ Owner(s) \in Workers
      /\ Runnable(j, Reading(Owner(s), wait))
      /\ jobs'[j] = Claimed(jobs[j], Owner(s), Reading(Owner(s), wait))
      /\ \A i \in Jobs \ {j} : jobs'[i] = jobs[i]
      /\ jobs[j] \in Row
    BY TakesRow DEF TypeOK
<1>2. \A t \in Threads : Busy(t) => thread[t].job \in Jobs \ {j}
    BY <1>1, NotReclaimed DEF ThreadShape
<1>3. /\ jobs'[j].status = "running" /\ jobs'[j].lockedBy = Owner(s)
      /\ jobs'[j].attempts = thread'[s].attempt
      /\ jobs'[j].lockedAt = Skew[Owner(s)] - wait
    BY <1>1, Columns DEF Reading
<1>4. NothingLate'
    BY DEF Undisturbed, NothingLate
<1>5. AllLocked'
    BY <1>1, <1>2, <1>3 DEF Undisturbed, AllLocked, LockedFor
<1>6. NoneShared'
    BY <1>2 DEF Undisturbed, NoneShared
<1>7. NoneLeft'
    <2> SUFFICES ASSUME NEW i \in Jobs, jobs'[i].status = "running"
                 PROVE  \/ \E t \in Threads : Answers(t, i)'
                        \/ process'[jobs'[i].lockedBy] = "abandoned"
        BY DEF NoneLeft
    <2>1. CASE i = j
        <3>1. Answers(s, j)'
            BY <1>3 DEF Answers, TookLease
        <3> QED
            BY <2>1, <3>1
    <2>2. CASE i # j
        <3>1. jobs'[i] = jobs[i]
            BY <1>1, <2>2
        <3>2. ASSUME NEW t \in Threads, Answers(t, i) PROVE t # s
            BY <1>1, <3>2 DEF Answers
        <3> QED
            BY <3>1, <3>2, StillAnswers DEF Undisturbed, NoneLeft
    <2> QED
        BY <2>1, <2>2
<1> QED
    BY <1>4, <1>5, <1>6, <1>7 DEF Undisturbed

LEMMA ClaimUndisturbed ==
    ASSUME LockOutlasts, TypeOK, ThreadShape, Undisturbed,
           NEW s \in Threads, NEW j \in Jobs, Claim(s, j)
    PROVE  Undisturbed'
<1>1. PICK wait \in 0..ClaimDelay :
         /\ thread'[s].pc = "executing"
         /\ thread'[s].job = j
         /\ thread'[s].attempt = jobs[j].attempts + 1
         /\ thread'[s].age = wait
         /\ thread'[s].left = ClaimDelay - wait + JobTimeout
         /\ ~thread'[s].stuck
         /\ Takes(s, j, wait)
         /\ \A t \in Threads \ {s} : thread'[t] = thread[t]
    BY OwnClaim
<1>2. OnTime(thread'[s])
    <2>1. wait + (ClaimDelay - wait + JobTimeout) = ClaimDelay + JobTimeout
          /\ ClaimDelay + JobTimeout \in Nat
        BY JobAssumption
    <2> QED
        BY <1>1, <2>1 DEF OnTime, Allowance
<1>3. process' = process
    BY DEF Claim
<1> QED
    BY <1>1, <1>2, <1>3, TakesUndisturbed

LEMMA CancelledUndisturbed ==
    ASSUME LockOutlasts, TypeOK, ThreadShape, Undisturbed,
           NEW s \in Threads, NEW j \in Jobs, ClaimCancelled(s, j)
    PROVE  Undisturbed'
<1>1. PICK wait \in 0..ClaimDelay :
         /\ Takes(s, j, wait)
         /\ thread' = [thread EXCEPT ![s] =
                         [Ended EXCEPT !.job = j,
                                       !.attempt = jobs[j].attempts + 1]]
         /\ process' = process
    BY DEF ClaimCancelled
<1>2. /\ thread'[s].pc = "ended" /\ thread'[s].job = j
      /\ thread'[s].attempt = jobs[j].attempts + 1
      /\ \A t \in Threads \ {s} : thread'[t] = thread[t]
    BY <1>1 DEF TypeOK, Ended, Idle
<1> QED
    BY <1>1, <1>2, TakesUndisturbed

LEMMA ReturnUndisturbed ==
    ASSUME TypeOK, ThreadShape, Undisturbed,
           NEW s \in Threads, NEW r \in Results, Return(s, r)
    PROVE  Undisturbed'
<1> USE DEF Busy
<1>1. /\ thread \in [Threads -> Thread] /\ \A t \in Threads \ {s} : thread'[t] = thread[t]
      /\ jobs' = jobs /\ process' = process /\ thread[s].pc = "executing"
    BY DEF Return, TypeOK
<1>2. /\ thread'[s].pc = "finishing" /\ thread'[s].left = FinishTimeout
      /\ thread'[s].job = thread[s].job /\ thread'[s].age = thread[s].age
      /\ thread'[s].stuck = thread[s].stuck /\ thread'[s].attempt = thread[s].attempt
    BY DEF Return, TypeOK, Thread
<1>3. NothingLate'
    <2>1. OnTime(thread[s])
        BY <1>1 DEF Undisturbed, NothingLate
    <2>2. /\ thread[s].age \in Nat /\ thread[s].left \in Nat
          /\ ClaimDelay \in Nat /\ JobTimeout \in Nat /\ FinishTimeout \in Nat
        BY JobAssumption DEF TypeOK, Thread
    <2>3. thread[s].age + thread[s].left <= ClaimDelay + JobTimeout
        BY <1>1, <2>1 DEF OnTime, Allowance
    <2>4. thread[s].age + FinishTimeout <= ClaimDelay + JobTimeout + FinishTimeout
        BY <2>2, <2>3
    <2>5. OnTime(thread'[s])
        BY <1>2, <2>1, <2>4 DEF OnTime, Allowance
    <2> QED
        BY <1>1, <2>5 DEF Undisturbed, NothingLate
<1>4. AllLocked'
    BY <1>1, <1>2 DEF Undisturbed, AllLocked, LockedFor
<1>5. NoneShared'
    BY <1>1, <1>2 DEF Undisturbed, NoneShared
<1>6. NoneLeft'
    <2>1. ASSUME NEW t \in Threads, NEW j \in Jobs, Answers(t, j) PROVE Answers(t, j)'
        BY <1>1, <1>2, <2>1 DEF Answers, TookLease
    <2> QED
        BY <1>1, <2>1 DEF Undisturbed, NoneLeft
<1> QED
    BY <1>3, <1>4, <1>5, <1>6 DEF Undisturbed

LEMMA FinishUndisturbed ==
    ASSUME TypeOK, ThreadShape, Undisturbed, NEW s \in Threads, Finish(s)
    PROVE  Undisturbed'
<1> USE DEF Busy
<1> DEFINE j == thread[s].job
<1>1. /\ thread \in [Threads -> Thread] /\ \A t \in Threads \ {s} : thread'[t] = thread[t]
      /\ thread'[s].pc \in {"idle", "ended"} /\ thread[s].pc = "finishing" /\ process' = process
    BY LoopType DEF Finish, TypeOK
<1>2. j \in Jobs /\ jobs[j] \in Row /\ Owner(s) \in Workers
    BY <1>1, Owners DEF ThreadShape, TypeOK
<1>3. OwnsLease(s)
    BY <1>1 DEF Undisturbed, AllLocked, LockedFor, OwnsLease
<1>4. jobs'[j] = Outcome(s) /\ \A i \in Jobs \ {j} : jobs'[i] = jobs[i]
    BY <1>2, <1>3 DEF Finish, TypeOK
<1>5. jobs'[j].status # "running"
    BY <1>2, <1>4, Columns DEF Outcome
<1>6. \A t \in Threads \ {s} : Busy(t) => thread[t].job \in Jobs \ {j}
    BY <1>1 DEF ThreadShape, Undisturbed, NoneShared
<1>7. NothingLate' /\ NoneShared'
    BY <1>1 DEF Undisturbed, NothingLate, NoneShared
<1>8. AllLocked'
    BY <1>1, <1>4, <1>6 DEF Undisturbed, AllLocked
<1>9. NoneLeft'
    <2> SUFFICES ASSUME NEW i \in Jobs, jobs'[i].status = "running"
                 PROVE  \/ \E t \in Threads : Answers(t, i)'
                        \/ process'[jobs'[i].lockedBy] = "abandoned"
        BY DEF NoneLeft
    <2>1. i # j /\ jobs'[i] = jobs[i]
        BY <1>4, <1>5
    <2>2. ASSUME NEW t \in Threads, Answers(t, i) PROVE t # s
        BY <2>1, <2>2 DEF Answers
    <2> QED
        BY <1>1, <2>1, <2>2, StillAnswers DEF Undisturbed, NoneLeft
<1> QED
    BY <1>7, <1>8, <1>9 DEF Undisturbed

LEMMA TickUndisturbed ==
    ASSUME LockOutlasts, TypeOK, ThreadShape, Undisturbed, Tick
    PROVE  Undisturbed'
<1> USE DEF Busy
<1>1. LockTimeout \in Nat /\ Horizon \in Nat /\ LockTimeout < Horizon
    BY JobAssumption
<1>2. ASSUME NEW t \in Threads
      PROVE  /\ thread'[t] = Later(t)
             /\ thread'[t].pc = thread[t].pc /\ thread'[t].job = thread[t].job
             /\ thread'[t].stuck = thread[t].stuck /\ thread'[t].attempt = thread[t].attempt
    BY LaterColumns DEF Tick
<1>3. ASSUME NEW t \in Threads, Busy(t)
      PROVE  /\ OnTime(thread[t]) /\ thread[t].left > 0
             /\ thread[t].age \in Nat /\ thread[t].left \in Nat
             /\ Skew[Owner(t)] \in Nat
             /\ thread[t].age < LockTimeout
    <2>1. OnTime(thread[t])
        BY <1>3 DEF Undisturbed, NothingLate
    <2>2. thread[t].left > 0
        BY <1>3, <2>1 DEF Tick, OnTime
    <2>3. Owner(t) \in Workers
        BY Owners
    <2>4. /\ Skew[Owner(t)] \in Nat
          /\ thread[t].age \in Nat /\ thread[t].left \in Nat
          /\ thread[t].age + thread[t].left + Skew[Owner(t)] - Skew[Owner(t)] <= LockTimeout
        BY <1>3, <2>3, Spent
    <2> QED
        BY <1>1, <2>1, <2>2, <2>4
<1>4. ASSUME NEW t \in Threads, Busy(t)
      PROVE  thread'[t].age = thread[t].age + 1 /\ thread'[t].left = thread[t].left - 1
    <2>1. thread[t].age <= LockTimeout /\ thread[t].left > 0
        BY <1>1, <1>3, <1>4
    <2>2. thread[t] \in Thread
        BY DEF TypeOK
    <2>3. Later(t) = [thread[t] EXCEPT !.age = thread[t].age + 1,
                                       !.left = thread[t].left - 1]
        BY <1>4, <2>1 DEF Later
    <2> QED
        BY <1>2, <2>2, <2>3 DEF Thread
<1>5. NothingLate'
    <2> SUFFICES ASSUME NEW t \in Threads, Busy(t) PROVE OnTime(thread'[t])
        BY <1>2 DEF NothingLate
    <2>1. thread'[t].age + thread'[t].left = thread[t].age + thread[t].left
        BY <1>3, <1>4
    <2> QED
        BY <1>2, <1>3, <2>1 DEF OnTime
<1>6. AllLocked'
    <2> SUFFICES ASSUME NEW t \in Threads, Busy(t)
                 PROVE  LockedFor(jobs'[thread[t].job], Owner(t), thread'[t])
        BY <1>2 DEF AllLocked
    <2> DEFINE j == thread[t].job
    <2>1. j \in Jobs /\ jobs[j] \in Row /\ LockedFor(jobs[j], Owner(t), thread[t])
        BY DEF ThreadShape, TypeOK, Undisturbed, AllLocked
    <2>2. jobs'[j] = [jobs[j] EXCEPT !.runAt = Older(jobs[j].runAt, RunHorizon),
                                     !.lockedAt = Older(jobs[j].lockedAt, Horizon)]
        BY <2>1 DEF Tick, Aged, LockedFor
    <2>3. /\ jobs'[j].status = jobs[j].status /\ jobs'[j].lockedBy = jobs[j].lockedBy
          /\ jobs'[j].attempts = jobs[j].attempts
          /\ jobs'[j].lockedAt = Older(jobs[j].lockedAt, Horizon)
        BY <2>1, <2>2 DEF Row
    <2>4. jobs[j].lockedAt = Skew[Owner(t)] - thread[t].age
        BY <2>1 DEF LockedFor
    <2>5. Older(jobs[j].lockedAt, Horizon) = Skew[Owner(t)] - (thread[t].age + 1)
        <3>1. thread[t].age < LockTimeout /\ thread[t].age \in Nat /\ Skew[Owner(t)] \in Nat
            BY <1>3
        <3>2. jobs[j].lockedAt > -Horizon
            BY <1>1, <2>4, <3>1
        <3> QED
            BY <2>4, <3>1, <3>2 DEF Older
    <2> QED
        BY <1>2, <1>4, <2>1, <2>3, <2>5 DEF LockedFor
<1>7. NoneShared'
    BY <1>2 DEF Undisturbed, NoneShared
<1>8. NoneLeft'
    <2>1. ASSUME NEW i \in Jobs
          PROVE  /\ jobs'[i].status = jobs[i].status /\ jobs'[i].lockedBy = jobs[i].lockedBy
                 /\ jobs'[i].attempts = jobs[i].attempts
        <3>1. jobs'[i] = Aged(jobs[i]) /\ jobs[i] \in Row
            BY DEF Tick, TypeOK
        <3> QED
            BY <3>1, Columns
    <2>2. ASSUME NEW t \in Threads, NEW i \in Jobs, Answers(t, i) PROVE Answers(t, i)'
        BY <1>2, <2>1, <2>2 DEF Answers, TookLease
    <2>3. process' = process
        BY DEF Tick
    <2> QED
        BY <2>1, <2>2, <2>3 DEF Undisturbed, NoneLeft
<1> QED
    BY <1>5, <1>6, <1>7, <1>8 DEF Undisturbed

\* Starting and stopping, the abandoned handlers included.
LEMMA ProcessUndisturbed ==
    ASSUME TypeOK, ThreadShape, RowShape, Undisturbed, NEW w \in Workers, QuietProcessStep(w)
    PROVE  Undisturbed'
<1> USE DEF Busy
<1>1. /\ jobs' = jobs /\ process \in [Workers -> {"off", "up", "stopping", "cancelled", "abandoned", "down"}]
      /\ process[w] # "abandoned" /\ \A v \in Workers \ {w} : process'[v] = process[v]
    BY DEF QuietProcessStep, Start, Shutdown, CancelJobs, Exit, Abandon, TypeOK
<1>2. \A t \in Threads : Busy(t)' => Busy(t) /\ thread'[t] = thread[t]
    BY DEF QuietProcessStep, Start, Shutdown, CancelJobs, Exit, Abandon, Drop, Ended, Idle
<1>3. NothingLate' /\ AllLocked' /\ NoneShared'
    BY <1>1, <1>2 DEF Undisturbed, NothingLate, AllLocked, NoneShared
<1>4. ASSUME NEW j \in Jobs, jobs[j].status = "running"
      PROVE  \/ \E t \in Threads : Answers(t, j)'
             \/ process'[jobs[j].lockedBy] = "abandoned"
    <2>1. CASE process[jobs[j].lockedBy] = "abandoned"
        <3>1. jobs[j].lockedBy \in Workers => process'[jobs[j].lockedBy] = "abandoned"
            BY <1>1, <2>1
        <3>2. jobs[j].lockedBy # Nobody
            BY <1>4 DEF RowShape
        <3> QED
            BY <3>1, <3>2 DEF TypeOK, Row
    <2>2. CASE \E t \in Threads : Answers(t, j)
        <3>1. PICK t \in Threads : Answers(t, j)
            BY <2>2
        <3>2. CASE thread'[t] = thread[t]
            BY <1>1, <3>1, <3>2, StillAnswers
        <3>3. CASE thread'[t] # thread[t]
            <4>1. Abandon(w) /\ Owner(t) = w
                BY <3>1, <3>3 DEF QuietProcessStep, Start, Shutdown, CancelJobs, Exit, Abandon, Drop, Answers
            <4>2. jobs[j].lockedBy = w
                BY <3>1, <4>1 DEF Answers, TookLease
            <4> QED
                BY <4>1, <4>2, <1>1 DEF Abandon
        <3> QED
            BY <3>2, <3>3
    <2> QED
        BY <1>4, <2>1, <2>2 DEF Undisturbed, NoneLeft
<1>5. NoneLeft'
    BY <1>1, <1>4 DEF NoneLeft
<1> QED
    BY <1>3, <1>5 DEF Undisturbed

LEMMA FaultFreeStep ==
    ASSUME LockOutlasts, TypeOK, ThreadShape, RowShape, FaultFreeInv, [Next]_vars
    PROVE  FaultFreeInv'
<1> SUFFICES ASSUME faults' = 0 PROVE Undisturbed'
    BY DEF FaultFreeInv
<1>1. faults = 0 /\ QuietStep
    BY FaultsStay
<1>2. Undisturbed
    BY <1>1 DEF FaultFreeInv
<1>3. CASE UNCHANGED vars
    BY <1>2, <1>3
    DEF Undisturbed, NothingLate, AllLocked, NoneShared, NoneLeft, Answers,
        TookLease, Busy, vars
<1>4. ASSUME NEW t \in Threads, QuietThreadStep(t) PROVE Undisturbed'
    BY <1>2, <1>4, ClaimUndisturbed, CancelledUndisturbed, ReturnUndisturbed,
       FinishUndisturbed DEF QuietThreadStep
<1> QED
    BY <1>1, <1>2, <1>3, <1>4, EnqueueUndisturbed, ProcessUndisturbed,
       TickUndisturbed DEF QuietStep

\* Where the lock outlasts a claim on its way, the job, its outcome and the
\* difference of any two clocks, and as long as nothing fails, whoever executes
\* a job holds its lease, no two execute one, and a running row has somebody
\* who works on it unless shutdown cancelled its claim or abandoned its
\* handler: for any number of workers, of their goroutines and of jobs.
THEOREM LeasesWithoutFaults ==
    ASSUME LockOutlasts
    PROVE  Spec => []FaultFreeLease
<1>1. Init => FaultFreeInv
    BY DEF Init, FaultFreeInv, Undisturbed, NothingLate, AllLocked, NoneShared, NoneLeft, Busy, Idle, NoRow
<1>2. TypeOK /\ ThreadShape /\ RowShape /\ FaultFreeInv /\ [Next]_vars => FaultFreeInv'
    BY FaultFreeStep
<1>3. FaultFreeInv => FaultFreeLease
    <2> SUFFICES ASSUME Undisturbed, faults = 0 PROVE FaultFreeLease
        BY DEF FaultFreeInv, FaultFreeLease
    <2>1. \A t \in Threads : Busy(t) => TookLease(t)
        BY DEF Undisturbed, AllLocked, LockedFor, TookLease
    <2>2. \A s, t \in Threads : s # t /\ Busy(s) /\ Busy(t) => thread[s].job # thread[t].job
        BY DEF Undisturbed, NoneShared
    <2>3. NoneLeft
        BY DEF Undisturbed
    <2> QED
        BY <2>1, <2>2, <2>3 DEF FaultFreeLease, NoneLeft, Answers
<1> QED
    BY <1>1, <1>2, <1>3, TypesHold, RowsAreShaped, PTL DEF Spec

-----------------------------------------------------------------------------
(* The table implements the lifecycle the package promises. *)

StatusOf == [j \in Jobs |-> jobs[j].status]
AttemptsOf == [j \in Jobs |-> jobs[j].attempts]

\* One row changes, and with it its status and its attempts.
LEMMA OneRow ==
    ASSUME NEW j \in Jobs, NEW to, NEW n, jobs'[j].status = to,
           jobs'[j].attempts = n, \A i \in Jobs : i # j => jobs'[i] = jobs[i]
    PROVE  /\ StatusOf' = [StatusOf EXCEPT ![j] = to]
           /\ AttemptsOf' = [AttemptsOf EXCEPT ![j] = n]
BY DEF StatusOf, AttemptsOf

\* A step of one job is a step.
LEMMA OneStep ==
    ASSUME NEW j \in Jobs,
           \/ Lifecycle!Submit(j) \/ Lifecycle!Take(j) \/ Lifecycle!TakeOver(j)
           \/ Lifecycle!Retry(j) \/ Lifecycle!End(j)
    PROVE  Lifecycle!Next
BY DEF Lifecycle!Next

\* A claim takes a pending job, or takes over a running one.
LEMMA ClaimRefines ==
    ASSUME TypeOK, RetriesAreBounded, NEW t \in Threads, NEW j \in Jobs,
           NEW wait \in 0..ClaimDelay, Takes(t, j, wait)
    PROVE  Lifecycle!Next
<1>0. jobs \in [Jobs -> Row] /\ jobs[j] \in Row
    BY DEF TypeOK
<1>1. /\ StatusOf' = [StatusOf EXCEPT ![j] = "running"]
      /\ AttemptsOf' = [AttemptsOf EXCEPT ![j] = @ + 1]
    <2>1. /\ jobs'[j].status = "running"
          /\ jobs'[j].attempts = jobs[j].attempts + 1
        BY <1>0, TakesRow, Columns
    <2>2. \A i \in Jobs : i # j => jobs'[i] = jobs[i]
        BY TakesRow
    <2>3. AttemptsOf[j] + 1 = jobs[j].attempts + 1
        BY DEF AttemptsOf
    <2> QED
        BY <2>1, <2>2, <2>3, OneRow
<1>2. CASE jobs[j].status = "pending"
    <2>1. jobs[j].attempts < MaxAttempts[j]
        BY <1>2 DEF RetriesAreBounded
    <2>2. Lifecycle!Take(j)
        BY <1>1, <1>2, <2>1
        DEF Lifecycle!Take, Lifecycle!Become, StatusOf, AttemptsOf
    <2> QED
        BY <2>2 DEF Lifecycle!Next
<1>3. CASE jobs[j].status = "running"
    <2>1. Lifecycle!TakeOver(j)
        BY <1>1, <1>3
        DEF Lifecycle!TakeOver, Lifecycle!Become, StatusOf, AttemptsOf
    <2> QED
        BY <2>1 DEF Lifecycle!Next
<1> QED
    BY <1>2, <1>3, TakesRow DEF Runnable

\* An outcome ends the lease, or is discarded.
LEMMA FinishRefines ==
    ASSUME TypeOK, ThreadShape, RowShape, LeaseNamesAttempt,
           NEW t \in Threads, Finish(t),
           NEW j \in Jobs, thread[t].job = j
    PROVE  [Lifecycle!Next]_(Lifecycle!lifecycle)
<1>0. /\ thread[t].job = j /\ Owner(t) \in Workers
      /\ jobs \in [Jobs -> Row] /\ jobs[j] \in Row
    BY Owners DEF TypeOK, ThreadShape, Busy, Finish
<1>1. CASE ~OwnsLease(t)
    BY <1>1 DEF Finish, Lifecycle!lifecycle
<1>2. CASE OwnsLease(t)
    <2>1. jobs' = [jobs EXCEPT ![j] = Outcome(t)]
        BY <1>2 DEF Finish
    <2>2. jobs[j].status = "running"
        BY <1>0, <1>2, JobAssumption DEF RowShape, OwnsLease
    <2>3. jobs[j].attempts = thread[t].attempt
        BY <1>2 DEF LeaseNamesAttempt, Busy, Finish
    <2>4. Outcome(t).attempts = jobs[j].attempts
        BY <1>0, Columns DEF Outcome
    <2>5. AttemptsOf' = AttemptsOf
        BY <1>0, <2>1, <2>4 DEF AttemptsOf
    <2>6. CASE Outcome(t).status \in {"succeeded", "failed"}
        <3>1. \E to \in {"succeeded", "failed"} : Lifecycle!Become(j, "running", to)
            BY <1>0, <2>1, <2>2, <2>6 DEF Lifecycle!Become
        <3>2. Lifecycle!End(j)
            BY <2>5, <3>1 DEF Lifecycle!End, AttemptsOf
        <3> QED
            BY <1>0, <3>2 DEF Lifecycle!Next
    <2>7. CASE Outcome(t).status = "pending"
        <3>1. ~Exhausted(t)
            BY <1>0, <2>7, Columns DEF Outcome
        <3>2. thread[t].attempt < MaxAttempts[j]
            <4>1. thread[t].attempt \in Nat /\ MaxAttempts[j] \in Nat
                BY <1>0, JobAssumption DEF TypeOK, Thread
            <4> QED
                BY <3>1, <4>1 DEF Exhausted
        <3>3. Lifecycle!Become(j, "running", "pending")
            BY <1>0, <2>1, <2>2, <2>7 DEF Lifecycle!Become
        <3>4. Lifecycle!Retry(j)
            BY <1>0, <2>3, <2>5, <3>2, <3>3 DEF Lifecycle!Retry, AttemptsOf
        <3> QED
            BY <3>4, OneStep
    <2>8. Outcome(t).status \in {"succeeded", "failed", "pending"}
        BY <1>0, Columns DEF Outcome
    <2> QED
        BY <2>6, <2>7, <2>8
<1> QED
    BY <1>1, <1>2

LEMMA StepRefines ==
    TypeOK /\ ThreadShape /\ RowShape /\ LeaseNamesAttempt
       /\ RetriesAreBounded /\ [Next]_vars
    => [Lifecycle!Next]_(Lifecycle!lifecycle)
<1> SUFFICES ASSUME TypeOK, ThreadShape, RowShape, LeaseNamesAttempt,
                    RetriesAreBounded, [Next]_vars
             PROVE  [Lifecycle!Next]_(Lifecycle!lifecycle)
    OBVIOUS
<1>0. jobs \in [Jobs -> Row]
    BY DEF TypeOK
<1>1. ASSUME NEW j \in Jobs, Enqueue(j)
      PROVE  Lifecycle!Next
    <2>1. PICK delay \in 0..StartDelay :
             jobs' = [jobs EXCEPT ![j] =
                        [NoRow EXCEPT !.status = "pending", !.runAt = delay,
                                      !.payload = TRUE]]
        BY <1>1 DEF Enqueue
    <2>2. jobs[j].status = "absent" /\ jobs[j].attempts = 0
        BY <1>1 DEF Enqueue, RowShape
    <2>3. jobs'[j].status = "pending" /\ jobs'[j].attempts = 0
        BY <1>0, <2>1 DEF NoRow
    <2>4. \A i \in Jobs : i # j => jobs'[i] = jobs[i]
        BY <1>0, <2>1
    <2>5. AttemptsOf' = AttemptsOf
        BY <2>2, <2>3, <2>4 DEF AttemptsOf
    <2>6. StatusOf' = [StatusOf EXCEPT ![j] = "pending"]
        BY <2>3, <2>4 DEF StatusOf
    <2>7. Lifecycle!Submit(j)
        BY <2>2, <2>5, <2>6
        DEF Lifecycle!Submit, Lifecycle!Become, StatusOf, AttemptsOf
    <2> QED
        BY <2>7 DEF Lifecycle!Next
<1>2. ASSUME NEW t \in Threads, NEW j \in Jobs,
             Claim(t, j) \/ ClaimLost(t, j) \/ ClaimCancelled(t, j)
      PROVE  Lifecycle!Next
    <2>1. PICK wait \in 0..ClaimDelay : Takes(t, j, wait)
        BY <1>2 DEF Claim, ClaimLost, ClaimCancelled
    <2> QED
        BY <2>1, ClaimRefines
<1>3. ASSUME NEW t \in Threads, Finish(t)
      PROVE  [Lifecycle!Next]_(Lifecycle!lifecycle)
    <2>1. thread[t].job \in Jobs
        BY <1>3 DEF ThreadShape, Busy, Finish
    <2>2. PICK j \in Jobs : thread[t].job = j
        BY <2>1
    <2> QED
        BY <1>3, <2>2, FinishRefines
<1>4. CASE Tick
    <2>1. ASSUME NEW j \in Jobs
          PROVE  /\ jobs'[j].status = jobs[j].status
                 /\ jobs'[j].attempts = jobs[j].attempts
        BY <1>0, <1>4 DEF Tick, Aged, Row
    <2>2. StatusOf' = StatusOf /\ AttemptsOf' = AttemptsOf
        BY <2>1 DEF StatusOf, AttemptsOf
    <2> QED
        BY <2>2 DEF Lifecycle!lifecycle, StatusOf, AttemptsOf
<1>5. CASE UNCHANGED jobs
    BY <1>5 DEF Lifecycle!lifecycle
<1>6. ASSUME NEW t \in Threads, ThreadStep(t)
      PROVE  \/ \E j \in Jobs : \/ Claim(t, j)
                                \/ ClaimLost(t, j)
                                \/ ClaimCancelled(t, j)
             \/ Finish(t)
             \/ UNCHANGED jobs
    BY <1>6 DEF ThreadStep, Return, FinishLost, Stall
<1>7. ASSUME NEW w \in Workers, ProcessStep(w)
      PROVE  UNCHANGED jobs
    BY <1>7
    DEF ProcessStep, Start, Shutdown, CancelJobs, Exit, Abandon, Crash
<1> QED
    BY <1>1, <1>2, <1>3, <1>4, <1>5, <1>6, <1>7 DEF Next, vars

\* With one goroutine per worker the jobs table, whatever the workers, clocks
\* and faults do to it, behaves like JobLifecycle.
THEOREM TableImplementsLifecycle ==
    ASSUME Concurrency = 1
    PROVE  Spec => LifecycleSpec
<1>1. Init => Lifecycle!Init
    BY DEF Init, Lifecycle!Init, NoRow
<1>2. TypeOK /\ ThreadShape /\ RowShape /\ LeaseNamesAttempt
         /\ RetriesAreBounded /\ [Next]_vars
      => [Lifecycle!Next]_(Lifecycle!lifecycle)
    BY StepRefines
<1> QED
    BY <1>1, <1>2, TypesHold, RowsAreShaped, LocksNameAttempts,
       RetriesStayBounded, PTL
    DEF Spec, LifecycleSpec, Lifecycle!Spec
=============================================================================
