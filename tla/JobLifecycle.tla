---------------------------- MODULE JobLifecycle ----------------------------
(***************************************************************************)
(* What the jobs package promises of each job, with no worker, lock or     *)
(* clock in sight: a job is attempted under numbered leases, an outcome    *)
(* ends the lease it belongs to, a retry needs an attempt left, and an end *)
(* is final.  Only a lease whose holder vanished may be taken over, and    *)
(* that alone may number a lease beyond max_attempts.                      *)
(***************************************************************************)
EXTENDS Integers

CONSTANTS Jobs, MaxAttempts

VARIABLES status, lease

lifecycle == <<status, lease>>

Init ==
    /\ status = [j \in Jobs |-> "absent"]
    /\ lease = [j \in Jobs |-> 0]

Become(j, from, to) ==
    /\ status[j] = from
    /\ status' = [status EXCEPT ![j] = to]

Submit(j) == Become(j, "absent", "pending") /\ UNCHANGED lease

\* A pending job gets the next of its max_attempts leases.
Take(j) ==
    /\ lease[j] < MaxAttempts[j]
    /\ Become(j, "pending", "running")
    /\ lease' = [lease EXCEPT ![j] = @ + 1]

\* A running job changes hands.
TakeOver(j) ==
    /\ Become(j, "running", "running")
    /\ lease' = [lease EXCEPT ![j] = @ + 1]

Retry(j) ==
    /\ lease[j] < MaxAttempts[j]
    /\ Become(j, "running", "pending")
    /\ UNCHANGED lease

End(j) ==
    /\ \E to \in {"succeeded", "failed"} : Become(j, "running", to)
    /\ UNCHANGED lease

Next ==
    \E j \in Jobs :
       Submit(j) \/ Take(j) \/ TakeOver(j) \/ Retry(j) \/ End(j)

Spec == Init /\ [][Next]_lifecycle
=============================================================================
