----------------------------- MODULE MCJobQueue -----------------------------
(***************************************************************************)
(* Instances of JobQueue for TLC: values for its function-valued constants.*)
(***************************************************************************)
EXTENDS JobQueue, TLC

CONSTANTS Attempts, FastWorkers

\* Every job has the same max_attempts.
SameAttempts == [j \in Jobs |-> Attempts]

\* The workers whose clock is two units fast; all others are exact.
SomeFast == [w \in Workers |-> IF w \in FastWorkers THEN 2 ELSE 0]

\* Workers with equally exact clocks are interchangeable.
WorkerSymmetry == Permutations(Workers \ FastWorkers)
=============================================================================
