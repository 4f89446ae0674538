--------------------------- MODULE StockholmRefresh ---------------------------
(***************************************************************************)
(* A run of internal/source/stockholm: it searches a window of cases,      *)
(* reads every case found, then re-reads the known open cases whose state  *)
(* was confirmed longest ago, at most MaxRefresh of them.  A page that     *)
(* cannot be read or parsed aborts the run; a case that cannot be          *)
(* persisted is counted and skipped.                                       *)
(*                                                                         *)
(* Time is the order of last_observed_at (before) and which of the cases   *)
(* in that order are older than RefreshInterval (due).                     *)
(***************************************************************************)
EXTENDS Naturals, FiniteSets, SequencesExt

CONSTANTS
    Cases,
    Unreadable,  \* cases whose page one day can no longer be read or parsed
    Unstorable,  \* cases whose page one day can no longer be persisted
    MaxRefresh,  \* Ingester.MaxRefreshPerRun
    MaxFaults    \* bound: passing failures (source, database, process)

\* What the constants must satisfy; assumed where they are instantiated.
ConstantsFit ==
    /\ IsFiniteSet(Cases)
    /\ Unreadable \subseteq Cases
    /\ Unstorable \subseteq Cases
    /\ MaxRefresh \in Nat \ {0}
    /\ MaxFaults \in Nat

VARIABLES
    spoilt,   \* the cases whose page is unreadable or unstorable by now
    state,    \* the latest observed state of each case
    before,   \* for each known case, those confirmed longer ago than it
    due,      \* the known cases confirmed before the cut-off
    run,      \* the run in progress
    report,   \* what the last run returned
    faults    \* passing failures so far

vars == <<spoilt, state, before, due, run, report, faults>>

-----------------------------------------------------------------------------
Run == [pc: {"idle", "discover", "refresh"},
        found: SUBSET Cases,     \* search results still to read
        list: Seq(Cases),        \* due cases still to read
        fetched: SUBSET Cases,
        failed: BOOLEAN,         \* stats.PersistFailures > 0
        searched: SUBSET Cases,  \* history: all search results
        owed: SUBSET Cases,      \* history: all open cases due at the listing
        confirmed: SUBSET Cases] \* history: cases persisted by this run

NotRunning == [pc |-> "idle", found |-> {}, list |-> <<>>, fetched |-> {},
               failed |-> FALSE, searched |-> {}, owed |-> {}, confirmed |-> {}]

Init ==
    /\ spoilt = {}
    /\ state = [c \in Cases |-> "unknown"]
    /\ before = [c \in Cases |-> {}]
    /\ due = {}
    /\ run = NotRunning
    /\ report = "none"
    /\ faults = 0

\* A page is moved, or changes so that it no longer makes an event.
Spoil(c) ==
    /\ c \in (Unreadable \cup Unstorable) \ spoilt
    /\ spoilt' = spoilt \cup {c}
    /\ UNCHANGED <<state, before, due, run, report, faults>>

Known == {c \in Cases : state[c] # "unknown"}

\* The sets of known cases that can be the ones confirmed before a cut-off.
Oldest == {D \in SUBSET Known : \A c \in D : before[c] \subseteq D}

\* Time passes: further cases are past the cut-off.
Age ==
    /\ \E D \in Oldest : due \subseteq D /\ due # D /\ due' = D
    /\ UNCHANGED <<spoilt, state, before, run, report, faults>>

\* Run: the search lists the cases of the window.
Search(S) ==
    /\ run.pc = "idle"
    /\ run' = [NotRunning EXCEPT !.pc = "discover", !.found = S, !.searched = S]
    /\ UNCHANGED <<spoilt, state, before, due, report, faults>>

\* The cases of S, the one confirmed longest ago first.
InOrder(S) ==
    [k \in 1..Cardinality(S) |-> CHOOSE c \in S : Cardinality(before[c] \cap S) = k - 1]

\* The open cases confirmed before the cut-off.
OpenCases == {c \in due : state[c] = "open"}

\* Not the code: the due cases, newest first.
NewestDueCases == Reverse(InOrder(OpenCases))

\* openCasesDueSQL
DueCases == InOrder(OpenCases)

\* openCasesDue: the first MaxRefresh of them are this run's refresh.
ListDue ==
    /\ run.pc = "discover"
    /\ run.found = {}
    /\ run' = [run EXCEPT
                 !.pc = "refresh", !.owed = OpenCases,
                 !.list = IF Len(DueCases) <= MaxRefresh
                             THEN DueCases ELSE SubSeq(DueCases, 1, MaxRefresh)]
    /\ UNCHANGED <<spoilt, state, before, due, report, faults>>

\* The loops of Run skip what this run has already fetched.
Skip ==
    /\ run.pc = "refresh"
    /\ run.list # <<>>
    /\ Head(run.list) \in run.fetched
    /\ run' = [run EXCEPT !.list = Tail(run.list)]
    /\ UNCHANGED <<spoilt, state, before, due, report, faults>>

Reads(c) ==
    \/ run.pc = "discover" /\ c \in run.found
    \/ run.pc = "refresh" /\ run.list # <<>> /\ Head(run.list) = c /\ c \notin run.fetched

\* The case that was read leaves the work left.
Fetched(c) ==
    [run EXCEPT !.found = run.found \ {c},
                !.list = IF run.pc = "refresh" THEN Tail(run.list) ELSE run.list,
                !.fetched = run.fetched \cup {c}]

\* Not the code: the case's earlier states stay in the order.
LatestOfEach(c) == [before EXCEPT ![c] = Known]

\* RecordObservation and the latest state openCasesDueSQL finds: all other
\* known cases were confirmed longer ago.
Latest(c) == [d \in Cases |-> IF d = c THEN Known \ {c} ELSE before[d] \ {c}]

\* fetchAndPersist succeeds: the observation of the page's content is the
\* most recently confirmed one, whether it was known or is new.  The source
\* may have closed the case since, or opened it again.
Confirm(c, shown) ==
    /\ Reads(c)
    /\ c \notin spoilt
    /\ state' = [state EXCEPT ![c] = shown]
    /\ before' = Latest(c)
    /\ due' = due \ {c}
    /\ run' = [Fetched(c) EXCEPT !.confirmed = run.confirmed \cup {c}]
    /\ UNCHANGED <<spoilt, report, faults>>

\* A failure that is for good, or one that passes.
Hit(permanent) ==
    /\ permanent \/ faults < MaxFaults
    /\ faults' = IF permanent THEN faults ELSE faults + 1

\* A failed persist is counted.
Counted(c) == [Fetched(c) EXCEPT !.failed = TRUE]

\* fetchAndPersist: persist fails; the case is counted and skipped.
PersistFails(c) ==
    /\ Reads(c)
    /\ c \notin Unreadable \cap spoilt
    /\ Hit(c \in Unstorable \cap spoilt)
    /\ run' = Counted(c)
    /\ UNCHANGED <<spoilt, state, before, due, report>>

\* Run returns an error.
Aborted ==
    /\ run' = NotRunning
    /\ report' = "aborted"
    /\ UNCHANGED <<spoilt, state, before, due>>

\* fetchAndPersist: the page cannot be read or parsed.
Abort(c) ==
    /\ Reads(c)
    /\ Hit(c \in Unreadable \cap spoilt)
    /\ Aborted

\* The query of openCasesDue fails; a search that fails looks like this after
\* an empty one, as neither has read a page.
ListFails ==
    /\ run.pc = "discover"
    /\ run.found = {}
    /\ Hit(FALSE)
    /\ Aborted

\* The process dies: nothing is reported.
Crash ==
    /\ run.pc # "idle"
    /\ Hit(FALSE)
    /\ run' = NotRunning
    /\ report' = "none"
    /\ UNCHANGED <<spoilt, state, before, due>>

\* Run returns; ErrPersistFailures when a case was skipped.
Finish ==
    /\ run.pc = "refresh"
    /\ run.list = <<>>
    /\ run' = NotRunning
    /\ report' = IF run.failed THEN "persist failures" ELSE "complete"
    /\ UNCHANGED <<spoilt, state, before, due, faults>>

RunStep ==
    \/ ListDue
    \/ ListFails
    \/ Skip
    \/ Finish
    \/ \E c \in Cases, shown \in {"open", "closed"} : Confirm(c, shown)
    \/ \E c \in Cases : PersistFails(c) \/ Abort(c)

Next ==
    \/ \E c \in Cases : Spoil(c)
    \/ Age
    \/ \E S \in SUBSET Cases : Search(S)
    \/ RunStep
    \/ Crash

Spec == Init /\ [][Next]_vars

\* Ingestion is invoked again and again, for windows that move on (not every
\* one holds the unreadable cases), and a run that is not killed goes on.
FairSpec ==
    /\ Spec
    /\ SF_vars(\E S \in SUBSET (Cases \ Unreadable) : Search(S))
    /\ WF_vars(RunStep)

-----------------------------------------------------------------------------
\* Type invariant; the known cases are in one order, and the due ones come
\* first in it.
TypeOK ==
    /\ spoilt \subseteq Unreadable \cup Unstorable
    /\ state \in [Cases -> {"unknown", "open", "closed"}]
    /\ before \in [Cases -> SUBSET Known]
    /\ \A c \in Known, d \in Cases :
          /\ d \in Known /\ d # c => (d \in before[c] <=> c \notin before[d])
          /\ d \in before[c] => d # c /\ before[d] \subseteq before[c]
    /\ due \in Oldest
    /\ run \in Run
    /\ report \in {"none", "aborted", "persist failures", "complete"}
    /\ faults \in 0..MaxFaults

\* A run has persisted every case the search listed and, up to the bound of a
\* run, every open case that was due when it listed them.
NothingMissed ==
    /\ run.searched \subseteq run.confirmed
    /\ \/ run.owed \subseteq run.confirmed
       \/ Cardinality(run.owed \cap run.fetched) >= MaxRefresh

\* The refresh never passes over a case: when it confirms one, the run has
\* already tried every case that was due and was confirmed longer ago.
RefreshIsOldestFirst ==
    [][\A c \in Cases :
         run.list # <<>> /\ Head(run.list) = c /\ c \in run'.confirmed \ run.confirmed =>
            \A d \in (run.owed \ run.fetched) \ {c} : c \in before[d]]_vars

IsDue(c) == c \in OpenCases

\* A bounded run still reaches every open case over time (comment of
\* openCasesDueSQL): a known open case past the cut-off is eventually
\* confirmed, unless it is itself the one that cannot be.
EveryOpenCaseIsReached ==
    \A c \in Cases \ (Unreadable \cup Unstorable) : IsDue(c) ~> ~IsDue(c)

=============================================================================
