------------------------------- MODULE DiaryFeed -------------------------------
(***************************************************************************)
(* Runs of the feeds of internal/source/arbetsmiljoverket: they page       *)
(* through a window of the diary, newest first, and persist the rows they  *)
(* accept.  A feed with OnePerCase asks the diary for the earliest         *)
(* document of its type in a row's case first, and persists the row when   *)
(* it is that document.  The diary goes on changing between the requests.  *)
(*                                                                         *)
(* A document is its place in the order of documentBefore: by date, then   *)
(* by document-number suffix.                                              *)
(***************************************************************************)
EXTENDS Naturals, FiniteSets

CONSTANTS
    Docs,         \* documents of the feeds' types, naturals in documentBefore order
    FeedOf,       \* the feed whose type a document has
    DateOf,       \* the date of a document
    CaseOf,       \* its case
    Rejected,     \* documents the acceptance rule rejects
    Withdrawable, \* documents the diary may take down again
    Ingesters,
    Dates,        \* days on which a run's window may begin or end
    PageSize, MaxPages, MaxInCase,
    MaxFaults     \* bound: failures of a request or of a persist

Feeds == {"inspection-notices", "recurring-inspection-failures"}
OnePerCase(feed) == feed = "recurring-inspection-failures"
DefaultFeed == "inspection-notices"

\* What the constants must satisfy; assumed where they are instantiated.
ConstantsFit ==
    /\ Docs \subseteq Nat /\ IsFiniteSet(Docs)
    /\ Dates \subseteq Nat /\ Dates # {}
    /\ DateOf \in [Docs -> Nat]
    /\ \A a, b \in Docs : DateOf[a] < DateOf[b] => a < b
    /\ {PageSize, MaxPages, MaxInCase} \subseteq Nat \ {0}
    /\ MaxFaults \in Nat
    /\ \A d \in Withdrawable, e \in Docs : CaseOf[d] = CaseOf[e] => d = e
    /\ FeedOf \in [Docs -> Feeds]
    /\ \A d \in Rejected : OnePerCase(FeedOf[d])

VARIABLES
    listed,     \* what the diary lists
    gone,       \* what it has taken down
    malformed,  \* listed rows that cannot be parsed
    events,     \* documents with a public event
    run,        \* what each ingester is doing
    report,     \* what its last run returned
    faults      \* failures so far

vars == <<listed, gone, malformed, events, run, report, faults>>

-----------------------------------------------------------------------------
Run == [pc: {"idle", "search", "rows", "persist"},
        feed: Feeds,
        from: Dates, to: Dates,   \* the window
        page: Nat, seen: Nat, total: Nat,
        rows: SUBSET Docs,        \* parsed rows of the page still to handle
        failed: BOOLEAN,          \* stats.PersistFailures > 0
        kept: SUBSET Docs,        \* history: good rows of the window at the start
        shifted: BOOLEAN]         \* history: a row of the window was taken down

NotRunning == [pc |-> "idle", feed |-> DefaultFeed,
               from |-> CHOOSE d \in Dates : TRUE,
               to |-> CHOOSE d \in Dates : TRUE, page |-> 1, seen |-> 0,
               total |-> 0, rows |-> {}, failed |-> FALSE, kept |-> {},
               shifted |-> FALSE]

Init ==
    /\ listed = {}
    /\ gone = {}
    /\ malformed = {}
    /\ events = {}
    /\ run = [i \in Ingesters |-> NotRunning]
    /\ report = [i \in Ingesters |-> "none"]
    /\ faults = 0

\* The documents of d's type in its case.
CaseMates(d) == {e \in Docs : CaseOf[e] = CaseOf[d] /\ FeedOf[e] = FeedOf[d]}

\* The diary lists the documents of a case in their order; its page may show
\* a row that the parser cannot read.
Publish(d) ==
    /\ d \notin listed \cup gone
    /\ \A e \in CaseMates(d) : e < d => e \in listed
    /\ listed' = listed \cup {d}
    /\ malformed' \in {malformed, malformed \cup {d}}
    /\ UNCHANGED <<gone, events, run, report, faults>>

\* The row becomes readable.
Mend(d) ==
    /\ d \in malformed
    /\ malformed' = malformed \ {d}
    /\ UNCHANGED <<listed, gone, events, run, report, faults>>

\* What a search for the run's feed and window asks for.
InWindow(r) == {d \in Docs : FeedOf[d] = r.feed /\ r.from <= DateOf[d] /\ DateOf[d] <= r.to}

Withdraw(d) ==
    /\ d \in listed \cap Withdrawable
    /\ listed' = listed \ {d}
    /\ malformed' = malformed \ {d}
    /\ gone' = gone \cup {d}
    /\ run' = [i \in Ingesters |->
                 [run[i] EXCEPT !.shifted = run[i].shifted \/ d \in InWindow(run[i])]]
    /\ UNCHANGED <<events, report, faults>>

-----------------------------------------------------------------------------
Fault ==
    /\ faults < MaxFaults
    /\ faults' = faults + 1

\* RunFeed begins.
Start(i, feed, from, to) ==
    /\ run[i].pc = "idle"
    /\ from <= to
    /\ LET r == [NotRunning EXCEPT !.pc = "search", !.feed = feed, !.from = from, !.to = to]
       IN  run' = [run EXCEPT ![i] =
                     [r EXCEPT !.kept = (listed \cap InWindow(r)) \ malformed]]
    /\ UNCHANGED <<listed, gone, malformed, events, report, faults>>

Return(i, what) ==
    /\ run' = [run EXCEPT ![i] = NotRunning]
    /\ report' = [report EXCEPT ![i] = what]

Abort(i) == Return(i, "aborted")

\* The process dies: nothing is reported.
Crash(i) ==
    /\ run[i].pc # "idle"
    /\ Fault
    /\ Return(i, "none")
    /\ UNCHANGED <<listed, gone, malformed, events>>

\* RunFeed returns; ErrPersistFailures when a row was not persisted.
Finish(i) ==
    Return(i, IF run[i].failed THEN "persist failures" ELSE "complete")

\* Search: the window's rows of one page; the pages run from the newest row on.
Listing(r) == listed \cap InWindow(r)

PageOf(r) ==
    LET newer(d) == Cardinality({e \in Listing(r) : e > d})
    IN  {d \in Listing(r) : PageSize * (r.page - 1) <= newer(d) /\ newer(d) < PageSize * r.page}

\* Rows that cannot be parsed are counted and skipped; an empty page ends
\* the run.
Search(i) ==
    LET page == PageOf(run[i])
    IN  /\ run[i].pc = "search"
        /\ IF page = {}
              THEN Finish(i)
              ELSE /\ run' = [run EXCEPT
                                ![i].pc = "rows",
                                ![i].rows = page \ malformed,
                                ![i].seen = @ + Cardinality(page),
                                ![i].total = Cardinality(Listing(run[i]))]
                   /\ UNCHANGED report
        /\ UNCHANGED <<listed, gone, malformed, events, faults>>

\* acceptRecurringInspectionFailure; the default feed accepts every row.
Accept(d) == d \notin Rejected

\* The row to handle: the newest one left.
Newest(rows) == {d \in rows : \A e \in rows : e <= d}

\* A search of RunFeed or earliestInCase fails: the run aborts.
SearchFails(i) ==
    /\ \/ run[i].pc = "search"
       \/ /\ run[i].pc = "rows" /\ OnePerCase(run[i].feed)
          /\ \E d \in Newest(run[i].rows) : Accept(d)
    /\ Fault
    /\ Abort(i)
    /\ UNCHANGED <<listed, gone, malformed, events>>

NextRow(i, d) == [run EXCEPT ![i].rows = run[i].rows \ {d}, ![i].pc = "rows"]

\* Not the code: the chronology ends at the run's own window.
CaseRowsOfWindow(i, d) ==
    {e \in listed \cap CaseMates(d) : e \in InWindow(run[i]) /\ DateOf[e] <= DateOf[d]}

\* The case-scoped search of earliestInCase, from sourceEpoch to d's date.
CaseRows(i, d) == {e \in listed \cap CaseMates(d) : DateOf[e] <= DateOf[d]}

\* No row of the chronology is hidden, or ErrCaseChronologyIncomplete.
Complete(C) == Cardinality(C) <= MaxInCase /\ C \cap malformed = {}

\* The parsable rows and d itself; the first of them is the earliest.
IsEarliest(C, d) == \A e \in C \ malformed : d <= e

\* The acceptance rule and, for OnePerCase, earliestInCase for the next row.
Row(i) ==
    /\ run[i].pc = "rows"
    /\ \E d \in Newest(run[i].rows) :
       LET C == CaseRows(i, d)
           once == OnePerCase(run[i].feed)
       IN  \/ ~Accept(d) /\ run' = NextRow(i, d) /\ UNCHANGED report
           \/ Accept(d) /\ once /\ ~Complete(C) /\ Abort(i)
           \/ /\ Accept(d) /\ (once => Complete(C))
              /\ run' = IF once => IsEarliest(C, d) THEN [run EXCEPT ![i].pc = "persist"]
                                                    ELSE NextRow(i, d)
              /\ UNCHANGED report
    /\ UNCHANGED <<listed, gone, malformed, events, faults>>

\* persist, or its failure, which is counted and skipped.
Persist(i) ==
    /\ run[i].pc = "persist"
    /\ \E d \in Newest(run[i].rows) : events' = events \cup {d} /\ run' = NextRow(i, d)
    /\ UNCHANGED <<listed, gone, malformed, report, faults>>

PersistFails(i) ==
    /\ run[i].pc = "persist"
    /\ Fault
    /\ \E d \in Newest(run[i].rows) : run' = [NextRow(i, d) EXCEPT ![i].failed = TRUE]
    /\ UNCHANGED <<listed, gone, malformed, events, report>>

\* Every row the source counts has been seen.
LastPage(r) == r.seen >= r.total

\* The end of a page.
PageDone(i) ==
    /\ run[i].pc = "rows"
    /\ run[i].rows = {}
    /\ IF LastPage(run[i]) \/ run[i].page = MaxPages
          THEN Finish(i)
          ELSE /\ run' = [run EXCEPT ![i].pc = "search", ![i].page = @ + 1]
               /\ UNCHANGED report
    /\ UNCHANGED <<listed, gone, malformed, events, faults>>

RunStep(i) ==
    \/ Search(i)
    \/ SearchFails(i)
    \/ Row(i)
    \/ Persist(i)
    \/ PersistFails(i)
    \/ PageDone(i)

DiaryStep == \E d \in Docs : Publish(d) \/ Mend(d) \/ Withdraw(d)

Next ==
    \/ DiaryStep
    \/ \E i \in Ingesters, feed \in Feeds, from, to \in Dates : Start(i, feed, from, to)
    \/ \E i \in Ingesters : RunStep(i) \/ Crash(i)

Spec == Init /\ [][Next]_vars

-----------------------------------------------------------------------------
\* Type invariant; an event is an accepted document that was published.
TypeOK ==
    /\ listed \subseteq Docs
    /\ gone \subseteq Withdrawable \ listed
    /\ malformed \subseteq listed
    /\ events \subseteq (listed \cup gone) \ Rejected
    /\ run \in [Ingesters -> Run]
    /\ \A i \in Ingesters : run[i].page <= MaxPages
    /\ report \in [Ingesters -> {"none", "aborted", "persist failures", "complete"}]
    /\ faults \in 0..MaxFaults

\* Only the earliest document of a case becomes an event of a OnePerCase feed,
\* whatever windows are run in whatever order and however they overlap
\* (comments of OnePerCase and earliestInCase), and also when an earlier row
\* cannot be parsed at the time: a case never gets a second event.
EventsAreEarliest ==
    \A d \in events : OnePerCase(FeedOf[d]) =>
       \A e \in CaseMates(d) \cap (listed \cup gone) : d <= e

Due(r) ==
    {d \in r.kept : Accept(d) /\ (OnePerCase(r.feed) => \A e \in CaseMates(d) \cap listed : d <= e)}

\* A run has an event for every document it was there to find, although rows
\* move between the pages as new ones appear; unless MaxPages ended it or a row
\* of its window was taken down meanwhile.
NothingMissed(i) ==
    run[i].shifted \/ run[i].page >= MaxPages \/ Due(run[i]) \subseteq events

=============================================================================
