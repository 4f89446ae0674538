-------------------------- MODULE DiaryFeedProofs --------------------------
(***************************************************************************)
(* Theorems about DiaryFeed for any finite set of documents and any number *)
(* of ingesters.                                                           *)
(*                                                                         *)
(* EventsAreEarliest is not inductive: between the search of               *)
(* earliestInCase and the persist the diary goes on.  What carries it over *)
(* is that the diary lists a case in order (CasesInOrder): a document that *)
(* is listed can no longer be preceded by a new one.                       *)
(*                                                                         *)
(* That a complete run missed nothing rests on where its rows are: one     *)
(* that is not in hand and needs an event has at least as many rows before *)
(* it as the pages read so far hold (Paged), new rows only add to them,    *)
(* and the run then knows that it has not seen the last page.              *)
(***************************************************************************)
EXTENDS DiaryFeed, FiniteSetTheorems, FunctionTheorems, TLAPS

\* No document of d's case that was ever listed precedes d.
Earliest(d) == \A e \in CaseMates(d) \cap (listed \cup gone) : d <= e

CasesInOrder ==
    \A d \in listed \cup gone : \A e \in CaseMates(d) : e < d => e \in listed

\* The rows in hand were listed, of the run's own feed; the one that is being
\* persisted was accepted.
InHand(r) ==
    /\ r.rows \subseteq listed \cup gone
    /\ \A d \in r.rows : FeedOf[d] = r.feed
    /\ r.pc = "persist" =>
          \A d \in Newest(r.rows) : Accept(d) /\ (OnePerCase(r.feed) => Earliest(d))

RunsFit ==
    /\ run \in [Ingesters -> Run]
    /\ \A i \in Ingesters : run[i].page <= MaxPages /\ InHand(run[i])

Rows ==
    /\ listed \subseteq Docs
    /\ gone \subseteq Withdrawable \ listed /\ gone \subseteq Docs
    /\ malformed \subseteq listed
    /\ CasesInOrder

EventsFit ==
    /\ events \subseteq (listed \cup gone) \ Rejected
    /\ EventsAreEarliest

Counts ==
    /\ report \in [Ingesters -> {"none", "aborted", "persist failures", "complete"}]
    /\ faults \in 0..MaxFaults

-----------------------------------------------------------------------------
(* The diary.                                                              *)

\* What was ever listed and comes first in its case stays first.
LEMMA FirstStaysFirst ==
    ASSUME ConstantsFit, Rows, [Next]_vars, NEW d \in listed \cup gone, Earliest(d)
    PROVE  d \in listed' \cup gone' /\ Earliest(d)'
<1>1. CASE UNCHANGED <<listed, gone>>
    BY <1>1 DEF Earliest, CaseMates
<1>2. ASSUME NEW x \in Docs, Publish(x)
      PROVE  d \in listed' \cup gone' /\ Earliest(d)'
    <2>1. listed' = listed \cup {x} /\ gone' = gone /\ x \notin listed
        BY <1>2 DEF Publish
    <2>2. x \in CaseMates(d) => d <= x
        <3>1. d \in Nat /\ x \in Nat
            BY DEF ConstantsFit, Rows
        <3>2. x \in CaseMates(d) /\ x < d => x \in listed
            BY DEF Rows, CasesInOrder
        <3> QED
            BY <2>1, <3>1, <3>2
    <2> QED
        BY <2>1, <2>2 DEF Earliest, CaseMates
<1>3. ASSUME NEW x \in Docs, Withdraw(x)
      PROVE  d \in listed' \cup gone' /\ Earliest(d)'
    <2>1. listed' \cup gone' = listed \cup gone
        BY <1>3 DEF Withdraw
    <2> QED
        BY <2>1 DEF Earliest, CaseMates
<1> QED
    BY <1>1, <1>2, <1>3 DEF Next, DiaryStep, Mend, Start, RunStep, Search, SearchFails, Row, Persist,
       PersistFails, PageDone, Crash, vars

\* The diary keeps the order of its cases, whatever it publishes and takes down.
LEMMA RowsStep ==
    ASSUME ConstantsFit, Rows, [Next]_vars
    PROVE  Rows'
<1>1. CASE UNCHANGED <<listed, gone, malformed>>
    BY <1>1 DEF Rows, CasesInOrder, CaseMates
<1>2. ASSUME NEW d \in Docs, Publish(d) PROVE Rows'
    <2>1. listed' = listed \cup {d} /\ gone' = gone /\ d \notin gone
          /\ malformed' \subseteq malformed \cup {d}
        BY <1>2 DEF Publish
    <2>2. \A e \in CaseMates(d) : e < d => e \in listed
        BY <1>2 DEF Publish
    <2>3. CasesInOrder'
        BY <2>1, <2>2 DEF Rows, CasesInOrder, CaseMates
    <2> QED
        BY <2>1, <2>3 DEF Rows
<1>3. ASSUME NEW d \in Docs, Mend(d) PROVE Rows'
    BY <1>3 DEF Mend, Rows, CasesInOrder, CaseMates
<1>4. ASSUME NEW d \in Docs, Withdraw(d) PROVE Rows'
    <2>1. /\ d \in Withdrawable /\ listed' = listed \ {d} /\ gone' = gone \cup {d}
          /\ malformed' = malformed \ {d}
        BY <1>4 DEF Withdraw
    <2>2. ASSUME NEW x \in listed \cup gone, NEW e \in CaseMates(x), e < x
          PROVE  e \in listed'
        <3>1. e \in listed
            BY <2>2 DEF Rows, CasesInOrder
        <3>2. x \in Docs /\ e \in Docs /\ CaseOf[e] = CaseOf[x]
            BY <2>2 DEF Rows, CaseMates
        <3>3. e # x
            BY <2>2, <3>2 DEF ConstantsFit
        <3>4. e # d
            BY <2>1, <3>2, <3>3 DEF ConstantsFit
        <3> QED
            BY <2>1, <3>1, <3>4
    <2>3. CasesInOrder'
        <3>1. listed' \cup gone' = listed \cup gone
            BY <1>4 DEF Withdraw
        <3> QED
            BY <2>2, <3>1 DEF CasesInOrder, CaseMates
    <2> QED
        BY <2>1, <2>3 DEF Rows
<1> QED
    BY <1>1, <1>2, <1>3, <1>4 DEF Next, DiaryStep, Start, RunStep, Search, SearchFails, Row, Persist,
       PersistFails, PageDone, Crash, vars

-----------------------------------------------------------------------------
(* The runs.                                                               *)

\* What is in the hand of a run stays good while the rest of the world moves.
LEMMA HandStays ==
    ASSUME ConstantsFit, Rows, [Next]_vars, NEW r, InHand(r)
    PROVE  InHand(r)'
<1>1. listed \cup gone \subseteq listed' \cup gone'
    BY DEF Next, DiaryStep, Publish, Mend, Withdraw, Start, RunStep, Search, SearchFails, Row, Persist,
       PersistFails, PageDone, Crash, vars
<1>2. ASSUME NEW d \in r.rows, Earliest(d) PROVE Earliest(d)'
    BY <1>2, FirstStaysFirst DEF InHand
<1>3. \A d \in Newest(r.rows) : d \in r.rows
    BY DEF Newest
<1> QED
    BY <1>1, <1>2, <1>3 DEF InHand, Newest, Accept

\* A step of i makes its run v.
Becomes(i, v) ==
    /\ run' = [run EXCEPT ![i] = v]
    /\ v \in Run /\ v.page <= MaxPages
    /\ InHand(v)

\* What an ingester is between its runs.
LEMMA Resting ==
    ASSUME ConstantsFit
    PROVE  /\ NotRunning \in Run /\ NotRunning.page = 1 /\ NotRunning.page <= MaxPages
           /\ NotRunning.rows = {} /\ InHand(NotRunning)
<1>1. (CHOOSE d \in Dates : TRUE) \in Dates
    BY DEF ConstantsFit
<1>2. NotRunning \in Run /\ NotRunning.page = 1 /\ NotRunning.rows = {} /\ NotRunning.pc = "idle"
    BY <1>1 DEF NotRunning, Run, Feeds, DefaultFeed
<1>3. 1 <= MaxPages
    BY DEF ConstantsFit
<1>4. InHand(NotRunning)
    BY <1>2 DEF InHand
<1> QED
    BY <1>2, <1>3, <1>4

\* A run that ends, however, leaves nothing in hand.
LEMMA ReturnStep ==
    ASSUME ConstantsFit, NEW i \in Ingesters, NEW what, Return(i, what)
    PROVE  \E v : Becomes(i, v)
BY Resting DEF Return, Becomes

LEMMA StartStep ==
    ASSUME ConstantsFit, Rows, NEW i \in Ingesters, NEW feed \in Feeds, NEW from \in Dates, NEW to \in Dates,
           Start(i, feed, from, to)
    PROVE  \E v : Becomes(i, v)
<1> DEFINE r == [NotRunning EXCEPT !.pc = "search", !.feed = feed, !.from = from, !.to = to]
           kept == (listed \cap InWindow(r)) \ malformed
           v == [r EXCEPT !.kept = kept]
<1>1. r \in Run /\ r.rows = {} /\ r.pc = "search" /\ r.page = 1
    BY Resting DEF Run
<1>2. kept \in SUBSET Docs
    BY DEF Rows
<1>3. run' = [run EXCEPT ![i] = v]
    BY DEF Start
<1> HIDE DEF r, kept
<1>4. v \in Run /\ v.rows = {} /\ v.pc = "search" /\ v.page = 1
    BY <1>1, <1>2 DEF Run
<1> HIDE DEF v
<1>5. InHand(v) /\ v.page <= MaxPages
    BY <1>4 DEF InHand, ConstantsFit
<1>6. Becomes(i, v)
    BY <1>3, <1>4, <1>5 DEF Becomes
<1> QED
    BY <1>6

LEMMA SearchStep ==
    ASSUME ConstantsFit, Rows, RunsFit, NEW i \in Ingesters, Search(i)
    PROVE  \E v : Becomes(i, v)
<1> DEFINE r == run[i]
           page == PageOf(r)
           seen == r.seen + Cardinality(page)
           total == Cardinality(Listing(r))
           v == [r EXCEPT !.pc = "rows", !.rows = page \ malformed, !.seen = seen, !.total = total]
<1>1. r \in Run /\ r.page <= MaxPages
    BY DEF RunsFit
<1>2. CASE Finish(i)
    BY <1>2, ReturnStep DEF Finish
<1>3. CASE run' = [run EXCEPT ![i] = v]
    <2>1. page \subseteq Listing(r) /\ Listing(r) \subseteq listed \cap InWindow(r)
        BY DEF PageOf, Listing
    <2>2. page \subseteq Docs /\ Listing(r) \subseteq Docs
        BY <2>1 DEF Rows
    <2>3. Cardinality(page) \in Nat /\ total \in Nat
        BY <2>2, FS_Subset, FS_CardinalityType DEF ConstantsFit
    <2>4. seen \in Nat
        BY <1>1, <2>3 DEF Run
    <2>5. \A d \in page : d \in listed /\ FeedOf[d] = r.feed
        BY <2>1 DEF InWindow
    <2> HIDE DEF r, page, seen, total
    <2>6. v \in Run /\ v.pc = "rows" /\ v.rows = page \ malformed /\ v.page = r.page /\ v.feed = r.feed
        BY <1>1, <2>2, <2>3, <2>4 DEF Run
    <2> HIDE DEF v
    <2>7. InHand(v)
        BY <2>5, <2>6 DEF InHand
    <2>8. Becomes(i, v)
        BY <1>1, <1>3, <2>6, <2>7 DEF Becomes
    <2> QED
        BY <2>8
<1> QED
    BY <1>2, <1>3 DEF Search

\* The run goes on with the rows after d.
LEMMA NextRowStep ==
    ASSUME RunsFit, NEW i \in Ingesters, NEW d, NEW failed \in BOOLEAN,
           run' = [run EXCEPT ![i] = [run[i] EXCEPT !.rows = run[i].rows \ {d}, !.pc = "rows", !.failed = failed]]
    PROVE  \E v : Becomes(i, v)
<1> DEFINE r == run[i]
           v == [r EXCEPT !.rows = r.rows \ {d}, !.pc = "rows", !.failed = failed]
<1>1. r \in Run /\ r.page <= MaxPages /\ InHand(r)
    BY DEF RunsFit
<1>2. run' = [run EXCEPT ![i] = v]
    OBVIOUS
<1> HIDE DEF r
<1>3. v \in Run /\ v.rows = r.rows \ {d} /\ v.pc = "rows" /\ v.page = r.page /\ v.feed = r.feed
    BY <1>1 DEF Run
<1> HIDE DEF v
<1>4. InHand(v)
    BY <1>1, <1>3 DEF InHand
<1>5. Becomes(i, v)
    BY <1>1, <1>2, <1>3, <1>4 DEF Becomes
<1> QED
    BY <1>5

\* When the case's chronology is complete and d comes first in it, nothing of
\* the case was ever listed before d: what it lists after d's date follows d,
\* and what was taken down was alone in its case.
LEMMA FirstOfItsCase ==
    ASSUME ConstantsFit, Rows, NEW i, NEW d \in listed \cup gone,
           Complete(CaseRows(i, d)), IsEarliest(CaseRows(i, d), d)
    PROVE  Earliest(d)
<1> SUFFICES ASSUME NEW e \in CaseMates(d) \cap (listed \cup gone)
             PROVE  d <= e
    BY DEF Earliest
<1>1. d \in Docs /\ e \in Docs /\ d \in Nat /\ e \in Nat
    BY DEF Rows, ConstantsFit
<1>2. CASE e \in listed /\ DateOf[e] <= DateOf[d]
    <2>1. e \in CaseRows(i, d)
        BY <1>2 DEF CaseRows
    <2>2. e \notin malformed
        BY <2>1 DEF Complete
    <2> QED
        BY <2>1, <2>2 DEF IsEarliest
<1>3. CASE e \in listed /\ ~(DateOf[e] <= DateOf[d])
    <2>1. DateOf[d] \in Nat /\ DateOf[e] \in Nat
        BY <1>1 DEF ConstantsFit
    <2>2. d < e
        BY <1>1, <1>3, <2>1 DEF ConstantsFit
    <2> QED
        BY <1>1, <2>2
<1>4. CASE e \in gone
    <2>1. e = d
        BY <1>1, <1>4 DEF Rows, ConstantsFit, CaseMates
    <2> QED
        BY <1>1, <2>1
<1> QED
    BY <1>2, <1>3, <1>4

LEMMA RowStep ==
    ASSUME ConstantsFit, Rows, RunsFit, NEW i \in Ingesters, Row(i)
    PROVE  \E v : Becomes(i, v)
<1> DEFINE r == run[i]
           v == [r EXCEPT !.pc = "persist"]
<1>1. r \in Run /\ r.page <= MaxPages /\ InHand(r)
    BY DEF RunsFit
<1>2. PICK d \in Newest(r.rows) :
         \/ run' = NextRow(i, d)
         \/ Abort(i)
         \/ /\ run' = [run EXCEPT ![i].pc = "persist"]
            /\ Accept(d)
            /\ OnePerCase(r.feed) => Complete(CaseRows(i, d)) /\ IsEarliest(CaseRows(i, d), d)
    BY DEF Row
<1>3. d \in r.rows /\ d \in listed \cup gone
    BY <1>1 DEF Newest, InHand
<1>4. CASE run' = NextRow(i, d)
    <2>1. run' = [run EXCEPT ![i] = [r EXCEPT !.rows = r.rows \ {d}, !.pc = "rows", !.failed = r.failed]]
        BY <1>1, <1>4 DEF NextRow, Run, RunsFit
    <2>2. r.failed \in BOOLEAN
        BY <1>1 DEF Run
    <2> QED
        BY <2>1, <2>2, NextRowStep
<1>5. CASE Abort(i)
    BY <1>5, ReturnStep DEF Abort
<1>6. CASE /\ run' = [run EXCEPT ![i].pc = "persist"]
           /\ Accept(d)
           /\ OnePerCase(r.feed) => Complete(CaseRows(i, d)) /\ IsEarliest(CaseRows(i, d), d)
    <2>1. OnePerCase(r.feed) => Earliest(d)
        BY <1>3, <1>6, FirstOfItsCase
    <2>2. \A e \in Newest(r.rows) : e = d
        <3>1. r.rows \subseteq Nat
            BY <1>1 DEF Run, ConstantsFit
        <3> QED
            BY <3>1 DEF Newest
    <2>3. run' = [run EXCEPT ![i] = v]
        BY <1>6
    <2> HIDE DEF r
    <2>4. v \in Run /\ v.rows = r.rows /\ v.page = r.page /\ v.feed = r.feed
        BY <1>1 DEF Run
    <2> HIDE DEF v
    <2>5. InHand(v)
        BY <1>1, <1>6, <2>1, <2>2, <2>4 DEF InHand
    <2>6. Becomes(i, v)
        BY <1>1, <2>3, <2>4, <2>5 DEF Becomes
    <2> QED
        BY <2>6
<1> QED
    BY <1>2, <1>4, <1>5, <1>6

\* A row that was persisted, or was not, is behind the run.
LEMMA PersistStep ==
    ASSUME RunsFit, NEW i \in Ingesters, Persist(i) \/ PersistFails(i)
    PROVE  \E v : Becomes(i, v)
<1> DEFINE r == run[i]
<1>1. r \in Run
    BY DEF RunsFit
<1>2. r.failed \in BOOLEAN
    BY <1>1 DEF Run
<1>3. CASE Persist(i)
    <2>1. PICK d : run' = NextRow(i, d)
        BY <1>3 DEF Persist
    <2>2. run' = [run EXCEPT ![i] = [r EXCEPT !.rows = r.rows \ {d}, !.pc = "rows", !.failed = r.failed]]
        BY <1>1, <2>1 DEF NextRow, Run, RunsFit
    <2> QED
        BY <1>2, <2>2, NextRowStep
<1>4. CASE PersistFails(i)
    <2>1. PICK d : run' = [NextRow(i, d) EXCEPT ![i].failed = TRUE]
        BY <1>4 DEF PersistFails
    <2>2. run' = [run EXCEPT ![i] = [r EXCEPT !.rows = r.rows \ {d}, !.pc = "rows", !.failed = TRUE]]
        BY <1>1, <2>1 DEF NextRow, Run, RunsFit
    <2> QED
        BY <2>2, NextRowStep
<1> QED
    BY <1>3, <1>4

LEMMA PageDoneStep ==
    ASSUME ConstantsFit, RunsFit, NEW i \in Ingesters, PageDone(i)
    PROVE  \E v : Becomes(i, v)
<1> DEFINE r == run[i]
           page == r.page + 1
           v == [r EXCEPT !.pc = "search", !.page = page]
<1>1. r \in Run /\ r.page <= MaxPages /\ InHand(r)
    BY DEF RunsFit
<1>2. CASE Finish(i)
    BY <1>2, ReturnStep DEF Finish
<1>3. CASE r.page # MaxPages /\ run' = [run EXCEPT ![i].pc = "search", ![i].page = r.page + 1]
    <2>1. page \in Nat /\ page <= MaxPages
        BY <1>1, <1>3 DEF Run, ConstantsFit
    <2>2. run' = [run EXCEPT ![i] = v]
        BY <1>1, <1>3 DEF RunsFit, Run
    <2> HIDE DEF r, page
    <2>3. v \in Run /\ v.pc = "search" /\ v.rows = r.rows /\ v.page = page /\ v.feed = r.feed
        BY <1>1, <2>1 DEF Run
    <2> HIDE DEF v
    <2>4. InHand(v)
        BY <1>1, <2>3 DEF InHand
    <2>5. Becomes(i, v)
        BY <2>1, <2>2, <2>3, <2>4 DEF Becomes
    <2> QED
        BY <2>5
<1> QED
    BY <1>2, <1>3 DEF PageDone

\* Every step of an ingester keeps the run in hand good.
LEMMA IngesterStep ==
    ASSUME ConstantsFit, Rows, RunsFit, NEW i \in Ingesters,
           \/ \E feed \in Feeds, from, to \in Dates : Start(i, feed, from, to)
           \/ RunStep(i)
           \/ Crash(i)
    PROVE  \E v : Becomes(i, v)
<1>1. CASE SearchFails(i)
    BY <1>1, ReturnStep DEF SearchFails, Abort
<1>2. CASE Crash(i)
    BY <1>2, ReturnStep DEF Crash
<1> QED
    BY <1>1, <1>2, StartStep, SearchStep, RowStep, PersistStep, PageDoneStep DEF RunStep

\* The runs after any step.
LEMMA RunsStep ==
    ASSUME ConstantsFit, Rows, RunsFit, [Next]_vars
    PROVE  RunsFit'
<1>1. CASE run' = run
    BY <1>1, HandStays DEF RunsFit
<1>2. ASSUME NEW i \in Ingesters, NEW v, Becomes(i, v)
      PROVE  RunsFit'
    <2>1. run' \in [Ingesters -> Run]
        BY <1>2 DEF Becomes, RunsFit
    <2>2. InHand(v)'
        BY <1>2, HandStays DEF Becomes
    <2>3. ASSUME NEW j \in Ingesters
          PROVE  run'[j].page <= MaxPages /\ InHand(run[j])'
        <3>1. CASE j = i
            <4>1. run'[j] = v
                BY <1>2, <3>1 DEF Becomes, RunsFit
            <4> QED
                BY <1>2, <2>2, <4>1 DEF Becomes, InHand, Newest, Accept, Earliest
        <3>2. CASE j # i
            <4>1. run'[j] = run[j] /\ run[j].page <= MaxPages /\ InHand(run[j])
                BY <1>2, <3>2 DEF Becomes, RunsFit
            <4> QED
                BY <4>1, HandStays
        <3> QED
            BY <3>1, <3>2
    <2> QED
        BY <2>1, <2>3 DEF RunsFit
<1>3. ASSUME NEW d \in Docs, Withdraw(d)
      PROVE  RunsFit'
    <2>1. ASSUME NEW j \in Ingesters
          PROVE  run'[j] \in Run /\ run'[j].page <= MaxPages /\ InHand(run[j])'
        <3> DEFINE r == run[j]
                   shifted == r.shifted \/ d \in InWindow(r)
                   v == [r EXCEPT !.shifted = shifted]
        <3>1. r \in Run /\ r.page <= MaxPages /\ InHand(r)
            BY DEF RunsFit
        <3>2. run'[j] = v
            BY <1>3 DEF Withdraw
        <3>3. shifted \in BOOLEAN
            OBVIOUS
        <3> HIDE DEF r, shifted
        <3>4. v \in Run /\ v.pc = r.pc /\ v.rows = r.rows /\ v.page = r.page /\ v.feed = r.feed
            BY <3>1, <3>3 DEF Run
        <3> HIDE DEF v
        <3>5. PICK w : w = v
            OBVIOUS
        <3>6. InHand(w)
            BY <3>1, <3>4, <3>5 DEF InHand
        <3>7. InHand(w)'
            BY <3>6, HandStays
        <3>8. InHand(run[j])'
            BY <3>2, <3>5, <3>7 DEF InHand, Newest, Accept, Earliest
        <3> QED
            BY <3>1, <3>2, <3>4, <3>8
    <2>2. run' \in [Ingesters -> Run]
        BY <1>3, <2>1 DEF Withdraw
    <2> QED
        BY <2>1, <2>2 DEF RunsFit
<1> QED
    BY <1>1, <1>2, <1>3, IngesterStep DEF Next, DiaryStep, Publish, Mend, vars

-----------------------------------------------------------------------------
(* The events.                                                             *)

\* What becomes an event was accepted and first in its case.
LEMMA EventsStep ==
    ASSUME ConstantsFit, Rows, RunsFit, EventsFit, [Next]_vars
    PROVE  EventsFit'
<1>1. \A d \in events : OnePerCase(FeedOf[d]) => Earliest(d)
    BY DEF EventsFit, EventsAreEarliest, Earliest
<1>2. ASSUME NEW d \in events'
      PROVE  /\ d \in listed \cup gone /\ d \notin Rejected
             /\ OnePerCase(FeedOf[d]) => Earliest(d)
    <2>1. CASE d \in events
        BY <1>1, <2>1 DEF EventsFit
    <2>2. ASSUME NEW i \in Ingesters, Persist(i), d \notin events
          PROVE  /\ d \in listed \cup gone /\ d \notin Rejected
                 /\ OnePerCase(FeedOf[d]) => Earliest(d)
        <3>1. d \in Newest(run[i].rows) /\ run[i].pc = "persist"
            BY <1>2, <2>2 DEF Persist
        <3>2. d \in run[i].rows /\ InHand(run[i])
            BY <3>1 DEF Newest, RunsFit
        <3> QED
            BY <3>1, <3>2 DEF InHand, Accept
    <2>3. events' = events \/ \E i \in Ingesters : Persist(i)
        BY DEF Next, DiaryStep, Publish, Mend, Withdraw, Start, RunStep, Search, SearchFails, Row,
           PersistFails, PageDone, Crash, vars
    <2> QED
        BY <2>1, <2>2, <2>3
<1>3. ASSUME NEW d \in events'
      PROVE  d \in listed' \cup gone'
    <2>1. listed \cup gone \subseteq listed' \cup gone'
        BY DEF Next, DiaryStep, Publish, Mend, Withdraw, Start, RunStep, Search, SearchFails, Row, Persist,
           PersistFails, PageDone, Crash, vars
    <2> QED
        BY <1>2, <2>1
<1>4. ASSUME NEW d \in events', OnePerCase(FeedOf[d])
      PROVE  Earliest(d)'
    BY <1>2, <1>4, FirstStaysFirst
<1> QED
    BY <1>2, <1>3, <1>4 DEF EventsFit, EventsAreEarliest, Earliest

\* What the runs report and how often they fail.
LEMMA CountsStep ==
    ASSUME ConstantsFit, Counts, [Next]_vars
    PROVE  Counts'
<1>1. report' \in [Ingesters -> {"none", "aborted", "persist failures", "complete"}]
    BY DEF Counts, Next, DiaryStep, Publish, Mend, Withdraw, Start, RunStep, Search, SearchFails, Row, Persist,
       PersistFails, PageDone, Crash, Return, Abort, Finish, vars
<1>2. faults' = faults \/ Fault
    BY DEF Next, DiaryStep, Publish, Mend, Withdraw, Start, RunStep, Search, SearchFails, Row, Persist,
       PersistFails, PageDone, Crash, vars
<1>3. faults' \in 0..MaxFaults
    <2>1. faults \in 0..MaxFaults /\ MaxFaults \in Nat
        BY DEF Counts, ConstantsFit
    <2>2. CASE Fault
        BY <2>1, <2>2 DEF Fault
    <2> QED
        BY <1>2, <2>1, <2>2
<1> QED
    BY <1>1, <1>3 DEF Counts

-----------------------------------------------------------------------------
(* The pages.                                                              *)

\* The rows of r's window that the source shows before d.
Newer(r, d) == {e \in Listing(r) : e > d}

\* The rows of a window have different places, and there are no gaps.
LEMMA Places ==
    ASSUME NEW L \in SUBSET Nat, IsFiniteSet(L)
    PROVE  /\ \A d \in L : Cardinality({e \in L : e > d}) \in 0..(Cardinality(L) - 1)
           /\ \A a, b \in L : Cardinality({e \in L : e > a}) = Cardinality({e \in L : e > b}) => a = b
           /\ \A k \in 0..(Cardinality(L) - 1) : \E d \in L : Cardinality({e \in L : e > d}) = k
<1> DEFINE n == Cardinality(L)
           place == [d \in L |-> Cardinality({e \in L : e > d})]
<1>1. n \in Nat
    BY FS_CardinalityType
<1>2. ASSUME NEW S \in SUBSET L, NEW T \in SUBSET S, NEW x \in S \ T
      PROVE  Cardinality(T) < Cardinality(S) /\ Cardinality(T) \in Nat /\ Cardinality(S) \in Nat
    <2>1. IsFiniteSet(S) /\ IsFiniteSet(T)
        BY FS_Subset
    <2>2. Cardinality(T) <= Cardinality(S) /\ Cardinality(T) # Cardinality(S)
        BY <1>2, <2>1, FS_Subset
    <2>3. Cardinality(T) \in Nat /\ Cardinality(S) \in Nat
        BY <2>1, FS_CardinalityType
    <2> QED
        BY <2>2, <2>3
<1>3. ASSUME NEW d \in L
      PROVE  place[d] \in 0..(n - 1)
    <2>1. {e \in L : e > d} \in SUBSET L /\ d \in L \ {e \in L : e > d}
        OBVIOUS
    <2>2. Cardinality({e \in L : e > d}) < n /\ Cardinality({e \in L : e > d}) \in Nat
        BY <1>2, <2>1
    <2> QED
        BY <1>1, <2>2
<1>4. ASSUME NEW a \in L, NEW b \in L, a < b
      PROVE  place[b] < place[a]
    <2>0. \A e \in L : e \in Nat
        OBVIOUS
    <2>1. /\ {e \in L : e > a} \in SUBSET L
          /\ {e \in L : e > b} \in SUBSET {e \in L : e > a}
          /\ b \in {e \in L : e > a} \ {e \in L : e > b}
        <3>1. \A e \in L : e > b => e > a
            BY <1>4, <2>0
        <3>2. b > a /\ ~(b > b)
            BY <1>4, <2>0
        <3> QED
            BY <3>1, <3>2
    <2>2. Cardinality({e \in L : e > b}) < Cardinality({e \in L : e > a})
        BY <1>2, <2>1
    <2> QED
        BY <2>2
<1>5. \A a, b \in L : place[a] = place[b] => a = b
    <2>1. \A a \in L : place[a] \in Nat
        BY <1>1, <1>3
    <2>2. \A a, b \in L : a < b \/ b < a \/ a = b
        OBVIOUS
    <2> HIDE DEF place
    <2> QED
        BY <1>4, <2>1, <2>2
<1>6. \A k \in 0..(n - 1) : \E d \in L : place[d] = k
    <2>1. place \in Injection(L, 0..(n - 1))
        BY <1>3, <1>5, Fun_IsInj
    <2>2. IsFiniteSet(0..(n - 1)) /\ Cardinality(0..(n - 1)) = n
        <3> HIDE DEF n
        <3>1. n - 1 \in Int /\ 0 \in Int /\ (IF 0 > n - 1 THEN 0 ELSE n - 1 - 0 + 1) = n
            BY <1>1
        <3> QED
            BY <3>1, FS_Interval
    <2>3. place \in Surjection(L, 0..(n - 1))
        BY <2>1, <2>2, FS_Injection
    <2> HIDE DEF place
    <2> QED
        BY <2>3 DEF Surjection
<1> QED
    BY <1>3, <1>5, <1>6

\* What a search for a page finds: at most PageSize rows, and some if a row of
\* the window has its place on this page or a later one.
LEMMA PageFinds ==
    ASSUME ConstantsFit, Rows, NEW r \in Run, r.page >= 1
    PROVE  /\ PageOf(r) \in SUBSET Listing(r)
           /\ \A d \in Listing(r) : Cardinality(Newer(r, d)) \in 0..(Cardinality(Listing(r)) - 1)
           /\ Cardinality(PageOf(r)) \in 0..PageSize
           /\ \A d \in Listing(r) :
                 /\ d \in PageOf(r) <=> /\ PageSize * (r.page - 1) <= Cardinality(Newer(r, d))
                                        /\ Cardinality(Newer(r, d)) < PageSize * r.page
                 /\ PageSize * (r.page - 1) <= Cardinality(Newer(r, d)) => PageOf(r) # {}
<1> DEFINE L == Listing(r)
           place == [d \in L |-> Cardinality(Newer(r, d))]
<1>1. PICK low \in Nat : low = PageSize * (r.page - 1)
    BY DEF Run, ConstantsFit
<1>2. PageSize \in Nat /\ PageSize >= 1
    BY DEF ConstantsFit
<1>3. low + PageSize = PageSize * r.page
    BY <1>1, <1>2 DEF Run
<1>4. PageOf(r) = {d \in L : low <= Cardinality(Newer(r, d)) /\ Cardinality(Newer(r, d)) < low + PageSize}
    BY <1>1, <1>3 DEF PageOf, Newer
<1>5. L \in SUBSET Nat /\ IsFiniteSet(L)
    <2>1. L \in SUBSET Docs
        BY DEF Listing, Rows
    <2> QED
        BY <2>1, FS_Subset DEF ConstantsFit
<1>6. /\ \A d \in L : place[d] \in 0..(Cardinality(L) - 1)
      /\ \A a, b \in L : place[a] = place[b] => a = b
      /\ \A k \in 0..(Cardinality(L) - 1) : \E d \in L : place[d] = k
    <2>1. \A d \in L : place[d] = Cardinality({e \in L : e > d})
        BY DEF Newer
    <2> HIDE DEF L, place
    <2>2. /\ \A d \in L : Cardinality({e \in L : e > d}) \in 0..(Cardinality(L) - 1)
          /\ \A a, b \in L : Cardinality({e \in L : e > a}) = Cardinality({e \in L : e > b}) => a = b
          /\ \A k \in 0..(Cardinality(L) - 1) : \E d \in L : Cardinality({e \in L : e > d}) = k
        BY <1>5, Places
    <2> QED
        BY <2>1, <2>2
<1>7. Cardinality(L) \in Nat
    BY <1>5, FS_CardinalityType
<1>8. PageOf(r) = {d \in L : low <= place[d] /\ place[d] < low + PageSize}
    BY <1>4
<1> HIDE DEF place
<1>9. Cardinality(PageOf(r)) \in 0..PageSize
    <2> DEFINE here == [d \in PageOf(r) |-> place[d]]
    <2>1. ASSUME NEW d \in PageOf(r)
          PROVE  here[d] \in low..(low + PageSize - 1)
        BY <1>1, <1>2, <1>6, <1>7, <1>8
    <2>2. here \in Injection(PageOf(r), low..(low + PageSize - 1))
        BY <1>6, <1>8, <2>1, Fun_IsInj
    <2>3. /\ IsFiniteSet(low..(low + PageSize - 1))
          /\ Cardinality(low..(low + PageSize - 1)) = PageSize
        <3>1. PICK high : high = low + PageSize - 1
            OBVIOUS
        <3>2. low \in Int /\ high \in Int /\ (IF low > high THEN 0 ELSE high - low + 1) = PageSize
            BY <1>2, <3>1
        <3>3. IsFiniteSet(low..high) /\ Cardinality(low..high) = PageSize
            BY <3>2, FS_Interval
        <3> QED
            BY <3>1, <3>3
    <2>4. Cardinality(PageOf(r)) <= PageSize /\ IsFiniteSet(PageOf(r))
        BY <2>2, <2>3, FS_Injection
    <2> QED
        BY <1>2, <2>4, FS_CardinalityType
<1>10. ASSUME NEW d \in L, low <= place[d]
       PROVE  PageOf(r) # {}
    <2>1. low \in 0..(Cardinality(L) - 1)
        BY <1>6, <1>7, <1>10
    <2>2. PICK x \in L : place[x] = low
        BY <1>6, <2>1
    <2> QED
        BY <1>2, <1>8, <2>2
<1>11. \A d \in L : place[d] = Cardinality(Newer(r, d))
    BY DEF place
<1> QED
    BY <1>1, <1>3, <1>4, <1>6, <1>9, <1>10, <1>11

\* How many pages of its listing a run has behind it or in hand.
PagesRead(r) == IF r.pc = "search" THEN r.page - 1 ELSE r.page

\* The run need do nothing more for d, or is going to report that it failed.
Settled(r, d) == d \in Due(r) => d \in events \/ r.failed

\* d is in hand, or on a page that the run has still to read: it cannot take
\* the page in hand for the last one.
Reached(r, d) ==
    \/ r.pc # "search" /\ d \in r.rows
    \/ /\ PageSize * PagesRead(r) <= Cardinality(Newer(r, d))
       /\ r.pc # "search" => r.seen < r.total

\* Unless a row of its window was taken down, a run has lost no row that the
\* diary listed when it began, the ones of S aside.
Paged(r, S) ==
    /\ r.page >= 1
    /\ r.seen <= PageSize * PagesRead(r)
    /\ r.kept \subseteq InWindow(r)
    /\ r.shifted \/ /\ r.kept \subseteq listed \ malformed
                    /\ \A d \in r.kept \ S : Settled(r, d) \/ Reached(r, d)

\* While the diary goes on, a row of the window only moves to later pages, and
\* what a run need not do it need not do later.
LEMMA PagedStays ==
    ASSUME ConstantsFit, Rows, [Next]_vars, NEW r \in Run, NEW S, Paged(r, S),
           r.shifted \/ InWindow(r) \cap listed \subseteq listed'
    PROVE  Paged(r, S)'
<1>1. /\ events \subseteq events'
      /\ malformed' \cap listed \subseteq malformed
    BY DEF Rows, Next, DiaryStep, Publish, Mend, Withdraw, Start, RunStep, Search, SearchFails, Row, Persist,
       PersistFails, PageDone, Crash, vars
<1>2. (r.page >= 1)' /\ (r.seen <= PageSize * PagesRead(r))' /\ (r.kept \subseteq InWindow(r))'
    BY DEF Paged, PagesRead, InWindow
<1>3. ASSUME ~r.shifted
      PROVE  /\ (r.kept \subseteq listed \ malformed)'
             /\ \A d \in r.kept \ S : (Settled(r, d) \/ Reached(r, d))'
    <2>1. r.kept \subseteq listed' /\ r.kept \subseteq listed \ malformed
        BY <1>3 DEF Paged
    <2>2. r.kept \cap malformed' = {}
        BY <1>1, <2>1
    <2>3. ASSUME NEW d \in r.kept \ S
          PROVE  (Settled(r, d) \/ Reached(r, d))'
        <3>1. d \in listed /\ d \in Docs
            BY <2>1 DEF Rows
        <3>2. CASE Settled(r, d)
            <4>1. ASSUME NEW e \in CaseMates(d) \cap listed, ~(d <= e)
                  PROVE  e \in listed'
                <5>1. e \in Docs /\ CaseOf[e] = CaseOf[d] /\ d \in Nat
                    BY <3>1 DEF CaseMates, ConstantsFit
                <5>2. e # d
                    BY <4>1, <5>1
                <5>3. e \notin Withdrawable
                    BY <3>1, <5>1, <5>2 DEF ConstantsFit
                <5> QED
                    BY <5>3 DEF Next, DiaryStep, Publish, Mend, Withdraw, Start, RunStep, Search, SearchFails,
                       Row, Persist, PersistFails, PageDone, Crash, vars
            <4>2. d \in Due(r)' => d \in Due(r)
                BY <4>1 DEF Due, CaseMates, Accept
            <4>3. Settled(r, d)'
                BY <1>1, <3>2, <4>2 DEF Settled
            <4> QED
                BY <4>3
        <3>3. CASE Reached(r, d)
            <4>1. Newer(r, d) \subseteq Newer(r, d)'
                BY <1>3 DEF Newer, Listing, InWindow
            <4>2. IsFiniteSet(Newer(r, d)')
                <5>1. Newer(r, d)' \in SUBSET Docs
                    BY DEF Newer, Listing, InWindow
                <5> QED
                    BY <5>1, FS_Subset DEF ConstantsFit
            <4>3. Cardinality(Newer(r, d)) <= Cardinality(Newer(r, d)')
                BY <4>1, <4>2, FS_Subset
            <4>4. Cardinality(Newer(r, d)) \in Nat /\ Cardinality(Newer(r, d)') \in Nat
                BY <4>1, <4>2, FS_Subset, FS_CardinalityType
            <4>5. PICK low \in Int : low = PageSize * PagesRead(r)
                BY DEF PagesRead, ConstantsFit, Run
            <4>6. Reached(r, d)'
                BY <3>3, <4>3, <4>4, <4>5 DEF Reached, PagesRead
            <4> QED
                BY <4>6
        <3>4. Settled(r, d) \/ Reached(r, d)
            BY <1>3 DEF Paged
        <3> QED
            BY <3>2, <3>3, <3>4
    <2> QED
        BY <2>1, <2>2, <2>3
<1> QED
    BY <1>2, <1>3 DEF Paged

\* A step of i makes its run v, which has lost no row after it.
GoesOn(i, v) == run' = [run EXCEPT ![i] = v] /\ Paged(v, {})'

\* A run that is not in progress has nothing to find.
LEMMA PagedAtRest ==
    ASSUME ConstantsFit
    PROVE  Paged(NotRunning, {})
<1>1. NotRunning.page = 1 /\ NotRunning.seen = 0 /\ NotRunning.kept = {} /\ NotRunning.pc = "idle"
    BY DEF NotRunning
<1>2. PageSize * 1 >= 0
    BY DEF ConstantsFit
<1> QED
    BY <1>1, <1>2 DEF Paged, PagesRead

LEMMA PagedReturn ==
    ASSUME ConstantsFit, NEW i \in Ingesters, NEW what, Return(i, what)
    PROVE  \E v : GoesOn(i, v)
<1>1. PICK v : v = NotRunning
    OBVIOUS
<1>2. Paged(v, {})'
    <2>1. v.page = 1 /\ v.seen = 0 /\ v.kept = {} /\ v.pc = "idle"
        BY <1>1 DEF NotRunning
    <2>2. PageSize * 1 >= 0
        BY DEF ConstantsFit
    <2> QED
        BY <2>1, <2>2 DEF Paged, PagesRead
<1> QED
    BY <1>1, <1>2 DEF GoesOn, Return

\* A run begins before the first page.
LEMMA PagedStart ==
    ASSUME ConstantsFit, Rows, [Next]_vars, NEW i \in Ingesters,
           NEW feed \in Feeds, NEW from \in Dates, NEW to \in Dates, Start(i, feed, from, to)
    PROVE  \E v : GoesOn(i, v)
<1> DEFINE r == [NotRunning EXCEPT !.pc = "search", !.feed = feed, !.from = from, !.to = to]
           kept == (listed \cap InWindow(r)) \ malformed
           start == [r EXCEPT !.kept = kept]
<1>1. r \in Run /\ r.page = 1 /\ r.seen = 0 /\ r.pc = "search"
    BY Resting DEF Run, NotRunning
<1>2. PICK v : v = start
    OBVIOUS
<1>3. kept \in SUBSET Docs
    BY DEF Rows
<1>4. run' = [run EXCEPT ![i] = v] /\ listed' = listed
    BY <1>2 DEF Start
<1>5. /\ v \in Run /\ v.page = 1 /\ v.seen = 0 /\ v.pc = "search"
      /\ v.kept = kept /\ v.feed = r.feed /\ v.from = r.from /\ v.to = r.to
    <2> HIDE DEF r, kept
    <2> QED
        BY <1>1, <1>2, <1>3 DEF Run
<1> HIDE DEF r, start
<1>6. InWindow(v) = InWindow(r)
    BY <1>5 DEF InWindow
<1>7. Paged(v, {})
    <2>1. PICK none \in Nat : none = 0 /\ none = PageSize * (1 - 1)
        BY DEF ConstantsFit
    <2>2. ASSUME NEW d \in v.kept
          PROVE  Reached(v, d)
        <3>1. d \in Listing(v)
            BY <1>5, <1>6 DEF Listing
        <3>2. Cardinality(Newer(v, d)) \in 0..(Cardinality(Listing(v)) - 1)
            BY <1>5, <3>1, PageFinds
        <3>3. PagesRead(v) = 1 - 1
            BY <1>5 DEF PagesRead
        <3> QED
            BY <1>5, <2>1, <3>2, <3>3 DEF Reached
    <2> QED
        BY <1>5, <1>6, <2>1, <2>2 DEF Paged, PagesRead
<1>8. Paged(v, {})'
    BY <1>4, <1>5, <1>7, PagedStays
<1> QED
    BY <1>4, <1>8 DEF GoesOn

\* A page that is read takes the rows in hand that the source shows on it; the
\* rest of the window has more rows than the run has seen.
LEMMA PagedSearch ==
    ASSUME ConstantsFit, Rows, RunsFit, [Next]_vars, NEW i \in Ingesters, Paged(run[i], {}), Search(i)
    PROVE  \E v : GoesOn(i, v)
<1>1. PICK r : r = run[i]
    OBVIOUS
<1> DEFINE page == PageOf(r)
           seen == r.seen + Cardinality(page)
           total == Cardinality(Listing(r))
           read == [r EXCEPT !.pc = "rows", !.rows = page \ malformed, !.seen = seen, !.total = total]
<1>2. r \in Run /\ Paged(r, {}) /\ r.pc = "search" /\ r.page >= 1
    BY <1>1 DEF RunsFit, Paged, Search
<1>3. CASE Finish(i)
    BY <1>3, PagedReturn DEF Finish
<1>4. CASE run' = [run EXCEPT ![i] = read]
    <2>1. PICK v : v = read
        OBVIOUS
    <2>2. /\ page \in SUBSET Listing(r)
          /\ \A d \in Listing(r) : Cardinality(Newer(r, d)) \in 0..(total - 1)
          /\ Cardinality(page) \in 0..PageSize
          /\ \A d \in Listing(r) :
                 d \in page <=> /\ PageSize * (r.page - 1) <= Cardinality(Newer(r, d))
                                /\ Cardinality(Newer(r, d)) < PageSize * r.page
        BY <1>2, PageFinds
    <2>3. Listing(r) \in SUBSET Docs
        BY DEF Listing, Rows
    <2>4. total \in Nat /\ seen \in Nat
        BY <1>2, <2>2, <2>3, FS_Subset, FS_CardinalityType DEF ConstantsFit, Run
    <2> HIDE DEF page, total, read, seen
    <2>5. /\ v \in Run /\ v.pc = "rows" /\ v.rows = page \ malformed /\ v.seen = seen /\ v.total = total
          /\ v.page = r.page /\ v.kept = r.kept /\ v.feed = r.feed /\ v.from = r.from /\ v.to = r.to
          /\ v.shifted = r.shifted /\ v.failed = r.failed
        BY <1>2, <2>1, <2>2, <2>3, <2>4 DEF Run, read
    <2>6. InWindow(v) = InWindow(r) /\ Due(v) = Due(r) /\ Listing(v) = Listing(r)
        BY <2>5 DEF InWindow, Due, Listing
    <2>7. \A d : Newer(v, d) = Newer(r, d)
        BY <2>6 DEF Newer
    <2>8. PICK low \in Nat : low = PageSize * (r.page - 1)
        BY <1>2 DEF Run, ConstantsFit
    <2>9. low + PageSize = PageSize * r.page /\ PageSize \in Nat
        BY <1>2, <2>8 DEF Run, ConstantsFit
    <2>10. seen <= low + PageSize
        <3>1. r.seen <= low /\ r.seen \in Nat
            BY <1>2, <2>8 DEF Paged, PagesRead, Run
        <3> QED
            BY <2>2, <2>8, <2>9, <3>1 DEF seen
    <2>11. ASSUME NEW d \in r.kept, ~r.shifted
           PROVE  Settled(v, d) \/ Reached(v, d)
        <3>1. d \in Listing(r) /\ d \notin malformed
            BY <1>2, <2>11 DEF Paged, Listing
        <3>2. CASE Settled(r, d)
            BY <2>5, <2>6, <3>2 DEF Settled
        <3>3. CASE Reached(r, d)
            <4>1. low <= Cardinality(Newer(r, d))
                BY <1>2, <2>8, <3>3 DEF Reached, PagesRead
            <4>2. CASE d \in page
                BY <2>5, <3>1, <4>2 DEF Reached
            <4>3. CASE d \notin page
                <5>1. low + PageSize <= Cardinality(Newer(r, d)) /\ Cardinality(Newer(r, d)) < total
                    BY <2>2, <2>4, <2>8, <2>9, <3>1, <4>1, <4>3
                <5>2. seen < total
                    BY <2>2, <2>4, <2>8, <2>9, <2>10, <3>1, <5>1
                <5> QED
                    BY <2>5, <2>7, <2>9, <5>1, <5>2 DEF Reached, PagesRead
            <4> QED
                BY <4>2, <4>3
        <3> QED
            BY <1>2, <2>11, <3>2, <3>3 DEF Paged
    <2>12. Paged(v, {})
        BY <1>2, <2>5, <2>6, <2>9, <2>10, <2>11 DEF Paged, PagesRead
    <2>13. Paged(v, {})'
        BY <2>5, <2>12, PagedStays DEF Search
    <2> QED
        BY <1>4, <2>1, <2>13 DEF GoesOn
<1> QED
    BY <1>1, <1>3, <1>4 DEF Search

\* The run goes on with the rows after d; whether d is lost is left open.
LEMMA PagedBut ==
    ASSUME NEW r \in Run, Paged(r, {}), r.pc # "search", NEW d, NEW failed \in BOOLEAN, r.failed => failed,
           NEW v, v = [r EXCEPT !.rows = r.rows \ {d}, !.pc = "rows", !.failed = failed]
    PROVE  /\ v \in Run /\ Paged(v, {d})
           /\ v.kept = r.kept /\ v.feed = r.feed /\ v.from = r.from /\ v.to = r.to
           /\ v.shifted = r.shifted /\ v.failed = failed
<1>1. /\ v \in Run /\ v.pc = "rows" /\ v.rows = r.rows \ {d} /\ v.seen = r.seen /\ v.total = r.total
      /\ v.page = r.page /\ v.kept = r.kept /\ v.feed = r.feed /\ v.from = r.from /\ v.to = r.to
      /\ v.shifted = r.shifted /\ v.failed = failed
    BY DEF Run
<1>2. InWindow(v) = InWindow(r) /\ Due(v) = Due(r) /\ Listing(v) = Listing(r) /\ PagesRead(v) = PagesRead(r)
    BY <1>1 DEF InWindow, Due, Listing, PagesRead
<1>3. \A e : Newer(v, e) = Newer(r, e)
    BY <1>2 DEF Newer
<1>4. ASSUME NEW e \in r.kept \ {d}, ~r.shifted
      PROVE  Settled(v, e) \/ Reached(v, e)
    <2>1. CASE Settled(r, e)
        BY <1>1, <1>2, <2>1 DEF Settled
    <2>2. CASE Reached(r, e)
        BY <1>1, <1>2, <1>3, <1>4, <2>2 DEF Reached
    <2> QED
        BY <1>4, <2>1, <2>2 DEF Paged
<1>5. Paged(v, {d})
    BY <1>1, <1>2, <1>4 DEF Paged
<1> QED
    BY <1>1, <1>5

\* A step keeps the rest of the window, and d is settled after it.
LEMMA PagedAfter ==
    ASSUME ConstantsFit, Rows, [Next]_vars, UNCHANGED listed, NEW i \in Ingesters, NEW r \in Run,
           Paged(r, {}), r.pc # "search", NEW d, NEW failed \in BOOLEAN, r.failed => failed, NEW v,
           v = [r EXCEPT !.rows = r.rows \ {d}, !.pc = "rows", !.failed = failed],
           Settled(v, d)'
    PROVE  Paged(v, {})'
<1>1. v \in Run /\ Paged(v, {d})
    BY PagedBut
<1>2. Paged(v, {d})'
    BY <1>1, PagedStays
<1> QED
    BY <1>2 DEF Paged

LEMMA PagedRow ==
    ASSUME ConstantsFit, Rows, RunsFit, [Next]_vars, NEW i \in Ingesters, Paged(run[i], {}), Row(i)
    PROVE  \E v : GoesOn(i, v)
<1>1. PICK r : r = run[i]
    OBVIOUS
<1>2. r \in Run /\ Paged(r, {}) /\ r.pc = "rows" /\ r.failed \in BOOLEAN
    BY <1>1 DEF RunsFit, Row, Run
<1>3. UNCHANGED <<listed, malformed, events>>
    BY DEF Row
<1>4. PICK d \in Newest(r.rows) :
         \/ /\ run' = NextRow(i, d)
            /\ \/ ~Accept(d)
               \/ OnePerCase(r.feed) /\ Complete(CaseRows(i, d)) /\ ~IsEarliest(CaseRows(i, d), d)
         \/ Abort(i)
         \/ run' = [run EXCEPT ![i].pc = "persist"]
    BY <1>1 DEF Row
<1>5. CASE Abort(i)
    BY <1>5, PagedReturn DEF Abort
<1>6. CASE run' = [run EXCEPT ![i].pc = "persist"]
    <2>1. PICK v : v = [r EXCEPT !.pc = "persist"]
        OBVIOUS
    <2>2. /\ v \in Run /\ v.pc = "persist" /\ v.rows = r.rows /\ v.seen = r.seen /\ v.total = r.total
          /\ v.page = r.page /\ v.kept = r.kept /\ v.feed = r.feed /\ v.from = r.from /\ v.to = r.to
          /\ v.shifted = r.shifted /\ v.failed = r.failed
        BY <1>2, <2>1 DEF Run
    <2>3. InWindow(v) = InWindow(r) /\ Due(v) = Due(r) /\ Listing(v) = Listing(r) /\ PagesRead(v) = PagesRead(r)
        BY <1>2, <2>2 DEF InWindow, Due, Listing, PagesRead
    <2>4. \A e : Newer(v, e) = Newer(r, e)
        BY <2>3 DEF Newer
    <2>5. Paged(v, {})
        BY <1>2, <2>2, <2>3, <2>4 DEF Paged, Settled, Reached
    <2>6. Paged(v, {})'
        BY <1>3, <2>2, <2>5, PagedStays
    <2>7. run' = [run EXCEPT ![i] = v]
        BY <1>1, <1>6, <2>1
    <2> QED
        BY <2>6, <2>7 DEF GoesOn
<1>7. CASE /\ run' = NextRow(i, d)
           /\ \/ ~Accept(d)
              \/ OnePerCase(r.feed) /\ Complete(CaseRows(i, d)) /\ ~IsEarliest(CaseRows(i, d), d)
    <2>1. PICK v : v = [r EXCEPT !.rows = r.rows \ {d}, !.pc = "rows", !.failed = r.failed]
        OBVIOUS
    <2>2. run' = [run EXCEPT ![i] = v]
        BY <1>1, <1>2, <1>7, <2>1 DEF NextRow, Run, RunsFit
    <2>3. v.kept = r.kept /\ v.feed = r.feed
        BY <1>2, <2>1 DEF Run
    <2>4. d \notin Due(v)
        <3>1. CASE ~Accept(d)
            BY <3>1 DEF Due
        <3>2. CASE OnePerCase(r.feed) /\ ~IsEarliest(CaseRows(i, d), d)
            <4>1. PICK e \in CaseRows(i, d) : ~(d <= e)
                BY <3>2 DEF IsEarliest
            <4> QED
                BY <2>3, <3>2, <4>1 DEF Due, CaseRows
        <3> QED
            BY <1>7, <3>1, <3>2
    <2>5. Settled(v, d)'
        BY <1>3, <2>4 DEF Settled, Due, CaseMates, Accept
    <2>6. Paged(v, {})'
        BY <1>2, <1>3, <2>1, <2>5, PagedAfter
    <2> QED
        BY <2>2, <2>6 DEF GoesOn
<1> QED
    BY <1>4, <1>5, <1>6, <1>7

LEMMA PagedPersist ==
    ASSUME ConstantsFit, Rows, RunsFit, [Next]_vars, NEW i \in Ingesters, Paged(run[i], {}),
           Persist(i) \/ PersistFails(i)
    PROVE  \E v : GoesOn(i, v)
<1>1. PICK r : r = run[i]
    OBVIOUS
<1>2. r \in Run /\ Paged(r, {}) /\ r.pc = "persist" /\ r.failed \in BOOLEAN
    BY <1>1 DEF RunsFit, Persist, PersistFails, Run
<1>3. UNCHANGED listed
    BY DEF Persist, PersistFails
<1>4. PICK d : \E failed \in BOOLEAN :
         /\ run' = [run EXCEPT ![i] = [r EXCEPT !.rows = r.rows \ {d}, !.pc = "rows", !.failed = failed]]
         /\ r.failed => failed
         /\ failed \/ d \in events'
    <2>1. CASE Persist(i)
        <3>1. PICK d : events' = events \cup {d} /\ run' = NextRow(i, d)
            BY <2>1 DEF Persist
        <3>2. run' = [run EXCEPT ![i] = [r EXCEPT !.rows = r.rows \ {d}, !.pc = "rows", !.failed = r.failed]]
            BY <1>1, <1>2, <3>1 DEF NextRow, Run, RunsFit
        <3> QED
            BY <1>2, <3>1, <3>2
    <2>2. CASE PersistFails(i)
        <3>1. PICK d : run' = [NextRow(i, d) EXCEPT ![i].failed = TRUE]
            BY <2>2 DEF PersistFails
        <3>2. run' = [run EXCEPT ![i] = [r EXCEPT !.rows = r.rows \ {d}, !.pc = "rows", !.failed = TRUE]]
            BY <1>1, <1>2, <3>1 DEF NextRow, Run, RunsFit
        <3> QED
            BY <3>2
    <2> QED
        BY <2>1, <2>2
<1>5. PICK failed \in BOOLEAN :
         /\ run' = [run EXCEPT ![i] = [r EXCEPT !.rows = r.rows \ {d}, !.pc = "rows", !.failed = failed]]
         /\ r.failed => failed
         /\ failed \/ d \in events'
    BY <1>4
<1>6. PICK v : v = [r EXCEPT !.rows = r.rows \ {d}, !.pc = "rows", !.failed = failed]
    OBVIOUS
<1>7. v.failed = failed
    BY <1>2, <1>6 DEF Run
<1>8. Settled(v, d)'
    BY <1>5, <1>7 DEF Settled
<1>9. Paged(v, {})'
    BY <1>2, <1>3, <1>5, <1>6, <1>8, PagedAfter
<1> QED
    BY <1>5, <1>6, <1>9 DEF GoesOn

LEMMA PagedDone ==
    ASSUME ConstantsFit, Rows, RunsFit, [Next]_vars, NEW i \in Ingesters, Paged(run[i], {}), PageDone(i)
    PROVE  \E v : GoesOn(i, v)
<1>1. PICK r : r = run[i]
    OBVIOUS
<1>2. r \in Run /\ Paged(r, {}) /\ r.pc = "rows" /\ r.rows = {} /\ r.page \in Nat
    BY <1>1 DEF RunsFit, PageDone, Run
<1>3. CASE Finish(i)
    BY <1>3, PagedReturn DEF Finish
<1>4. CASE run' = [run EXCEPT ![i].pc = "search", ![i].page = r.page + 1]
    <2>1. PICK page : page = r.page + 1
        OBVIOUS
    <2>2. PICK v : v = [r EXCEPT !.pc = "search", !.page = page]
        OBVIOUS
    <2>3. run' = [run EXCEPT ![i] = v]
        BY <1>1, <1>2, <1>4, <2>1, <2>2 DEF RunsFit, Run
    <2>4. page \in Nat /\ page >= 1 /\ page - 1 = r.page
        BY <1>2, <2>1
    <2>5. /\ v \in Run /\ v.pc = "search" /\ v.rows = r.rows /\ v.seen = r.seen /\ v.total = r.total
          /\ v.page = page /\ v.kept = r.kept /\ v.feed = r.feed /\ v.from = r.from /\ v.to = r.to
          /\ v.shifted = r.shifted /\ v.failed = r.failed
        BY <1>2, <2>2, <2>4 DEF Run
    <2>6. InWindow(v) = InWindow(r) /\ Due(v) = Due(r) /\ Listing(v) = Listing(r) /\ PagesRead(v) = PagesRead(r)
        BY <1>2, <2>4, <2>5 DEF InWindow, Due, Listing, PagesRead
    <2>7. \A e : Newer(v, e) = Newer(r, e)
        BY <2>6 DEF Newer
    <2>8. Paged(v, {})
        BY <1>2, <2>4, <2>5, <2>6, <2>7 DEF Paged, Settled, Reached
    <2>9. Paged(v, {})'
        BY <2>5, <2>8, PagedStays DEF PageDone
    <2> QED
        BY <2>3, <2>9 DEF GoesOn
<1> QED
    BY <1>1, <1>3, <1>4 DEF PageDone

PagesFit == \A i \in Ingesters : Paged(run[i], {})

\* What an ingester does next loses no row of its window.
LEMMA PagedStep ==
    ASSUME ConstantsFit, Rows, RunsFit, PagesFit, [Next]_vars, NEW i \in Ingesters,
           \/ \E feed \in Feeds, from, to \in Dates : Start(i, feed, from, to)
           \/ RunStep(i)
           \/ Crash(i)
    PROVE  \E v : GoesOn(i, v)
<1>1. Paged(run[i], {})
    BY DEF PagesFit
<1>2. CASE SearchFails(i)
    BY <1>2, PagedReturn DEF SearchFails, Abort
<1>3. CASE Crash(i)
    BY <1>3, PagedReturn DEF Crash
<1> QED
    BY <1>1, <1>2, <1>3, PagedStart, PagedSearch, PagedRow, PagedPersist, PagedDone DEF RunStep

\* A run whose own record a step leaves alone loses nothing by it.
LEMMA PagedAlone ==
    ASSUME ConstantsFit, Rows, RunsFit, PagesFit, [Next]_vars, NEW j \in Ingesters,
           run'[j] = run[j], listed \subseteq listed'
    PROVE  Paged(run[j], {})'
<1>1. PICK r : r = run[j]
    OBVIOUS
<1>2. r \in Run /\ Paged(r, {})
    BY <1>1 DEF RunsFit, PagesFit
<1>3. Paged(r, {})'
    BY <1>2, PagedStays
<1> QED
    BY <1>1, <1>3 DEF Paged, PagesRead, InWindow, Settled, Due, Accept, CaseMates, Reached, Newer, Listing

LEMMA PagesStep ==
    ASSUME ConstantsFit, Rows, RunsFit, PagesFit, [Next]_vars
    PROVE  PagesFit'
<1>1. CASE run' = run /\ listed \subseteq listed'
    BY <1>1, PagedAlone DEF PagesFit
<1>2. ASSUME NEW i \in Ingesters, NEW v, GoesOn(i, v), listed \subseteq listed'
      PROVE  PagesFit'
    <2>1. ASSUME NEW j \in Ingesters, j # i
          PROVE  Paged(run[j], {})'
        <3>1. run'[j] = run[j]
            BY <1>2, <2>1 DEF GoesOn, RunsFit
        <3> QED
            BY <1>2, <3>1, PagedAlone
    <2>2. Paged(run[i], {})'
        <3>1. run'[i] = v /\ Paged(v, {})'
            BY <1>2 DEF GoesOn, RunsFit
        <3> QED
            BY <3>1 DEF Paged, PagesRead, InWindow, Settled, Due, Accept, CaseMates, Reached, Newer, Listing
    <2> QED
        BY <2>1, <2>2 DEF PagesFit
<1>3. ASSUME NEW d \in Docs, Withdraw(d), NEW j \in Ingesters
      PROVE  Paged(run[j], {})'
    <2>1. PICK r : r = run[j]
        OBVIOUS
    <2>2. PICK shifted \in BOOLEAN : shifted = (r.shifted \/ d \in InWindow(r))
        OBVIOUS
    <2>3. PICK v : v = [r EXCEPT !.shifted = shifted]
        OBVIOUS
    <2>4. run'[j] = v
        BY <1>3, <2>1, <2>2, <2>3 DEF Withdraw
    <2>5. r \in Run /\ Paged(r, {})
        BY <2>1 DEF RunsFit, PagesFit
    <2>6. /\ v \in Run /\ v.pc = r.pc /\ v.rows = r.rows /\ v.seen = r.seen /\ v.total = r.total
          /\ v.page = r.page /\ v.kept = r.kept /\ v.feed = r.feed /\ v.from = r.from /\ v.to = r.to
          /\ v.shifted = shifted /\ v.failed = r.failed
        BY <2>3, <2>5 DEF Run
    <2>7. InWindow(v) = InWindow(r) /\ Due(v) = Due(r) /\ Listing(v) = Listing(r) /\ PagesRead(v) = PagesRead(r)
        BY <2>6 DEF InWindow, Due, Listing, PagesRead
    <2>8. \A e : Newer(v, e) = Newer(r, e)
        BY <2>7 DEF Newer
    <2>9. r.shifted => shifted
        BY <2>2
    <2>10. Paged(v, {})
        BY <2>5, <2>6, <2>7, <2>8, <2>9 DEF Paged, Settled, Reached
    <2>11. v.shifted \/ InWindow(v) \cap listed \subseteq listed'
        BY <1>3, <2>2, <2>6, <2>7 DEF Withdraw
    <2>12. Paged(v, {})'
        BY <2>6, <2>10, <2>11, PagedStays
    <2> QED
        BY <2>4, <2>12
        DEF Paged, PagesRead, InWindow, Settled, Due, Accept, CaseMates, Reached, Newer, Listing
<1>4. ASSUME NEW i \in Ingesters,
             \/ \E feed \in Feeds, from, to \in Dates : Start(i, feed, from, to)
             \/ RunStep(i)
             \/ Crash(i)
      PROVE  PagesFit'
    <2>1. listed' = listed
        BY <1>4 DEF Start, RunStep, Search, SearchFails, Row, Persist, PersistFails, PageDone, Crash
    <2> QED
        BY <1>2, <1>4, <2>1, PagedStep
<1>5. CASE \E d \in Docs : Publish(d) \/ Mend(d)
    BY <1>1, <1>5 DEF Publish, Mend
<1> QED
    BY <1>1, <1>3, <1>4, <1>5 DEF Next, DiaryStep, PagesFit, vars

\* A run that returns without an error has done what it was there to do.
LEMMA ReturnsComplete ==
    ASSUME ConstantsFit, Rows, RunsFit, PagesFit, Counts, NEW i \in Ingesters, RunStep(i),
           run[i].pc # "idle", run'[i].pc = "idle", report'[i] = "complete"
    PROVE  NothingMissed(i)
<1>1. PICK r : r = run[i]
    OBVIOUS
<1>2. r \in Run /\ Paged(r, {}) /\ r.page >= 1 /\ r.page <= MaxPages
    BY <1>1 DEF RunsFit, PagesFit, Paged
<1>3. \A what : Return(i, what) => what = "complete"
    BY DEF Return, Counts
<1>4. /\ Finish(i)
      /\ \/ Search(i) /\ PageOf(r) = {}
         \/ PageDone(i) /\ (LastPage(r) \/ r.page = MaxPages)
    <2>1. ~Persist(i) /\ ~PersistFails(i) /\ ~SearchFails(i)
        <3>1. ~Abort(i)
            BY <1>3 DEF Abort
        <3>2. ASSUME NEW d, run' = NextRow(i, d) \/ run' = [NextRow(i, d) EXCEPT ![i].failed = TRUE]
              PROVE  FALSE
            <4>1. run'[i].pc = "rows"
                BY <1>1, <1>2, <3>2 DEF NextRow, RunsFit, Run
            <4> QED
                BY <4>1
        <3> QED
            BY <3>1, <3>2 DEF Persist, PersistFails, SearchFails
    <2>2. ~Row(i)
        <3>1. ~Abort(i)
            BY <1>3 DEF Abort
        <3>2. \A d : run' # NextRow(i, d)
            BY <1>1, <1>2 DEF NextRow, RunsFit, Run
        <3>3. run' # [run EXCEPT ![i].pc = "persist"]
            BY <1>1, <1>2 DEF RunsFit, Run
        <3> QED
            BY <3>1, <3>2, <3>3 DEF Row
    <2>3. CASE Search(i)
        <3>1. CASE PageOf(r) = {}
            BY <1>1, <2>3, <3>1 DEF Search
        <3>2. CASE PageOf(r) # {}
            <4>1. run'[i].pc = "rows"
                BY <1>1, <1>2, <2>3, <3>2 DEF Search, RunsFit, Run
            <4> QED
                BY <4>1
        <3> QED
            BY <3>1, <3>2
    <2>4. CASE PageDone(i)
        <3>1. CASE LastPage(r) \/ r.page = MaxPages
            BY <1>1, <2>4, <3>1 DEF PageDone
        <3>2. CASE ~(LastPage(r) \/ r.page = MaxPages)
            <4>1. run'[i].pc = "search"
                BY <1>1, <1>2, <2>4, <3>2 DEF PageDone, RunsFit, Run
            <4> QED
                BY <4>1
        <3> QED
            BY <3>1, <3>2
    <2> QED
        BY <2>1, <2>2, <2>3, <2>4 DEF RunStep
<1>5. ~r.failed
    <2>1. (IF r.failed THEN "persist failures" ELSE "complete") = "complete"
        BY <1>1, <1>3, <1>4 DEF Finish
    <2> QED
        BY <2>1
<1>6. ASSUME ~r.shifted, r.page # MaxPages, NEW d \in Due(r), d \notin events
      PROVE  FALSE
    <2>1. d \in r.kept /\ ~Settled(r, d)
        BY <1>5, <1>6 DEF Due, Settled
    <2>2. Reached(r, d) /\ d \in Listing(r)
        BY <1>2, <1>6, <2>1 DEF Paged, Listing
    <2>3. CASE Search(i) /\ PageOf(r) = {}
        <3>1. r.pc = "search"
            BY <1>1, <2>3 DEF Search
        <3>2. PageSize * (r.page - 1) <= Cardinality(Newer(r, d))
            BY <2>2, <3>1 DEF Reached, PagesRead
        <3> QED
            BY <1>2, <2>2, <2>3, <3>2, PageFinds
    <2>4. CASE PageDone(i) /\ LastPage(r)
        <3>1. r.pc = "rows" /\ r.rows = {} /\ r.seen >= r.total
            BY <1>1, <2>4 DEF PageDone, LastPage
        <3>2. r.seen < r.total /\ r.seen \in Nat /\ r.total \in Nat
            BY <1>2, <2>2, <3>1 DEF Reached, Run
        <3> QED
            BY <3>1, <3>2
    <2> QED
        BY <1>4, <1>6, <2>3, <2>4
<1> QED
    BY <1>1, <1>2, <1>6 DEF NothingMissed

\* A step after which a run has returned without an error is its last one.
LEMMA CompleteStep ==
    ASSUME ConstantsFit, Rows, RunsFit, PagesFit, Counts, [Next]_vars
    PROVE  \A i \in Ingesters :
              run[i].pc # "idle" /\ run'[i].pc = "idle" /\ report'[i] = "complete" => NothingMissed(i)
<1> SUFFICES ASSUME NEW i \in Ingesters, run[i].pc # "idle", run'[i].pc = "idle", report'[i] = "complete"
             PROVE  NothingMissed(i)
    OBVIOUS
<1>1. CASE RunStep(i)
    BY <1>1, ReturnsComplete
<1>2. CASE Crash(i)
    <2>1. report'[i] = "none"
        BY <1>2 DEF Crash, Return, Counts
    <2> QED
        BY <2>1
<1>3. CASE \E feed \in Feeds, from, to \in Dates : Start(i, feed, from, to)
    BY <1>3 DEF Start
<1>4. CASE UNCHANGED run
    BY <1>4
<1>5. ASSUME NEW d \in Docs, Withdraw(d) PROVE run'[i].pc = run[i].pc
    <2>1. PICK r : r = run[i]
        OBVIOUS
    <2>2. PICK shifted : shifted = (r.shifted \/ d \in InWindow(r))
        OBVIOUS
    <2>3. run'[i] = [r EXCEPT !.shifted = shifted] /\ r \in Run
        BY <1>5, <2>1, <2>2 DEF Withdraw, RunsFit
    <2> QED
        BY <2>1, <2>3 DEF Run
<1>6. ASSUME NEW j \in Ingesters, j # i,
             \/ \E feed \in Feeds, from, to \in Dates : Start(j, feed, from, to)
             \/ RunStep(j)
             \/ Crash(j)
      PROVE  run'[i] = run[i]
    <2>1. PICK v : GoesOn(j, v)
        BY <1>6, PagedStep
    <2> QED
        BY <1>6, <2>1 DEF GoesOn, RunsFit
<1> QED
    BY <1>1, <1>2, <1>3, <1>4, <1>5, <1>6 DEF Next, DiaryStep, Publish, Mend, vars

-----------------------------------------------------------------------------
DiaryInv == Rows /\ RunsFit /\ PagesFit /\ EventsFit /\ Counts

\* DiaryInv is inductive: it holds at first and every step keeps it.
LEMMA Initially ==
    ASSUME ConstantsFit, Init
    PROVE  DiaryInv
<1>1. Rows /\ EventsFit /\ Counts
    BY DEF Init, Rows, CasesInOrder, EventsFit, EventsAreEarliest, Counts, ConstantsFit
<1>2. RunsFit
    BY Resting DEF Init, RunsFit
<1>3. PagesFit
    BY PagedAtRest DEF Init, PagesFit
<1> QED
    BY <1>1, <1>2, <1>3 DEF DiaryInv

LEMMA EveryStep ==
    ASSUME ConstantsFit, DiaryInv, [Next]_vars
    PROVE  DiaryInv'
BY RowsStep, RunsStep, PagesStep, EventsStep, CountsStep DEF DiaryInv

LEMMA Invariant ==
    ASSUME ConstantsFit
    PROVE  Spec => []DiaryInv
<1>1. Init => DiaryInv
    BY Initially
<1>2. DiaryInv /\ [Next]_vars => DiaryInv'
    BY EveryStep
<1> QED
    BY <1>1, <1>2, PTL DEF Spec

\* The type invariant: an event is a document that was listed and accepted, and
\* no run goes past MaxPages.
THEOREM TypeCorrect ==
    ASSUME ConstantsFit
    PROVE  Spec => []TypeOK
<1>1. DiaryInv => TypeOK
    BY DEF DiaryInv, Rows, RunsFit, EventsFit, Counts, TypeOK
<1> QED
    BY <1>1, Invariant, PTL

\* A case never gets a second event of a OnePerCase feed, and the one it has is
\* of its first document, for any number of ingesters whose windows overlap in
\* any way, rows that cannot be read, requests and persists that fail and
\* processes that die.
THEOREM FirstOfTheCase ==
    ASSUME ConstantsFit
    PROVE  Spec => []EventsAreEarliest
<1>1. DiaryInv => EventsAreEarliest
    BY DEF DiaryInv, EventsFit
<1> QED
    BY <1>1, Invariant, PTL

\* A run that returns without an error has an event for every document that its
\* window held when it began and that is due one, although the documents that
\* appear meanwhile move the rows from page to page and single rows cannot be
\* read; for any page size, number of pages and number of ingesters.  The
\* exceptions are the ones of NothingMissed.
THEOREM CompleteRunsMissNothing ==
    ASSUME ConstantsFit
    PROVE  Spec => [][\A i \in Ingesters :
                         run[i].pc # "idle" /\ run'[i].pc = "idle" /\ report'[i] = "complete"
                         => NothingMissed(i)]_vars
<1>1. DiaryInv /\ [Next]_vars =>
         [\A i \in Ingesters :
             run[i].pc # "idle" /\ run'[i].pc = "idle" /\ report'[i] = "complete"
             => NothingMissed(i)]_vars
    BY CompleteStep DEF DiaryInv
<1> QED
    BY <1>1, Invariant, PTL DEF Spec
=============================================================================
