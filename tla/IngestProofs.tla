---------------------------- MODULE IngestProofs ----------------------------
(***************************************************************************)
(* Theorems about IngestCommand for any cases, documents, page sizes,      *)
(* bounds and days of invocation.                                          *)
(*                                                                         *)
(* Every step of the command is a step of the source's run or leaves it    *)
(* alone, so the invariants of the two sources hold of the command; what   *)
(* is left is what an exit code says of the run it is the end of.          *)
(***************************************************************************)
EXTENDS IngestCommand, TLAPS

CaseRuns == INSTANCE StockholmRefreshProofs WITH run <- caseRun, report <- caseReport
DiaryRuns == INSTANCE DiaryFeedProofs WITH run <- diaryRun, report <- diaryReport, Ingesters <- {Me}

\* A command is running exactly while its own source's run is, and the source
\* that is not ingested does not run.
OneRuns ==
    /\ source \in {"arbetsmiljoverket", "stockholm"}
    /\ exit \in {"none", "running", "0", "1", "killed"}
    /\ exit = "running" <=> caseRun.pc # "idle" \/ diaryRun[Me].pc # "idle"
    /\ source # "stockholm" => caseRun.pc = "idle"
    /\ source # "arbetsmiljoverket" => diaryRun[Me].pc = "idle"

IngestInv == CaseRuns!RefreshInv /\ DiaryRuns!DiaryInv /\ OneRuns

-----------------------------------------------------------------------------
(* What the command takes from the modules of its sources is what the      *)
(* theorems about them are about.                                          *)

LEMMA ConstantsOfTheRuns == CaseRuns!ConstantsFit /\ DiaryRuns!ConstantsFit
<1>1. CaseRuns!ConstantsFit
    BY IngestAssumption DEF IngestAssumption, Stockholm!ConstantsFit, CaseRuns!ConstantsFit,
       Stockholm!IsFiniteSet, CaseRuns!IsFiniteSet
<1>2. DiaryRuns!ConstantsFit
    BY IngestAssumption DEF IngestAssumption, Diary!ConstantsFit, DiaryRuns!ConstantsFit, Diary!IsFiniteSet,
       DiaryRuns!IsFiniteSet, Diary!Feeds, DiaryRuns!Feeds, Diary!OnePerCase, DiaryRuns!OnePerCase
<1> QED
    BY <1>1, <1>2

LEMMA StepsOfTheDiary ==
    /\ Diary!Init => DiaryRuns!Init
    /\ Diary!DiaryStep => DiaryRuns!DiaryStep
    /\ Diary!RunStep(Me) => DiaryRuns!RunStep(Me)
    /\ Diary!Crash(Me) => DiaryRuns!Crash(Me)
    /\ \A feed, from, to : Diary!Start(Me, feed, from, to) => DiaryRuns!Start(Me, feed, from, to)
<1>1. Diary!Init => DiaryRuns!Init
    BY DEF Diary!Init, DiaryRuns!Init, Diary!NotRunning, DiaryRuns!NotRunning, Diary!DefaultFeed,
       DiaryRuns!DefaultFeed
<1>2. Diary!DiaryStep => DiaryRuns!DiaryStep
    BY DEF Diary!DiaryStep, DiaryRuns!DiaryStep, Diary!Publish, DiaryRuns!Publish, Diary!Mend,
       DiaryRuns!Mend, Diary!Withdraw, DiaryRuns!Withdraw, Diary!CaseMates, DiaryRuns!CaseMates,
       Diary!InWindow, DiaryRuns!InWindow
<1>3. Diary!RunStep(Me) => DiaryRuns!RunStep(Me)
    BY DEF Diary!OnePerCase, DiaryRuns!OnePerCase, Diary!DefaultFeed, DiaryRuns!DefaultFeed,
       Diary!NotRunning, DiaryRuns!NotRunning, Diary!CaseMates, DiaryRuns!CaseMates, Diary!InWindow,
       DiaryRuns!InWindow, Diary!Fault, DiaryRuns!Fault, Diary!Return, DiaryRuns!Return, Diary!Abort,
       DiaryRuns!Abort, Diary!Finish, DiaryRuns!Finish, Diary!Listing, DiaryRuns!Listing, Diary!PageOf,
       DiaryRuns!PageOf, Diary!Search, DiaryRuns!Search, Diary!Accept, DiaryRuns!Accept, Diary!Newest,
       DiaryRuns!Newest, Diary!SearchFails, DiaryRuns!SearchFails, Diary!NextRow, DiaryRuns!NextRow,
       Diary!CaseRows, DiaryRuns!CaseRows, Diary!Complete, DiaryRuns!Complete, Diary!IsEarliest,
       DiaryRuns!IsEarliest, Diary!Row, DiaryRuns!Row, Diary!Persist, DiaryRuns!Persist,
       Diary!PersistFails, DiaryRuns!PersistFails, Diary!LastPage, DiaryRuns!LastPage, Diary!PageDone,
       DiaryRuns!PageDone, Diary!RunStep, DiaryRuns!RunStep, Diary!Cardinality, DiaryRuns!Cardinality
<1>4. Diary!Crash(Me) => DiaryRuns!Crash(Me)
    BY DEF Diary!Crash, DiaryRuns!Crash, Diary!Fault, DiaryRuns!Fault, Diary!Return, DiaryRuns!Return,
       Diary!NotRunning, DiaryRuns!NotRunning, Diary!DefaultFeed, DiaryRuns!DefaultFeed
<1>5. \A feed, from, to : Diary!Start(Me, feed, from, to) => DiaryRuns!Start(Me, feed, from, to)
    BY DEF Diary!Start, DiaryRuns!Start, Diary!NotRunning, DiaryRuns!NotRunning, Diary!DefaultFeed,
       DiaryRuns!DefaultFeed, Diary!InWindow, DiaryRuns!InWindow
<1> QED
    BY <1>1, <1>2, <1>3, <1>4, <1>5

LEMMA StepsOfTheCases ==
    /\ Stockholm!Init => CaseRuns!Init
    /\ \A c \in Cases : Stockholm!Spoil(c) => CaseRuns!Spoil(c)
    /\ Stockholm!Age => CaseRuns!Age
    /\ Stockholm!RunStep => CaseRuns!RunStep
    /\ Stockholm!Crash => CaseRuns!Crash
    /\ \A S : Stockholm!Search(S) => CaseRuns!Search(S)
<1>1. Stockholm!Init => CaseRuns!Init
    BY DEF Stockholm!Init, CaseRuns!Init, Stockholm!NotRunning, CaseRuns!NotRunning
<1>2. \A c \in Cases : Stockholm!Spoil(c) => CaseRuns!Spoil(c)
    BY DEF Stockholm!Spoil, CaseRuns!Spoil
<1>3. Stockholm!Age => CaseRuns!Age
    BY DEF Stockholm!Age, CaseRuns!Age, Stockholm!Oldest, CaseRuns!Oldest, Stockholm!Known, CaseRuns!Known
<1>4. Stockholm!RunStep => CaseRuns!RunStep
    BY DEF Stockholm!NotRunning, CaseRuns!NotRunning, Stockholm!Known, CaseRuns!Known, Stockholm!InOrder,
       CaseRuns!InOrder, Stockholm!OpenCases, CaseRuns!OpenCases, Stockholm!DueCases, CaseRuns!DueCases,
       Stockholm!ListDue, CaseRuns!ListDue, Stockholm!Skip, CaseRuns!Skip, Stockholm!Reads, CaseRuns!Reads,
       Stockholm!Fetched, CaseRuns!Fetched, Stockholm!Latest, CaseRuns!Latest, Stockholm!Confirm,
       CaseRuns!Confirm, Stockholm!Hit, CaseRuns!Hit, Stockholm!Counted, CaseRuns!Counted,
       Stockholm!PersistFails, CaseRuns!PersistFails, Stockholm!Aborted, CaseRuns!Aborted, Stockholm!Abort,
       CaseRuns!Abort, Stockholm!ListFails, CaseRuns!ListFails, Stockholm!Finish, CaseRuns!Finish,
       Stockholm!RunStep, CaseRuns!RunStep, Stockholm!Cardinality, CaseRuns!Cardinality
<1>5. Stockholm!Crash => CaseRuns!Crash
    BY DEF Stockholm!Crash, CaseRuns!Crash, Stockholm!Hit, CaseRuns!Hit, Stockholm!NotRunning,
       CaseRuns!NotRunning
<1>6. \A S : Stockholm!Search(S) => CaseRuns!Search(S)
    BY DEF Stockholm!Search, CaseRuns!Search, Stockholm!NotRunning, CaseRuns!NotRunning
<1> QED
    BY <1>1, <1>2, <1>3, <1>4, <1>5, <1>6

-----------------------------------------------------------------------------
(* The steps of the command.                                               *)

\* A command line that is accepted names a feed and a window of dates.
LEMMA InvocationsFit ==
    ASSUME NEW i \in Invocations
    PROVE  i.feed \in Diary!Feeds /\ i.window.from \in Dates /\ i.window.to \in Dates
<1>1. PICK args \in Args, now \in Present :
         Parses(args, now) /\ i = [source |-> args.source, feed |-> Feed(args), window |-> Window(args, now)]
    BY DEF Invocations
<1>2. now - 1 \in Dates
    BY DEF Dates
<1>3. \A flag \in Flags(Dates \cup {0}), default \in Dates :
         flag # <<0>> => Given(flag, default) \in Dates
    <2> TAKE flag \in Flags(Dates \cup {0}), default \in Dates
    <2> HAVE flag # <<0>>
    <2>1. flag = <<>> \/ \E x \in Dates \cup {0} : flag = <<x>>
        BY <1>3 DEF Flags, NoFlag
    <2>2. \A x \in Dates \cup {0} : flag = <<x>> => flag[1] \in Dates
        OBVIOUS
    <2> QED
        BY <2>1, <2>2 DEF Given, NoFlag
<1>4. /\ args.to \in Flags(Dates \cup {0}) /\ args.from \in Flags(Dates \cup {0})
      /\ args.to # <<0>> /\ args.from # <<0>>
    BY <1>1 DEF Args, Parses
<1>5. Given(args.to, now - 1) \in Dates
    BY <1>2, <1>3, <1>4
<1>6. Given(args.from, Given(args.to, now - 1)) \in Dates
    BY <1>3, <1>4, <1>5
<1>7. i.window = [from |-> Given(args.from, Given(args.to, now - 1)), to |-> Given(args.to, now - 1)]
    BY <1>1 DEF Window
<1>8. i.feed \in Diary!Feeds
    BY <1>1 DEF Parses
<1> QED
    BY <1>5, <1>6, <1>7, <1>8

\* A step of the command is one of its source's run, or of neither.
LEMMA TakesAStep ==
    ASSUME [Next]_vars
    PROVE  \/ [CaseRuns!Next]_(CaseRuns!vars) /\ UNCHANGED diaryVars
           \/ [DiaryRuns!Next]_(DiaryRuns!vars) /\ UNCHANGED stockholmVars
<1>1. CASE UNCHANGED vars \/ Refuse
    BY <1>1 DEF Refuse, vars, stockholmVars, diaryVars, CaseRuns!vars
<1>2. ASSUME NEW i \in Invocations, InvokeStockholm(i)
      PROVE  CaseRuns!Next /\ UNCHANGED diaryVars
    <2>1. PICK S \in SUBSET Cases : Stockholm!Search(S)
        BY <1>2 DEF InvokeStockholm
    <2>2. CaseRuns!Search(S)
        BY <2>1, StepsOfTheCases
    <2> QED
        BY <1>2, <2>2 DEF InvokeStockholm, CaseRuns!Next
<1>3. ASSUME NEW i \in Invocations, InvokeDiary(i)
      PROVE  DiaryRuns!Next /\ UNCHANGED stockholmVars
    <2>1. DiaryRuns!Start(Me, i.feed, i.window.from, i.window.to)
        BY <1>3, StepsOfTheDiary DEF InvokeDiary
    <2>2. i.feed \in DiaryRuns!Feeds /\ i.window.from \in Dates /\ i.window.to \in Dates
        BY InvocationsFit DEF Diary!Feeds, DiaryRuns!Feeds
    <2> QED
        BY <1>3, <2>1, <2>2 DEF InvokeDiary, DiaryRuns!Next
<1>4. CASE RunStockholm
    <2>1. CaseRuns!RunStep
        BY <1>4, StepsOfTheCases DEF RunStockholm
    <2> QED
        BY <1>4, <2>1 DEF RunStockholm, CaseRuns!Next
<1>5. CASE RunDiary
    <2>1. DiaryRuns!RunStep(Me)
        BY <1>5, StepsOfTheDiary DEF RunDiary
    <2> QED
        BY <1>5, <2>1 DEF RunDiary, DiaryRuns!Next
<1>6. CASE Killed
    <2>1. CASE Stockholm!Crash /\ UNCHANGED diaryVars
        BY <2>1, StepsOfTheCases DEF CaseRuns!Next
    <2>2. CASE Diary!Crash(Me) /\ UNCHANGED stockholmVars
        <3>1. DiaryRuns!Crash(Me)
            BY <2>2, StepsOfTheDiary
        <3> QED
            BY <2>2, <3>1 DEF DiaryRuns!Next
    <2> QED
        BY <1>6, <2>1, <2>2 DEF Killed
<1>7. CASE Outside
    <2>1. CASE UNCHANGED diaryVars /\ ((\E c \in Cases : Stockholm!Spoil(c)) \/ Stockholm!Age)
        BY <2>1, StepsOfTheCases DEF CaseRuns!Next
    <2>2. CASE Diary!DiaryStep /\ UNCHANGED stockholmVars
        BY <2>2, StepsOfTheDiary DEF DiaryRuns!Next
    <2> QED
        BY <1>7, <2>1, <2>2 DEF Outside
<1> QED
    BY <1>1, <1>2, <1>3, <1>4, <1>5, <1>6, <1>7 DEF Next

\* The invariant of the source that a step leaves alone.
LEMMA CasesStay ==
    ASSUME CaseRuns!RefreshInv, UNCHANGED stockholmVars, faults' \in 0..MaxFaults
    PROVE  CaseRuns!RefreshInv'
BY DEF stockholmVars, CaseRuns!RefreshInv, CaseRuns!Counts, CaseRuns!InOneOrder, CaseRuns!InHand,
   CaseRuns!Listed, CaseRuns!Known, CaseRuns!Oldest

LEMMA DiaryStays ==
    ASSUME DiaryRuns!DiaryInv, UNCHANGED diaryVars, faults' \in 0..MaxFaults
    PROVE  DiaryRuns!DiaryInv'
<1> USE DEF diaryVars
<1>1. DiaryRuns!Rows'
    BY DEF DiaryRuns!DiaryInv, DiaryRuns!Rows, DiaryRuns!CasesInOrder, DiaryRuns!CaseMates
<1>2. DiaryRuns!RunsFit'
    BY DEF DiaryRuns!DiaryInv, DiaryRuns!RunsFit, DiaryRuns!InHand, DiaryRuns!Newest, DiaryRuns!Accept,
       DiaryRuns!Earliest, DiaryRuns!CaseMates
<1>3. DiaryRuns!PagesFit'
    BY DEF DiaryRuns!DiaryInv, DiaryRuns!PagesFit, DiaryRuns!Paged, DiaryRuns!PagesRead, DiaryRuns!InWindow,
       DiaryRuns!Settled, DiaryRuns!Due, DiaryRuns!Accept, DiaryRuns!CaseMates, DiaryRuns!Reached,
       DiaryRuns!Newer, DiaryRuns!Listing
<1>4. DiaryRuns!EventsFit'
    BY DEF DiaryRuns!DiaryInv, DiaryRuns!EventsFit, DiaryRuns!EventsAreEarliest, DiaryRuns!CaseMates
<1>5. DiaryRuns!Counts'
    BY DEF DiaryRuns!DiaryInv, DiaryRuns!Counts
<1> QED
    BY <1>1, <1>2, <1>3, <1>4, <1>5 DEF DiaryRuns!DiaryInv

\* The command knows when the run of its source is over.
LEMMA OneRunsStep ==
    ASSUME IngestInv, [Next]_vars
    PROVE  OneRuns'
<1> USE DEF OneRuns, stockholmVars, diaryVars
<1>1. /\ OneRuns /\ diaryRun \in [{Me} -> DiaryRuns!Run] /\ caseRun \in CaseRuns!Run
      /\ diaryReport \in [{Me} -> {"none", "aborted", "persist failures", "complete"}]
    BY DEF IngestInv, CaseRuns!RefreshInv, CaseRuns!Counts, DiaryRuns!DiaryInv, DiaryRuns!RunsFit,
       DiaryRuns!Counts
<1>2. \A report : Code(report) \in {"0", "1"}
    BY DEF Code
<1>3. CASE UNCHANGED vars \/ Refuse
    BY <1>1, <1>3 DEF Refuse, vars
<1>4. ASSUME NEW i \in Invocations, InvokeStockholm(i)
      PROVE  OneRuns'
    <2>1. caseRun'.pc = "discover"
        <3>1. PICK S : CaseRuns!Search(S)
            BY <1>4, StepsOfTheCases DEF InvokeStockholm
        <3>2. PICK r : r = CaseRuns!NotRunning
            OBVIOUS
        <3>3. r \in CaseRuns!Run
            BY <3>2, CaseRuns!Resting
        <3>4. caseRun' = [r EXCEPT !.pc = "discover", !.found = S, !.searched = S]
            BY <3>1, <3>2 DEF CaseRuns!Search
        <3> QED
            BY <3>3, <3>4 DEF CaseRuns!Run
    <2>2. exit' = "running" /\ source' = source /\ diaryRun' = diaryRun /\ source = "stockholm"
        BY <1>4 DEF InvokeStockholm
    <2> QED
        BY <1>1, <2>1, <2>2
<1>5. ASSUME NEW i \in Invocations, InvokeDiary(i)
      PROVE  OneRuns'
    <2>1. diaryRun'[Me].pc = "search"
        <3>1. DiaryRuns!Start(Me, i.feed, i.window.from, i.window.to)
            BY <1>5, StepsOfTheDiary DEF InvokeDiary
        <3>2. PICK r : r = DiaryRuns!NotRunning
            OBVIOUS
        <3>3. r \in DiaryRuns!Run
            BY <3>2, DiaryRuns!Resting, ConstantsOfTheRuns
        <3>4. PICK t : t = [r EXCEPT !.pc = "search", !.feed = i.feed, !.from = i.window.from,
                                     !.to = i.window.to]
            OBVIOUS
        <3>5. PICK kept : diaryRun' = [diaryRun EXCEPT ![Me] = [t EXCEPT !.kept = kept]]
            BY <3>1, <3>2, <3>4 DEF DiaryRuns!Start
        <3>6. diaryRun'[Me] = [t EXCEPT !.kept = kept]
            BY <1>1, <3>5
        <3> QED
            BY <3>3, <3>4, <3>6 DEF DiaryRuns!Run
    <2>2. exit' = "running" /\ source' = source /\ caseRun' = caseRun /\ source = "arbetsmiljoverket"
        BY <1>5 DEF InvokeDiary
    <2> QED
        BY <1>1, <2>1, <2>2
<1>6. CASE RunStockholm
    BY <1>1, <1>2, <1>6 DEF RunStockholm
<1>7. CASE RunDiary
    BY <1>1, <1>2, <1>7 DEF RunDiary
<1>8. CASE Killed
    <2>1. CASE source = "stockholm" /\ Stockholm!Crash /\ UNCHANGED diaryVars
        <3>1. caseRun'.pc = "idle"
            BY <2>1, StepsOfTheCases, CaseRuns!Resting DEF CaseRuns!Crash
        <3> QED
            BY <1>1, <1>8, <2>1, <3>1 DEF Killed
    <2>2. CASE source = "arbetsmiljoverket" /\ Diary!Crash(Me) /\ UNCHANGED stockholmVars
        <3>1. diaryRun'[Me] = DiaryRuns!NotRunning
            BY <1>1, <2>2, StepsOfTheDiary DEF DiaryRuns!Crash, DiaryRuns!Return
        <3>2. diaryRun'[Me].pc = "idle"
            BY <3>1 DEF DiaryRuns!NotRunning
        <3> QED
            BY <1>1, <1>8, <2>2, <3>2 DEF Killed
    <2> QED
        BY <1>8, <2>1, <2>2 DEF Killed
<1>9. CASE Outside
    <2>1. exit' = exit /\ source' = source
        BY <1>9 DEF Outside
    <2>2. CASE UNCHANGED diaryVars /\ ((\E c \in Cases : Stockholm!Spoil(c)) \/ Stockholm!Age)
        BY <1>1, <2>1, <2>2 DEF Stockholm!Spoil, Stockholm!Age
    <2>3. CASE Diary!DiaryStep /\ UNCHANGED stockholmVars
        <3>1. diaryRun'[Me].pc = diaryRun[Me].pc
            <4>1. PICK d : DiaryRuns!Publish(d) \/ DiaryRuns!Mend(d) \/ DiaryRuns!Withdraw(d)
                BY <2>3, StepsOfTheDiary DEF DiaryRuns!DiaryStep
            <4>2. CASE DiaryRuns!Withdraw(d)
                <5>1. PICK r : r = diaryRun[Me]
                    OBVIOUS
                <5>2. PICK shifted : shifted = (r.shifted \/ d \in DiaryRuns!InWindow(r))
                    OBVIOUS
                <5>3. diaryRun'[Me] = [r EXCEPT !.shifted = shifted] /\ r \in DiaryRuns!Run
                    BY <1>1, <4>2, <5>1, <5>2 DEF DiaryRuns!Withdraw
                <5> QED
                    BY <5>1, <5>3 DEF DiaryRuns!Run
            <4> QED
                BY <4>1, <4>2 DEF DiaryRuns!Publish, DiaryRuns!Mend
        <3> QED
            BY <1>1, <2>1, <2>3, <3>1
    <2> QED
        BY <1>9, <2>2, <2>3 DEF Outside
<1> QED
    BY <1>3, <1>4, <1>5, <1>6, <1>7, <1>8, <1>9 DEF Next

\* IngestInv is inductive.
LEMMA Invariant == Spec => []IngestInv
<1>1. Init => IngestInv
    <2> SUFFICES ASSUME Init PROVE IngestInv
        OBVIOUS
    <2>1. CaseRuns!Init /\ DiaryRuns!Init
        BY StepsOfTheCases, StepsOfTheDiary DEF Init
    <2>2. CaseRuns!RefreshInv /\ DiaryRuns!DiaryInv
        BY <2>1, ConstantsOfTheRuns, CaseRuns!Initially, DiaryRuns!Initially
    <2>3. caseRun.pc = "idle" /\ diaryRun[Me].pc = "idle"
        BY <2>1 DEF CaseRuns!Init, CaseRuns!NotRunning, DiaryRuns!Init, DiaryRuns!NotRunning
    <2> QED
        BY <2>2, <2>3 DEF Init, IngestInv, OneRuns
<1>2. IngestInv /\ [Next]_vars => IngestInv'
    <2> SUFFICES ASSUME IngestInv, [Next]_vars PROVE IngestInv'
        OBVIOUS
    <2>1. CASE [CaseRuns!Next]_(CaseRuns!vars) /\ UNCHANGED diaryVars
        <3>1. CaseRuns!RefreshInv'
            BY <2>1, ConstantsOfTheRuns, CaseRuns!EveryStep DEF IngestInv
        <3>2. faults' \in 0..MaxFaults
            BY <3>1 DEF CaseRuns!RefreshInv, CaseRuns!Counts
        <3> QED
            BY <2>1, <3>1, <3>2, DiaryStays, OneRunsStep DEF IngestInv
    <2>2. CASE [DiaryRuns!Next]_(DiaryRuns!vars) /\ UNCHANGED stockholmVars
        <3>1. DiaryRuns!DiaryInv'
            BY <2>2, ConstantsOfTheRuns, DiaryRuns!EveryStep DEF IngestInv
        <3>2. faults' \in 0..MaxFaults
            BY <3>1 DEF DiaryRuns!DiaryInv, DiaryRuns!Counts
        <3> QED
            BY <2>2, <3>1, <3>2, CasesStay, OneRunsStep DEF IngestInv
    <2> QED
        BY <2>1, <2>2, TakesAStep
<1> QED
    BY <1>1, <1>2, PTL DEF Spec

-----------------------------------------------------------------------------
(* What the runs promise holds of the command.                             *)

\* The type invariant of the command, and of both sources under it.
THEOREM TypeCorrect == Spec => []IngestTypeOK
<1>1. IngestInv => IngestTypeOK
    <2> SUFFICES ASSUME IngestInv PROVE IngestTypeOK
        OBVIOUS
    <2>1. Stockholm!TypeOK
        <3>1. CaseRuns!Counts /\ CaseRuns!InOneOrder
            BY DEF IngestInv, CaseRuns!RefreshInv
        <3> QED
            BY <3>1 DEF Stockholm!TypeOK, Stockholm!Run, CaseRuns!Run, Stockholm!Known, CaseRuns!Known,
               Stockholm!Oldest, CaseRuns!Oldest, CaseRuns!Counts, CaseRuns!InOneOrder
    <2>2. Diary!TypeOK
        <3>1. DiaryRuns!Rows /\ DiaryRuns!RunsFit /\ DiaryRuns!EventsFit /\ DiaryRuns!Counts
            BY DEF IngestInv, DiaryRuns!DiaryInv
        <3> QED
            BY <3>1 DEF Diary!TypeOK, Diary!Run, DiaryRuns!Run, Diary!Feeds, DiaryRuns!Feeds, DiaryRuns!Rows,
               DiaryRuns!RunsFit, DiaryRuns!EventsFit, DiaryRuns!Counts
    <2> QED
        BY <2>1, <2>2 DEF IngestInv, OneRuns, IngestTypeOK
<1> QED
    BY <1>1, Invariant, PTL

\* Whatever windows the commands are given, for whatever feed and in whatever
\* order, and whichever of them fail or are killed, a case of a OnePerCase feed
\* has one event at most, of its first document.
THEOREM FirstOfTheCase == Spec => []EventsAreEarliest
<1>1. IngestInv => EventsAreEarliest
    BY DEF Diary!EventsAreEarliest, DiaryRuns!EventsAreEarliest, Diary!OnePerCase, DiaryRuns!OnePerCase,
       Diary!CaseMates, DiaryRuns!CaseMates, EventsAreEarliest, IngestInv, DiaryRuns!DiaryInv,
       DiaryRuns!EventsFit
<1> QED
    BY <1>1, Invariant, PTL

\* Of the known open cases that are due, every command's refresh tries the ones
\* confirmed longest ago first.
THEOREM OldestFirst == Spec => RefreshIsOldestFirst
<1>1. IngestInv =>
         [\A c \in Cases :
            caseRun.list # <<>> /\ Head(caseRun.list) = c /\ c \in caseRun'.confirmed \ caseRun.confirmed =>
               \A d \in (caseRun.owed \ caseRun.fetched) \ {c} : c \in before[d]]_(Stockholm!vars)
    BY ConstantsOfTheRuns, CaseRuns!HeadIsOldest DEF IngestInv
<1> QED
    BY <1>1, Invariant, PTL DEF RefreshIsOldestFirst, Stockholm!RefreshIsOldestFirst

\* An exit code 0 tells the truth: the run has persisted every case its search
\* listed and the due ones up to its bound, or has an event for every document
\* its window held and that is due one.
THEOREM CleanExits == Spec => CleanExitsAreComplete
<1>1. ASSUME IngestInv, [Next]_vars, exit = "running", exit' = "0"
      PROVE  IF source = "stockholm" THEN Stockholm!NothingMissed ELSE Diary!NothingMissed(Me)
    <2>1. OneRuns /\ CaseRuns!RefreshInv /\ DiaryRuns!DiaryInv
        BY <1>1 DEF IngestInv
    <2>2. RunStockholm \/ RunDiary
        BY <1>1 DEF Next, Refuse, InvokeStockholm, InvokeDiary, Killed, Outside, vars
    <2>3. \A report : Code(report) = "0" => report = "complete"
        BY DEF Code
    <2>4. CASE RunStockholm
        <3>1. source = "stockholm" /\ caseRun'.pc = "idle" /\ caseReport' = "complete"
            BY <1>1, <2>3, <2>4 DEF RunStockholm
        <3>2. caseRun.pc # "idle"
            BY <1>1, <2>1, <3>1 DEF OneRuns
        <3>3. CaseRuns!Next
            BY <2>4, StepsOfTheCases DEF RunStockholm, CaseRuns!Next
        <3>4. CaseRuns!NothingMissed
            BY <2>1, <3>1, <3>2, <3>3, ConstantsOfTheRuns, CaseRuns!CompleteStep
        <3>5. Stockholm!NothingMissed
            BY <3>4 DEF Stockholm!NothingMissed, CaseRuns!NothingMissed, Stockholm!Cardinality,
               CaseRuns!Cardinality
        <3> QED
            BY <3>1, <3>5
    <2>5. CASE RunDiary
        <3>1. source = "arbetsmiljoverket" /\ diaryRun'[Me].pc = "idle" /\ diaryReport'[Me] = "complete"
            BY <1>1, <2>3, <2>5 DEF RunDiary
        <3>2. diaryRun[Me].pc # "idle"
            BY <1>1, <2>1, <3>1 DEF OneRuns
        <3>3. DiaryRuns!Next
            BY <2>5, StepsOfTheDiary DEF RunDiary, DiaryRuns!Next
        <3>4. DiaryRuns!Rows /\ DiaryRuns!RunsFit /\ DiaryRuns!PagesFit /\ DiaryRuns!Counts
            BY <2>1 DEF DiaryRuns!DiaryInv
        <3>5. DiaryRuns!NothingMissed(Me)
            BY <3>1, <3>2, <3>3, <3>4, ConstantsOfTheRuns, DiaryRuns!CompleteStep
        <3>6. Diary!NothingMissed(Me)
            BY <3>5 DEF Diary!NothingMissed, DiaryRuns!NothingMissed, Diary!Due, DiaryRuns!Due, Diary!Accept,
               DiaryRuns!Accept, Diary!OnePerCase, DiaryRuns!OnePerCase, Diary!CaseMates, DiaryRuns!CaseMates
        <3>7. source # "stockholm"
            BY <3>1
        <3> QED
            BY <3>6, <3>7
    <2> QED
        BY <2>2, <2>4, <2>5
<1>2. IngestInv /\ [Next]_vars =>
         [exit = "running" /\ exit' = "0" =>
             IF source = "stockholm" THEN Stockholm!NothingMissed ELSE Diary!NothingMissed(Me)]_vars
    BY <1>1
<1> QED
    BY <1>2, Invariant, PTL DEF Spec, CleanExitsAreComplete
=============================================================================
