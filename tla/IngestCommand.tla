--------------------------- MODULE IngestCommand ---------------------------
(***************************************************************************)
(* cmd/ingest: a command line resolved to a source, a feed and a window, a *)
(* run of that source (StockholmRefresh or DiaryFeed), and the exit code   *)
(* that tells the caller what became of it.  The command is invoked again  *)
(* and again.  The two sources' runs share no rows, so a behaviour invokes *)
(* one of them.                                                            *)
(***************************************************************************)
EXTENDS Naturals, FiniteSets, SequencesExt

CONSTANTS
    Cases, Unreadable, Unstorable, MaxRefresh,       \* of StockholmRefresh
    StartOf,                                         \* the start date of a case
    Docs, FeedOf, DateOf, CaseOf, Rejected, Withdrawable, \* of DiaryFeed
    PageSize, MaxPages, MaxInCase,
    MaxFaults,
    Present      \* the dates on which the command may be invoked

VARIABLES
    source,      \* the source that is ingested
    exit,        \* of the last invocation: its exit code, or what it is doing
    spoilt, state, before, due, caseRun, caseReport,      \* of StockholmRefresh
    listed, gone, malformed, events, diaryRun, diaryReport, \* of DiaryFeed
    faults

stockholmVars == <<spoilt, state, before, due, caseRun, caseReport>>
diaryVars == <<listed, gone, malformed, events, diaryRun, diaryReport>>
vars == <<source, exit, stockholmVars, diaryVars, faults>>

Me == "ingest"

\* The dates of a window: when something happened, or yesterday.
Dates ==
    {DateOf[d] : d \in Docs} \cup {StartOf[c] : c \in Cases} \cup {now - 1 : now \in Present}

Stockholm == INSTANCE StockholmRefresh WITH run <- caseRun, report <- caseReport
Diary == INSTANCE DiaryFeed WITH run <- diaryRun, report <- diaryReport, Ingesters <- {Me}

ASSUME IngestAssumption ==
    /\ Stockholm!ConstantsFit
    /\ Diary!ConstantsFit
    /\ StartOf \in [Cases -> Nat] /\ Present \subseteq Nat \ {0}

-----------------------------------------------------------------------------
(* The command line: a flag is absent, or a sequence of one value, of which *)
(* 0 stands for a text that is no date, "no feed" for an unknown name.      *)

NoFlag == <<>>
Flags(values) == {NoFlag} \cup {<<v>> : v \in values}

Args == [source: {"arbetsmiljoverket", "stockholm", "none"},
         feed: Flags(Diary!Feeds \cup {"no feed"}),
         from: Flags(Dates \cup {0}), to: Flags(Dates \cup {0})]

Given(flag, default) == IF flag = NoFlag THEN default ELSE flag[1]

\* FeedByName, for the source that has feeds.
Feed(args) == Given(args.feed, Diary!DefaultFeed)

\* parseWindow: to defaults to yesterday, from to to.
Window(args, now) ==
    LET to == Given(args.to, now - 1) IN [from |-> Given(args.from, to), to |-> to]

\* parseArgs; another source than the two, and --feed for the one that has
\* none, are errors of usage.
Parses(args, now) ==
    /\ args.source # "none"
    /\ args.source = "stockholm" => args.feed = NoFlag
    /\ Feed(args) \in Diary!Feeds
    /\ <<0>> \notin {args.from, args.to}
    /\ Window(args, now).from <= Window(args, now).to

\* What parseArgs makes of the command lines it accepts.
Invocations ==
    {[source |-> x[1].source, feed |-> Feed(x[1]), window |-> Window(x[1], x[2])] :
        x \in {y \in Args \X Present : Parses(y[1], y[2])}}

-----------------------------------------------------------------------------
Init ==
    /\ source \in {"arbetsmiljoverket", "stockholm"}
    /\ exit = "none"
    /\ Stockholm!Init
    /\ Diary!Init

\* run gives up before it ingests anything: the arguments, the configuration,
\* the database or the application are not in order.
Refuse ==
    /\ exit # "running"
    /\ exit' = "1"
    /\ UNCHANGED <<source, stockholmVars, diaryVars, faults>>

\* The search of a run lists the cases of the window that exist by then.
InvokeStockholm(i) ==
    /\ exit # "running" /\ source = "stockholm" /\ i.source = source
    /\ \E S \in SUBSET {c \in Cases : i.window.from <= StartOf[c] /\ StartOf[c] <= i.window.to} :
          Stockholm!Search(S)
    /\ exit' = "running"
    /\ UNCHANGED <<source, diaryVars>>

InvokeDiary(i) ==
    /\ exit # "running" /\ source = "arbetsmiljoverket" /\ i.source = source
    /\ Diary!Start(Me, i.feed, i.window.from, i.window.to)
    /\ exit' = "running"
    /\ UNCHANGED <<source, stockholmVars>>

\* Not the code: a run's error is logged and not returned.
CodeOfStats(report) == IF report = "aborted" THEN "1" ELSE "0"

\* What main exits with: run returns the error of the source's run.
Code(report) == IF report = "complete" THEN "0" ELSE "1"

RunStockholm ==
    /\ exit = "running" /\ source = "stockholm"
    /\ Stockholm!RunStep
    /\ exit' = IF caseRun'.pc = "idle" THEN Code(caseReport') ELSE exit
    /\ UNCHANGED <<source, diaryVars>>

RunDiary ==
    /\ exit = "running" /\ source = "arbetsmiljoverket"
    /\ Diary!RunStep(Me)
    /\ exit' = IF diaryRun'[Me].pc = "idle" THEN Code(diaryReport'[Me]) ELSE exit
    /\ UNCHANGED <<source, stockholmVars>>

Killed ==
    /\ exit = "running"
    /\ exit' = "killed"
    /\ \/ source = "stockholm" /\ Stockholm!Crash /\ UNCHANGED diaryVars
       \/ source = "arbetsmiljoverket" /\ Diary!Crash(Me) /\ UNCHANGED stockholmVars
    /\ UNCHANGED source

\* The sources go on, and time passes.
Outside ==
    /\ \/ /\ source = "stockholm" /\ UNCHANGED diaryVars
          /\ \/ \E c \in Cases : Stockholm!Spoil(c)
             \/ Stockholm!Age
       \/ source = "arbetsmiljoverket" /\ Diary!DiaryStep /\ UNCHANGED stockholmVars
    /\ UNCHANGED <<source, exit>>

Next ==
    \/ Refuse
    \/ \E i \in Invocations : InvokeStockholm(i) \/ InvokeDiary(i)
    \/ RunStockholm \/ RunDiary \/ Killed \/ Outside

\* The command is invoked again and again for every source that is ingested,
\* and a run that is not killed goes on.
Spec ==
    /\ Init /\ [][Next]_vars
    /\ WF_vars(\E i \in Invocations : InvokeStockholm(i))
    /\ WF_vars(RunStockholm)

-----------------------------------------------------------------------------
\* Type invariant of the command and the sources' runs; a command is running
\* exactly while its source's run is.
IngestTypeOK ==
    /\ source \in {"arbetsmiljoverket", "stockholm"}
    /\ exit \in {"none", "running", "0", "1", "killed"}
    /\ Stockholm!TypeOK
    /\ Diary!TypeOK
    /\ exit = "running" <=> caseRun.pc # "idle" \/ diaryRun[Me].pc # "idle"

\* An incomplete run does not look complete (comments of both runs): a command
\* that exits with 0 has persisted every case its search listed and every case
\* that was due, or has an event for every document its window held, although
\* single records were skipped and the diary changed between the requests.
CleanExitsAreComplete ==
    [][exit = "running" /\ exit' = "0" =>
          IF source = "stockholm" THEN Stockholm!NothingMissed ELSE Diary!NothingMissed(Me)]_vars

\* Of a OnePerCase feed only the earliest document of a case becomes an event,
\* whatever windows the commands are given and in whatever order (comments of
\* OnePerCase and earliestInCase).
EventsAreEarliest == Diary!EventsAreEarliest

\* A refresh confirms no case while one that was due and confirmed longer ago
\* has not been tried (comment of openCasesDueSQL).
RefreshIsOldestFirst == Stockholm!RefreshIsOldestFirst

\* A known open case past the cut-off is eventually confirmed, by runs that
\* are bounded, fail and are killed, unless its own page is at fault.
EveryOpenCaseIsReached == Stockholm!EveryOpenCaseIsReached
=============================================================================
