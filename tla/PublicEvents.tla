---------------------------- MODULE PublicEvents ----------------------------
(***************************************************************************)
(* The store of internal/publicevent and the persist transactions of the   *)
(* two sources that write it.  An ingester reads a source record, later    *)
(* begins a transaction, records the content it read as an observation     *)
(* and upserts the events that the content lists.                          *)
(*                                                                         *)
(* PostgreSQL's now() is the start of the transaction.  A transaction's    *)
(* writes appear when it commits; the rows it wrote are locked until then. *)
(***************************************************************************)
EXTENDS Naturals, FiniteSets

CONSTANTS
    Records,    \* source record ids (a diary document, a building case)
    Contents,   \* contents a record can show
    Events,     \* source event ids
    RecordOf,   \* the record an event belongs to
    Lists,      \* Lists[r][c]: the events that content c of record r lists
    Ingesters,  \* ingestion processes
    MaxReads    \* bound: reads of the source in one behaviour

ASSUME EventAssumption ==
    /\ Records # {} /\ Contents # {}
    /\ RecordOf \in [Events -> Records]
    /\ Lists \in [Records -> [Contents -> SUBSET Events]]
    /\ \A r \in Records, c \in Contents : \A e \in Lists[r][c] : RecordOf[e] = r
    /\ MaxReads \in Nat

VARIABLES
    source,        \* what the source shows of each record
    observations,  \* source_observations
    events,        \* public_events: the observed content each came from
    ingester,      \* what each ingester is doing
    clock,         \* counts the transactions begun: their now()
    reads,         \* reads so far
    overlapped     \* history: records that two open transactions shared

vars == <<source, observations, events, ingester, clock, reads, overlapped>>

-----------------------------------------------------------------------------
\* An observation is identified by its record and content; {} in events
\* means that the row does not exist.
Observation == [record: Records, content: Contents, last: Nat]

Ingester == [pc: {"idle", "read", "begun", "recorded"},
             record: Records, content: Contents, now: Nat,
             todo: SUBSET Events, done: SUBSET Events]

NotRunning == [pc |-> "idle", record |-> CHOOSE r \in Records : TRUE,
               content |-> CHOOSE c \in Contents : TRUE, now |-> 0,
               todo |-> {}, done |-> {}]

Init ==
    /\ source \in [Records -> Contents]
    /\ observations = {}
    /\ events = [e \in Events |-> {}]
    /\ ingester = [i \in Ingesters |-> NotRunning]
    /\ clock = 0
    /\ reads = 0
    /\ overlapped = {}

\* The source changes a record, possibly back to an earlier content.
Change(r, c) ==
    /\ source[r] # c
    /\ reads < MaxReads
    /\ source' = [source EXCEPT ![r] = c]
    /\ UNCHANGED <<observations, events, ingester, clock, reads, overlapped>>

\* FetchCase or a row of Search.
Read(i, r) ==
    /\ ingester[i].pc = "idle"
    /\ reads < MaxReads
    /\ reads' = reads + 1
    /\ ingester' = [ingester EXCEPT ![i] =
                      [NotRunning EXCEPT !.pc = "read", !.record = r,
                                         !.content = source[r]]]
    /\ UNCHANGED <<source, observations, events, clock, overlapped>>

InTx(i) == ingester[i].pc \in {"begun", "recorded"}

Begin(i) ==
    /\ ingester[i].pc = "read"
    /\ clock' = clock + 1
    /\ ingester' = [ingester EXCEPT ![i].pc = "begun", ![i].now = clock + 1]
    /\ overlapped' = IF \E j \in Ingesters : /\ InTx(j)
                                            /\ ingester[j].record = ingester[i].record
                        THEN overlapped \cup {ingester[i].record}
                        ELSE overlapped
    /\ UNCHANGED <<source, observations, events, reads>>

Wrote(i, r, c) ==
    /\ ingester[i].pc = "recorded"
    /\ ingester[i].record = r
    /\ ingester[i].content = c

\* RecordObservation: INSERT ... ON CONFLICT DO UPDATE waits for the same row.
Record(i) ==
    LET r == ingester[i].record
        c == ingester[i].content
    IN  /\ ingester[i].pc = "begun"
        /\ \A j \in Ingesters \ {i} : ~Wrote(j, r, c)
        /\ ingester' = [ingester EXCEPT ![i].pc = "recorded",
                                        ![i].todo = Lists[r][c]]
        /\ UNCHANGED <<source, observations, events, clock, reads, overlapped>>

\* UpsertEvent of one listed event: waits for the event's row, which it locks
\* even when the observation is unchanged.
Upsert(i, e) ==
    /\ ingester[i].pc = "recorded"
    /\ e \in ingester[i].todo
    /\ \A j \in Ingesters \ {i} : e \notin ingester[j].done
    /\ ingester' = [ingester EXCEPT
                      ![i].todo = ingester[i].todo \ {e},
                      ![i].done = ingester[i].done \cup {e}]
    /\ UNCHANGED <<source, observations, events, clock, reads, overlapped>>

\* Not the code: DO NOTHING leaves last_observed_at of a known content.
ObservedOnce(i) ==
    LET r == ingester[i].record
        c == ingester[i].content
    IN  IF \E o \in observations : o.record = r /\ o.content = c
           THEN observations
           ELSE observations \cup {[record |-> r, content |-> c,
                                    last |-> ingester[i].now]}

\* Not the code: a plain INSERT, a new row for every transaction.
ObservedTwice(i) ==
    observations \cup {[record |-> ingester[i].record,
                        content |-> ingester[i].content,
                        last |-> ingester[i].now]}

\* recordObservationSQL: a new row, or last_observed_at = now().
Observed(i) ==
    LET r == ingester[i].record
        c == ingester[i].content
    IN  {o \in observations : ~(o.record = r /\ o.content = c)}
           \cup {[record |-> r, content |-> c, last |-> ingester[i].now]}

Stop(i) == ingester' = [ingester EXCEPT ![i] = NotRunning]

\* Not the code: an event that its record no longer lists is deleted.
Pruned(i) ==
    [e \in Events |->
       IF e \in ingester[i].done THEN {ingester[i].content}
       ELSE IF RecordOf[e] = ingester[i].record THEN {} ELSE events[e]]

Derived(i) ==
    [e \in Events |-> IF e \in ingester[i].done THEN {ingester[i].content}
                                                ELSE events[e]]

Commit(i) ==
    /\ ingester[i].pc = "recorded"
    /\ ingester[i].todo = {}
    /\ observations' = Observed(i)
    /\ events' = Derived(i)
    /\ Stop(i)
    /\ UNCHANGED <<source, clock, reads, overlapped>>

\* Not the code: the observation is recorded on the pool and stays when the
\* transaction fails.
FailKeepingObservation(i) ==
    /\ InTx(i)
    /\ observations' = IF ingester[i].pc = "recorded" THEN Observed(i)
                                                      ELSE observations
    /\ Stop(i)
    /\ UNCHANGED <<source, events, clock, reads, overlapped>>

\* Not the code: events are upserted on the pool and stay.
FailKeepingEvents(i) ==
    /\ InTx(i)
    /\ events' = Derived(i)
    /\ Stop(i)
    /\ UNCHANGED <<source, observations, clock, reads, overlapped>>

\* persist fails (a rejected event, a lost connection, a deadlock, a crash):
\* InTx rolls back, the ingester counts the failure and goes on.
Fail(i) ==
    /\ InTx(i)
    /\ Stop(i)
    /\ UNCHANGED <<source, observations, events, clock, reads, overlapped>>

IngesterStep(i) ==
    \/ \E r \in Records : Read(i, r)
    \/ Begin(i)
    \/ Record(i)
    \/ \E e \in Events : Upsert(i, e)
    \/ Commit(i)
    \/ Fail(i)

Next ==
    \/ \E r \in Records, c \in Contents : Change(r, c)
    \/ \E i \in Ingesters : IngesterStep(i)

Spec == Init /\ [][Next]_vars

-----------------------------------------------------------------------------
\* Type invariant; (record, content) is unique as the table's key demands.
TypeOK ==
    /\ source \in [Records -> Contents]
    /\ observations \subseteq Observation
    /\ \A o, p \in observations :
          o.record = p.record /\ o.content = p.content => o = p
    /\ \A e \in Events : events[e] \subseteq Contents /\ Cardinality(events[e]) <= 1
    /\ ingester \in [Ingesters -> Ingester]
    /\ clock \in Nat
    /\ reads \in 0..MaxReads
    /\ overlapped \subseteq Records

ObservationsOf(e) ==
    {o \in observations : o.record = RecordOf[e] /\ e \in Lists[o.record][o.content]}

\* An event points at a committed observation that lists it (comment of
\* persist: an event never points at an observation that was not committed).
EventsHaveProvenance ==
    \A e \in Events : \A c \in events[e] :
       \E o \in ObservationsOf(e) : o.content = c

\* An observation is never stored without the events it lists, whatever fails
\* in between: what was observed can be read.
ObservationsHaveEvents ==
    \A o \in observations : \A e \in Lists[o.record][o.content] : events[e] # {}

Latest(e) ==
    \A o, p \in ObservationsOf(e) : o.content \in events[e] => p.last <= o.last

\* An event follows the most recent observation that lists it, also when the
\* source returns to an earlier content, as long as no two transactions for
\* its record overlap: then one may commit last with the older now().
SerialEventsAreLatest ==
    \A e \in Events : RecordOf[e] \notin overlapped => Latest(e)

\* An event is derived from the most recent observation that lists it
\* (migration 20260924170000: "always derived from its most recent
\* observation").
EventsAreLatest == \A e \in Events : Latest(e)

=============================================================================
