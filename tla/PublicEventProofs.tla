-------------------------- MODULE PublicEventProofs -------------------------
(***************************************************************************)
(* Proofs about PublicEvents and EventListing, for all records, contents,  *)
(* ingesters, dates, filters, page sizes and clients and any number of     *)
(* reads: what the transactions that write the events keep, and what a     *)
(* keyset listing shows while the table changes underneath.                *)
(***************************************************************************)
EXTENDS EventListing, FiniteSetTheorems, WellFoundedInduction, TLAPS

-----------------------------------------------------------------------------
(* The inductive invariant. *)

\* The types that the other parts rely on.
Types ==
    /\ source \in [Records -> Contents]
    /\ observations \subseteq Observation
    /\ events \in [Events -> SUBSET Contents]
    /\ ingester \in [Ingesters -> Ingester]
    /\ clock \in Nat

\* A transaction handles exactly the events that the content it read lists.
Progress ==
    \A i \in Ingesters :
       LET lists == Lists[ingester[i].record][ingester[i].content]
       IN  /\ ingester[i].pc # "recorded" => ingester[i].done = {}
           /\ ingester[i].pc = "recorded" =>
                 ingester[i].todo \cup ingester[i].done = lists

\* No transaction begins in the future.
Past ==
    /\ \A i \in Ingesters : ingester[i].now <= clock
    /\ \A o \in observations : o.last <= clock

\* Two open transactions for one record are on record as overlapping.
OverlapsAreSeen ==
    \A i, j \in Ingesters :
       i # j /\ InTx(i) /\ InTx(j) /\ ingester[i].record = ingester[j].record
          => ingester[i].record \in overlapped

\* Where none overlapped, an open transaction began after every commit of its
\* record: what it writes is the latest.
BeganLast ==
    \A i \in Ingesters, o \in observations :
       InTx(i) /\ o.record = ingester[i].record /\ o.record \notin overlapped
          => o.last <= ingester[i].now

Inv ==
    /\ Types
    /\ Progress
    /\ Past
    /\ OverlapsAreSeen
    /\ BeganLast
    /\ EventsHaveProvenance
    /\ ObservationsHaveEvents
    /\ SerialEventsAreLatest

-----------------------------------------------------------------------------
(* Types. *)

LEMMA NotRunningType == NotRunning \in Ingester
<1>1. (CHOOSE r \in Records : TRUE) \in Records
    BY EventAssumption
<1>2. (CHOOSE c \in Contents : TRUE) \in Contents
    BY EventAssumption
<1> QED
    BY <1>1, <1>2 DEF NotRunning, Ingester

\* The observations and events that a commit would leave are well-typed.
LEMMA CommitTypes ==
    ASSUME Types, NEW i \in Ingesters
    PROVE  /\ Observed(i) \subseteq Observation
           /\ Derived(i) \in [Events -> SUBSET Contents]
<1>1. ingester[i] \in Ingester
    BY DEF Types
<1>2. [record |-> ingester[i].record, content |-> ingester[i].content,
       last |-> ingester[i].now] \in Observation
    BY <1>1 DEF Ingester, Observation
<1>3. Observed(i) \subseteq Observation
    BY <1>2 DEF Types, Observed
<1>4. Derived(i) \in [Events -> SUBSET Contents]
    BY <1>1 DEF Types, Derived, Ingester
<1> QED
    BY <1>3, <1>4

LEMMA StopType ==
    ASSUME Types, NEW i \in Ingesters, Stop(i)
    PROVE  ingester' \in [Ingesters -> Ingester]
BY NotRunningType DEF Types, Stop

LEMMA TypesHold ==
    ASSUME Types, [Next]_vars
    PROVE  Types'
<1>1. ASSUME NEW r \in Records, NEW c \in Contents, Change(r, c)
      PROVE  Types'
    BY <1>1 DEF Types, Change
<1>2. ASSUME NEW i \in Ingesters, NEW r \in Records, Read(i, r)
      PROVE  Types'
    <2>1. source[r] \in Contents
        BY DEF Types
    <2>2. [NotRunning EXCEPT !.pc = "read", !.record = r,
                             !.content = source[r]] \in Ingester
        BY <2>1, NotRunningType DEF Ingester
    <2> QED
        BY <1>2, <2>2 DEF Types, Read
<1>3. ASSUME NEW i \in Ingesters, Begin(i)
      PROVE  Types'
    <2>1. clock + 1 \in Nat
        BY DEF Types
    <2>2. [ingester[i] EXCEPT !.pc = "begun", !.now = clock + 1] \in Ingester
        BY <2>1 DEF Types, Ingester
    <2> QED
        BY <1>3, <2>1, <2>2 DEF Types, Begin
<1>4. ASSUME NEW i \in Ingesters, Record(i)
      PROVE  Types'
    <2>1. ingester[i].record \in Records /\ ingester[i].content \in Contents
        BY DEF Types, Ingester
    <2>2. Lists[ingester[i].record][ingester[i].content] \in SUBSET Events
        BY <2>1, EventAssumption
    <2>3. [ingester[i] EXCEPT
             !.pc = "recorded",
             !.todo = Lists[ingester[i].record][ingester[i].content]] \in Ingester
        BY <2>2 DEF Types, Ingester
    <2> QED
        BY <1>4, <2>3 DEF Types, Record
<1>5. ASSUME NEW i \in Ingesters, NEW e \in Events, Upsert(i, e)
      PROVE  Types'
    <2>1. [ingester[i] EXCEPT !.todo = ingester[i].todo \ {e},
                              !.done = ingester[i].done \cup {e}] \in Ingester
        BY DEF Types, Ingester
    <2> QED
        BY <1>5, <2>1 DEF Types, Upsert
<1>6. ASSUME NEW i \in Ingesters, Commit(i)
      PROVE  Types'
    BY <1>6, StopType, CommitTypes DEF Types, Commit
<1>7. ASSUME NEW i \in Ingesters, Fail(i)
      PROVE  Types'
    BY <1>7, StopType DEF Types, Fail
<1>8. CASE UNCHANGED vars
    BY <1>8 DEF Types, vars
<1> QED
    BY <1>1, <1>2, <1>3, <1>4, <1>5, <1>6, <1>7, <1>8 DEF Next, IngesterStep

-----------------------------------------------------------------------------
(* What the store says survives every step that does not commit. *)

LEMMA StoreUntouched ==
    ASSUME Inv, UNCHANGED <<observations, events>>,
           overlapped \subseteq overlapped'
    PROVE  /\ EventsHaveProvenance'
           /\ ObservationsHaveEvents'
           /\ SerialEventsAreLatest'
BY DEF Inv, EventsHaveProvenance, ObservationsHaveEvents,
       SerialEventsAreLatest, ObservationsOf, Latest

-----------------------------------------------------------------------------
(* One lemma per action: what open transactions know of themselves and of  *)
(* each other.                                                             *)

Transactions == Progress /\ Past /\ OverlapsAreSeen /\ BeganLast

LEMMA ReadStep ==
    ASSUME Inv, NEW i \in Ingesters, NEW r \in Records, Read(i, r)
    PROVE  Transactions'
<1>1. /\ ingester' = [ingester EXCEPT ![i] = ingester'[i]]
      /\ ingester'[i].pc = "read"
      /\ ingester'[i].done = {}
      /\ ingester'[i].now = 0
    BY DEF Inv, Types, Read, NotRunning
<1>2. UNCHANGED <<observations, events, clock, overlapped>>
    BY DEF Read
<1>3. clock \in Nat /\ DOMAIN ingester = Ingesters
    BY DEF Inv, Types
<1>4. Progress'
    BY <1>1, <1>3 DEF Inv, Progress
<1>5. Past'
    BY <1>1, <1>2, <1>3 DEF Inv, Past
<1>6. OverlapsAreSeen'
    BY <1>1, <1>2, <1>3 DEF Inv, OverlapsAreSeen, InTx
<1>7. BeganLast'
    BY <1>1, <1>2, <1>3 DEF Inv, BeganLast, InTx
<1> QED
    BY <1>4, <1>5, <1>6, <1>7 DEF Transactions

LEMMA BeginStep ==
    ASSUME Inv, NEW i \in Ingesters, Begin(i)
    PROVE  Transactions' /\ overlapped \subseteq overlapped'
<1>1. /\ ingester[i].pc = "read"
      /\ ingester' = [ingester EXCEPT ![i] = ingester'[i]]
      /\ ingester'[i].pc = "begun"
      /\ ingester'[i].record = ingester[i].record
      /\ ingester'[i].content = ingester[i].content
      /\ ingester'[i].done = ingester[i].done
      /\ ingester'[i].now = clock + 1
    BY DEF Inv, Types, Ingester, Begin
<1>2. clock' = clock + 1 /\ UNCHANGED observations
    BY DEF Begin
<1>3. /\ clock \in Nat /\ DOMAIN ingester = Ingesters
      /\ \A j \in Ingesters : ingester[j].now \in Nat
      /\ \A o \in observations : o.last \in Nat
    BY DEF Inv, Types, Ingester, Observation
<1>4. /\ overlapped \subseteq overlapped'
      /\ \A j \in Ingesters : InTx(j) /\ ingester[j].record = ingester[i].record
            => ingester[i].record \in overlapped'
    BY DEF Begin
<1>5. Progress'
    BY <1>1, <1>3 DEF Inv, Progress
<1>6. Past'
    BY <1>1, <1>2, <1>3 DEF Inv, Past
<1>7. OverlapsAreSeen'
    <2> SUFFICES ASSUME NEW j \in Ingesters, NEW k \in Ingesters, j # k,
                        InTx(j)', InTx(k)', (ingester[j].record = ingester[k].record)'
                 PROVE  (ingester[j].record \in overlapped)'
        BY DEF OverlapsAreSeen
    <2>1. CASE j = i
        <3>1. InTx(k) /\ ingester[k].record = ingester[i].record
            BY <1>1, <1>3, <2>1 DEF InTx
        <3> QED
            BY <1>1, <1>4, <2>1, <3>1
    <2>2. CASE k = i
        <3>1. InTx(j) /\ ingester[j].record = ingester[i].record
            BY <1>1, <1>3, <2>2 DEF InTx
        <3> QED
            BY <1>1, <1>3, <1>4, <2>2, <3>1
    <2>3. CASE j # i /\ k # i
        BY <1>1, <1>3, <1>4, <2>3 DEF Inv, OverlapsAreSeen, InTx
    <2> QED
        BY <2>1, <2>2, <2>3
<1>8. BeganLast'
    BY <1>1, <1>2, <1>3, <1>4 DEF Inv, BeganLast, Past, InTx
<1> QED
    BY <1>4, <1>5, <1>6, <1>7, <1>8 DEF Transactions

\* Record and Upsert move a transaction on; its record, content and start stay.
LEMMA GoOn ==
    ASSUME Inv, NEW i \in Ingesters, InTx(i),
           ingester' = [ingester EXCEPT ![i] = ingester'[i]],
           ingester'[i].pc = "recorded",
           ingester'[i].record = ingester[i].record,
           ingester'[i].content = ingester[i].content,
           ingester'[i].now = ingester[i].now,
           ingester'[i].todo \cup ingester'[i].done
              = Lists[ingester[i].record][ingester[i].content],
           UNCHANGED <<observations, clock, overlapped>>
    PROVE  Transactions'
<1>1. DOMAIN ingester = Ingesters
    BY DEF Inv, Types
<1>2. Progress'
    BY <1>1 DEF Inv, Progress
<1>3. Past'
    BY <1>1 DEF Inv, Past
<1>4. OverlapsAreSeen'
    BY <1>1 DEF Inv, OverlapsAreSeen, InTx
<1>5. BeganLast'
    BY <1>1 DEF Inv, BeganLast, InTx
<1> QED
    BY <1>2, <1>3, <1>4, <1>5 DEF Transactions

LEMMA RecordStep ==
    ASSUME Inv, NEW i \in Ingesters, Record(i)
    PROVE  Transactions'
<1>1. /\ InTx(i)
      /\ ingester[i].done = {}
    BY DEF Inv, Progress, InTx, Record
<1>2. /\ ingester' = [ingester EXCEPT ![i] = ingester'[i]]
      /\ ingester'[i].pc = "recorded"
      /\ ingester'[i].record = ingester[i].record
      /\ ingester'[i].content = ingester[i].content
      /\ ingester'[i].now = ingester[i].now
      /\ ingester'[i].todo = Lists[ingester[i].record][ingester[i].content]
      /\ ingester'[i].done = ingester[i].done
    BY DEF Inv, Types, Ingester, Record
<1>3. UNCHANGED <<observations, clock, overlapped>>
    BY DEF Record
<1> QED
    BY <1>1, <1>2, <1>3, GoOn

LEMMA UpsertStep ==
    ASSUME Inv, NEW i \in Ingesters, NEW e \in Events, Upsert(i, e)
    PROVE  Transactions'
<1>1. /\ InTx(i)
      /\ e \in ingester[i].todo
      /\ ingester[i].todo \cup ingester[i].done
            = Lists[ingester[i].record][ingester[i].content]
    BY DEF Inv, Progress, InTx, Upsert
<1>2. /\ ingester' = [ingester EXCEPT ![i] = ingester'[i]]
      /\ ingester'[i].pc = "recorded"
      /\ ingester'[i].record = ingester[i].record
      /\ ingester'[i].content = ingester[i].content
      /\ ingester'[i].now = ingester[i].now
      /\ ingester'[i].todo = ingester[i].todo \ {e}
      /\ ingester'[i].done = ingester[i].done \cup {e}
    BY DEF Inv, Types, Ingester, Upsert
<1>3. UNCHANGED <<observations, clock, overlapped>>
    BY DEF Upsert
<1> QED
    BY <1>1, <1>2, <1>3, GoOn

\* A transaction ends; its ingester knows nothing of it any more.
LEMMA StopStep ==
    ASSUME Inv, NEW i \in Ingesters, Stop(i), InTx(i),
           UNCHANGED <<clock, overlapped>>,
           \A o \in observations' :
              \/ o \in observations
              \/ /\ o.record = ingester[i].record
                 /\ o.last = ingester[i].now
    PROVE  Transactions'
<1>1. /\ DOMAIN ingester = Ingesters
      /\ clock \in Nat
      /\ NotRunning.pc = "idle" /\ NotRunning.now = 0 /\ NotRunning.done = {}
    BY DEF Inv, Types, NotRunning
<1>2. /\ ingester'[i] = NotRunning
      /\ \A j \in Ingesters : j # i => ingester'[j] = ingester[j]
    BY <1>1 DEF Stop
<1>3. Progress'
    BY <1>1, <1>2 DEF Inv, Progress
<1>4. Past'
    BY <1>1, <1>2 DEF Inv, Past
<1>5. OverlapsAreSeen'
    BY <1>1, <1>2 DEF Inv, OverlapsAreSeen, InTx
<1>6. BeganLast'
    <2> SUFFICES ASSUME NEW j \in Ingesters, NEW o \in observations',
                        InTx(j)', o.record = ingester'[j].record,
                        o.record \notin overlapped'
                 PROVE  o.last <= ingester'[j].now
        BY DEF BeganLast
    <2>1. j # i /\ ingester'[j] = ingester[j] /\ InTx(j)
        BY <1>1, <1>2 DEF InTx
    <2>2. o \in observations
        BY <2>1 DEF Inv, OverlapsAreSeen
    <2> QED
        BY <2>1, <2>2 DEF Inv, BeganLast
<1> QED
    BY <1>3, <1>4, <1>5, <1>6 DEF Transactions

\* A commit keeps what the store says: its events get the observation it
\* brings, which is the latest of the record unless transactions overlapped.
LEMMA CommitStore ==
    ASSUME Inv, NEW i \in Ingesters, Commit(i)
    PROVE  /\ EventsHaveProvenance'
           /\ ObservationsHaveEvents'
           /\ SerialEventsAreLatest'
<1> DEFINE r == ingester[i].record
           c == ingester[i].content
           mine == [record |-> r, content |-> c, last |-> ingester[i].now]
<1>1. /\ r \in Records /\ c \in Contents
      /\ ingester[i].now \in Nat
      /\ events \in [Events -> SUBSET Contents]
      /\ observations \subseteq Observation
    BY DEF Inv, Types, Ingester
<1>2. ingester[i].done = Lists[r][c]
    BY DEF Commit, Inv, Progress
<1>3. /\ \A e \in Lists[r][c] : e \in Events /\ RecordOf[e] = r
      /\ \A e \in Events : e \in Lists[r][c] => RecordOf[e] = r
    BY <1>1, EventAssumption
<1>4. observations' = {o \in observations : ~(o.record = r /\ o.content = c)}
                         \cup {mine}
    BY DEF Commit, Observed
<1>5. \A e \in Events :
         events'[e] = IF e \in Lists[r][c] THEN {c} ELSE events[e]
    BY <1>2 DEF Commit, Derived
<1>6. overlapped' = overlapped
    BY DEF Commit
<1>7. /\ mine.record = r /\ mine.content = c /\ mine.last = ingester[i].now
      /\ mine \in observations'
    BY <1>4
<1> HIDE DEF mine
<1>8. EventsHaveProvenance'
    <2> SUFFICES ASSUME NEW e \in Events, NEW k \in events'[e]
                 PROVE  \E o \in ObservationsOf(e)' : o.content = k
        BY DEF EventsHaveProvenance
    <2>1. CASE e \in Lists[r][c]
        <3>1. mine \in ObservationsOf(e)' /\ k = c
            BY <1>3, <1>5, <1>7, <2>1 DEF ObservationsOf
        <3> QED
            BY <1>7, <3>1
    <2>2. CASE e \notin Lists[r][c]
        <3>1. PICK o \in ObservationsOf(e) : o.content = k
            BY <1>5, <2>2 DEF Inv, EventsHaveProvenance
        <3>2. ~(o.record = r /\ o.content = c)
            BY <2>2, <3>1 DEF ObservationsOf
        <3>3. o \in ObservationsOf(e)'
            BY <1>4, <3>1, <3>2 DEF ObservationsOf
        <3> QED
            BY <3>1, <3>3
    <2> QED
        BY <2>1, <2>2
<1>9. ObservationsHaveEvents'
    <2> SUFFICES ASSUME NEW o \in observations',
                        NEW e \in Lists[o.record][o.content]
                 PROVE  events'[e] # {}
        BY DEF ObservationsHaveEvents
    <2>1. CASE o = mine
        BY <1>3, <1>5, <1>7, <2>1
    <2>2. CASE o \in observations
        <3>1. e \in Events /\ events[e] # {}
            BY <1>1, <2>2, EventAssumption
            DEF Inv, ObservationsHaveEvents, Observation
        <3> QED
            BY <1>5, <3>1
    <2> QED
        BY <1>4, <2>1, <2>2
<1>10. SerialEventsAreLatest'
    <2> SUFFICES ASSUME NEW e \in Events, RecordOf[e] \notin overlapped,
                        NEW o \in ObservationsOf(e)', NEW p \in ObservationsOf(e)',
                        o.content \in events'[e]
                 PROVE  p.last <= o.last
        BY <1>6 DEF SerialEventsAreLatest, Latest
    <2>1. CASE e \in Lists[r][c]
        <3>1. o.record = r /\ o.content = c /\ p.record = r
            BY <1>3, <1>5, <2>1 DEF ObservationsOf
        <3>2. o = mine
            BY <1>4, <3>1 DEF ObservationsOf
        <3>3. CASE p = mine
            BY <1>1, <1>7, <3>2, <3>3
        <3>4. CASE p \in observations
            <4>1. InTx(i) /\ p.record \notin overlapped
                BY <1>3, <2>1, <3>1 DEF InTx, Commit
            <4> QED
                BY <1>7, <3>1, <3>2, <3>4, <4>1 DEF Inv, BeganLast
        <3> QED
            BY <1>4, <3>3, <3>4 DEF ObservationsOf
    <2>2. CASE e \notin Lists[r][c]
        <3>1. o \in ObservationsOf(e) /\ p \in ObservationsOf(e)
            BY <1>4, <1>7, <2>2 DEF ObservationsOf
        <3>2. o.content \in events[e]
            BY <1>5, <2>2
        <3> QED
            BY <3>1, <3>2 DEF Inv, SerialEventsAreLatest, Latest
    <2> QED
        BY <2>1, <2>2
<1> QED
    BY <1>8, <1>9, <1>10

-----------------------------------------------------------------------------
(* The theorems. *)

LEMMA InvInit == Init => Inv
<1> SUFFICES ASSUME Init PROVE Inv
    OBVIOUS
<1>1. Types
    BY NotRunningType DEF Init, Types
<1>2. /\ \A i \in Ingesters : ingester[i] = NotRunning
      /\ NotRunning.pc = "idle" /\ NotRunning.now = 0 /\ NotRunning.done = {}
      /\ observations = {} /\ clock = 0
      /\ \A e \in Events : events[e] = {}
    BY DEF Init, NotRunning
<1>3. Progress /\ Past /\ OverlapsAreSeen /\ BeganLast
    BY <1>2 DEF Progress, Past, OverlapsAreSeen, BeganLast, InTx
<1>4. EventsHaveProvenance /\ ObservationsHaveEvents /\ SerialEventsAreLatest
    BY <1>2 DEF EventsHaveProvenance, ObservationsHaveEvents,
                SerialEventsAreLatest, ObservationsOf, Latest
<1> QED
    BY <1>1, <1>3, <1>4 DEF Inv

LEMMA InvNext == Inv /\ [Next]_vars => Inv'
<1> SUFFICES ASSUME Inv, [Next]_vars PROVE Inv'
    OBVIOUS
<1>1. Types'
    BY TypesHold DEF Inv
<1> DEFINE Store == /\ EventsHaveProvenance
                    /\ ObservationsHaveEvents
                    /\ SerialEventsAreLatest
<1> SUFFICES Transactions' /\ Store'
    BY <1>1 DEF Inv, Transactions
<1>2. ASSUME NEW r \in Records, NEW c \in Contents, Change(r, c)
      PROVE  Transactions' /\ Store'
    <2>1. UNCHANGED <<observations, events, ingester, clock, overlapped>>
        BY <1>2 DEF Change
    <2>2. Transactions'
        BY <2>1 DEF Inv, Transactions, Progress, Past, OverlapsAreSeen,
                    BeganLast, InTx
    <2> QED
        BY <2>1, <2>2, StoreUntouched
<1>3. ASSUME NEW i \in Ingesters, NEW r \in Records, Read(i, r)
      PROVE  Transactions' /\ Store'
    BY <1>3, ReadStep, StoreUntouched DEF Read
<1>4. ASSUME NEW i \in Ingesters, Begin(i)
      PROVE  Transactions' /\ Store'
    BY <1>4, BeginStep, StoreUntouched DEF Begin
<1>5. ASSUME NEW i \in Ingesters, Record(i)
      PROVE  Transactions' /\ Store'
    BY <1>5, RecordStep, StoreUntouched DEF Record
<1>6. ASSUME NEW i \in Ingesters, NEW e \in Events, Upsert(i, e)
      PROVE  Transactions' /\ Store'
    BY <1>6, UpsertStep, StoreUntouched DEF Upsert
<1>7. ASSUME NEW i \in Ingesters, Commit(i)
      PROVE  Transactions' /\ Store'
    <2>1. InTx(i) /\ Stop(i) /\ UNCHANGED <<clock, overlapped>>
        BY <1>7 DEF Commit, InTx
    <2>2. \A o \in observations' :
             \/ o \in observations
             \/ o.record = ingester[i].record /\ o.last = ingester[i].now
        BY <1>7 DEF Commit, Observed
    <2>3. Transactions'
        BY <2>1, <2>2, StopStep
    <2> QED
        BY <1>7, <2>3, CommitStore
<1>8. ASSUME NEW i \in Ingesters, Fail(i)
      PROVE  Transactions' /\ Store'
    <2>1. /\ InTx(i) /\ Stop(i)
          /\ UNCHANGED <<observations, events, clock, overlapped>>
        BY <1>8 DEF Fail
    <2>2. Transactions'
        BY <2>1, StopStep
    <2> QED
        BY <2>1, <2>2, StoreUntouched
<1>9. CASE UNCHANGED vars
    <2>1. Transactions'
        BY <1>9 DEF Inv, Transactions, Progress, Past, OverlapsAreSeen,
                    BeganLast, InTx, vars
    <2> QED
        BY <1>9, <2>1, StoreUntouched DEF vars
<1> QED
    BY <1>2, <1>3, <1>4, <1>5, <1>6, <1>7, <1>8, <1>9 DEF Next, IngesterStep

\* Inv holds in every reachable state.
THEOREM Invariance == Spec => []Inv
BY InvInit, InvNext, PTL DEF Spec

\* An event always points at a committed observation that lists it, whichever
\* transactions fail (comment of persist).
THEOREM Provenance == Spec => []EventsHaveProvenance
<1>1. Inv => EventsHaveProvenance
    BY DEF Inv
<1> QED
    BY <1>1, Invariance, PTL

\* A committed observation always has the events it lists (one InTx).
THEOREM NothingObservedIsLost == Spec => []ObservationsHaveEvents
<1>1. Inv => ObservationsHaveEvents
    BY DEF Inv
<1> QED
    BY <1>1, Invariance, PTL

\* An event follows the most recent observation that lists it, for every
\* record whose transactions never overlapped (upsertEventSQL).
THEOREM SerialEventsFollow == Spec => []SerialEventsAreLatest
<1>1. Inv => SerialEventsAreLatest
    BY DEF Inv
<1> QED
    BY <1>1, Invariance, PTL

-----------------------------------------------------------------------------
(* The rest of the type invariant. *)

Keys ==
    /\ \A o, p \in observations :
          o.record = p.record /\ o.content = p.content => o = p
    /\ \A e \in Events : events[e] = {} \/ \E c \in Contents : events[e] = {c}
    /\ reads \in 0..MaxReads
    /\ overlapped \subseteq Records

LEMMA KeysHold ==
    ASSUME Types, Keys, [Next]_vars
    PROVE  Keys'
<1>1. ASSUME NEW i \in Ingesters, NEW r \in Records, Read(i, r)
      PROVE  Keys'
    <2>1. reads' \in 0..MaxReads
        BY <1>1, EventAssumption DEF Keys, Read
    <2> QED
        BY <1>1, <2>1 DEF Keys, Read
<1>2. ASSUME NEW i \in Ingesters, Begin(i)
      PROVE  Keys'
    <2>1. ingester[i].record \in Records
        BY DEF Types, Ingester
    <2> QED
        BY <1>2, <2>1 DEF Keys, Begin
<1>3. ASSUME NEW i \in Ingesters, Commit(i)
      PROVE  Keys'
    <2>1. ingester[i].content \in Contents
        BY DEF Types, Ingester
    <2>2. \A o, p \in observations' :
             o.record = p.record /\ o.content = p.content => o = p
        BY <1>3 DEF Keys, Commit, Observed
    <2>3. \A e \in Events :
             events'[e] = {} \/ \E c \in Contents : events'[e] = {c}
        BY <1>3, <2>1 DEF Keys, Commit, Derived
    <2> QED
        BY <1>3, <2>2, <2>3 DEF Keys, Commit
<1>4. CASE UNCHANGED <<observations, events, reads, overlapped>>
    BY <1>4 DEF Keys
<1> QED
    BY <1>1, <1>2, <1>3, <1>4
    DEF Next, IngesterStep, Change, Record, Upsert, Fail, vars

LEMMA TypesAndKeys == Types /\ Keys => TypeOK
<1> SUFFICES ASSUME Types, Keys PROVE TypeOK
    OBVIOUS
<1>1. ASSUME NEW e \in Events
      PROVE  events[e] \subseteq Contents /\ Cardinality(events[e]) <= 1
    <2>1. CASE events[e] = {}
        BY <2>1, FS_EmptySet
    <2>2. CASE \E c \in Contents : events[e] = {c}
        <3>1. PICK c \in Contents : events[e] = {c}
            BY <2>2
        <3>2. Cardinality({c}) = 1
            BY FS_Singleton
        <3> QED
            BY <3>1, <3>2
    <2> QED
        BY <2>1, <2>2 DEF Keys
<1> QED
    BY <1>1 DEF TypeOK, Types, Keys

\* The types, and that (record, content) is a key and an event has one source.
THEOREM TypeCorrect == Spec => []TypeOK
<1>1. Init => Types /\ Keys
    <2>1. Init => Types
        BY InvInit DEF Inv
    <2>2. Init => Keys
        BY EventAssumption DEF Init, Keys
    <2> QED
        BY <2>1, <2>2
<1>2. Types /\ Keys /\ [Next]_vars => Types' /\ Keys'
    BY TypesHold, KeysHold
<1>3. Types /\ Keys => TypeOK
    BY TypesAndKeys
<1> QED
    BY <1>1, <1>2, <1>3, PTL DEF Spec


-----------------------------------------------------------------------------
(* The order of the listing.                                               *)

Places == [date: Nat, id: Nat]

LEMMA PrecedesIsAnOrder ==
    ASSUME NEW p \in Places, NEW q \in Places, NEW r \in Places
    PROVE  /\ ~Precedes(p, p)
           /\ Precedes(p, q) /\ Precedes(q, r) => Precedes(p, r)
           /\ p = q \/ Precedes(p, q) \/ Precedes(q, p)
BY DEF Precedes, Places

\* Of finitely many sets one contains none of the others.
LEMMA Smallest ==
    ASSUME NEW S, S # {}, NEW F, IsFiniteSet(F), NEW D \in [S -> SUBSET F]
    PROVE  \E x \in S : \A y \in S : ~(D[y] \subseteq D[x] /\ D[y] # D[x])
<1> DEFINE T == {D[x] : x \in S}
           R == StrictSubsetOrdering(F)
           U == FiniteSubsetsOf(F)
<1>1. T \subseteq U /\ T # {}
    BY FS_Subset DEF FiniteSubsetsOf
<1>2. IsWellFoundedOn(R, U)
    BY FS_StrictSubsetOrderingWellFounded
<1>3. \E A \in T : \A B \in T : ~(<<B, A>> \in R)
    <2> HIDE DEF T, R, U
    <2> QED
        BY <1>1, <1>2, WFMin
<1>4. ASSUME NEW A \in T, NEW B \in T, ~(<<B, A>> \in R)
      PROVE  ~(B \subseteq A /\ B # A)
    BY <1>4 DEF StrictSubsetOrdering
<1>5. PICK x \in S : \A B \in T : ~(<<B, D[x]>> \in R)
    BY <1>3
<1>6. \A y \in S : ~(D[y] \subseteq D[x] /\ D[y] # D[x])
    BY <1>4, <1>5
<1> QED
    BY <1>6

-----------------------------------------------------------------------------
(* A page of a finite set of rows R in the order of their places P.        *)

Ahead(P, e, S) == {d \in S : Precedes(P[d], P[e])}
Front(P, n, S) == {e \in S : Cardinality(Ahead(P, e, S)) < n}

\* The rows of R are in a strict total order.
Ordered(P, R) ==
    /\ IsFiniteSet(R)
    /\ \A e \in R : P[e] \in Places
    /\ \A d, e \in R : P[d] = P[e] => d = e

\* A row has more rows ahead of it than the rows ahead of it have.
LEMMA AheadGrows ==
    ASSUME NEW R, NEW P, Ordered(P, R), NEW S \in SUBSET R,
           NEW d \in S, NEW e \in S, Precedes(P[d], P[e])
    PROVE  /\ Ahead(P, d, S) \subseteq Ahead(P, e, S)
           /\ Ahead(P, d, S) # Ahead(P, e, S)
           /\ Cardinality(Ahead(P, d, S)) < Cardinality(Ahead(P, e, S))
<1>1. d \notin Ahead(P, d, S) /\ d \in Ahead(P, e, S)
    BY PrecedesIsAnOrder DEF Ordered, Ahead
<1>2. Ahead(P, d, S) \subseteq Ahead(P, e, S)
    BY PrecedesIsAnOrder DEF Ordered, Ahead
<1>3. IsFiniteSet(Ahead(P, e, S)) /\ IsFiniteSet(Ahead(P, d, S))
    BY FS_Subset DEF Ordered, Ahead
<1>4. /\ Cardinality(Ahead(P, d, S)) <= Cardinality(Ahead(P, e, S))
      /\ Cardinality(Ahead(P, d, S)) # Cardinality(Ahead(P, e, S))
    BY <1>1, <1>2, <1>3, FS_Subset
<1>5. Cardinality(Ahead(P, d, S)) \in Nat /\ Cardinality(Ahead(P, e, S)) \in Nat
    BY <1>3, FS_CardinalityType
<1> QED
    BY <1>1, <1>2, <1>4, <1>5

\* What is ahead of a row of the front is in the front.
LEMMA FrontIsClosed ==
    ASSUME NEW R, NEW P, Ordered(P, R), NEW S \in SUBSET R, NEW n \in Nat,
           NEW d \in S, NEW e \in Front(P, n, S), Precedes(P[d], P[e])
    PROVE  d \in Front(P, n, S)
<1>1. Cardinality(Ahead(P, d, S)) < Cardinality(Ahead(P, e, S))
    BY AheadGrows DEF Front
<1>2. IsFiniteSet(Ahead(P, d, S)) /\ IsFiniteSet(Ahead(P, e, S))
    BY FS_Subset DEF Ordered, Ahead
<1>3. Cardinality(Ahead(P, d, S)) \in Nat /\ Cardinality(Ahead(P, e, S)) \in Nat
    BY <1>2, FS_CardinalityType
<1> QED
    BY <1>1, <1>3 DEF Front

\* Some row is first, and some row is last.
LEMMA Ends ==
    ASSUME NEW R, NEW P, Ordered(P, R), NEW S \in SUBSET R, S # {}
    PROVE  /\ \E e \in S : Ahead(P, e, S) = {}
           /\ \E q \in S : \A x \in S : x = q \/ Precedes(P[x], P[q])
<1>1. IsFiniteSet(S)
    BY FS_Subset DEF Ordered
<1>2. \E e \in S : Ahead(P, e, S) = {}
    <2> DEFINE D == [e \in S |-> Ahead(P, e, S)]
    <2>1. D \in [S -> SUBSET S]
        BY DEF Ahead
    <2>2. PICK e \in S : \A d \in S : ~(D[d] \subseteq D[e] /\ D[d] # D[e])
        <3> HIDE DEF D
        <3> QED
            BY <1>1, <2>1, Smallest
    <2>3. ASSUME NEW d \in Ahead(P, e, S) PROVE FALSE
        <3>1. d \in S /\ Precedes(P[d], P[e])
            BY DEF Ahead
        <3> QED
            BY <2>2, <3>1, AheadGrows
    <2> QED
        BY <2>3
<1>3. \E q \in S : \A x \in S : x = q \/ Precedes(P[x], P[q])
    <2> DEFINE Behind(x) == {y \in S : Precedes(P[x], P[y])}
               D == [x \in S |-> Behind(x)]
    <2>1. D \in [S -> SUBSET S]
        OBVIOUS
    <2>2. PICK q \in S : \A x \in S : ~(D[x] \subseteq D[q] /\ D[x] # D[q])
        <3> HIDE DEF D
        <3> QED
            BY <1>1, <2>1, Smallest
    <2>3. ASSUME NEW x \in S, Precedes(P[q], P[x]) PROVE FALSE
        <3>1. x \in Behind(q) /\ x \notin Behind(x)
            BY <2>3, PrecedesIsAnOrder DEF Ordered
        <3>2. Behind(x) \subseteq Behind(q)
            BY <2>3, PrecedesIsAnOrder DEF Ordered
        <3> QED
            BY <2>2, <3>1, <3>2
    <2> QED
        BY <2>3, PrecedesIsAnOrder DEF Ordered
<1> QED
    BY <1>2, <1>3

\* A page of l rows out of a front of l + 1: the rows of the page come before
\* the others, and are all there are unless the front has a row more.
LEMMA Split ==
    ASSUME NEW R, NEW P, Ordered(P, R), NEW l \in Nat \ {0},
           NEW F, F = Front(P, l + 1, R), NEW I, I = Front(P, l, F)
    PROVE  /\ I \subseteq R
           /\ \A d \in I, e \in R \ I : Precedes(P[d], P[e])
           /\ ~(Cardinality(F) > l) => I = R
           /\ Cardinality(F) > l => I # {}
<1>1. F \subseteq R /\ I \subseteq F /\ IsFiniteSet(R) /\ IsFiniteSet(F) /\ IsFiniteSet(I)
    BY FS_Subset DEF Front, Ordered
<1>2. ASSUME NEW S \in SUBSET R, NEW e \in S
      PROVE  IsFiniteSet(Ahead(P, e, S)) /\ Cardinality(Ahead(P, e, S)) \in Nat
    BY <1>1, FS_Subset, FS_CardinalityType DEF Ahead
<1>3. I = Front(P, l, R)
    <2>1. ASSUME NEW e \in F PROVE Ahead(P, e, F) = Ahead(P, e, R)
        <3>1. ASSUME NEW d \in R, Precedes(P[d], P[e]) PROVE d \in F
            BY <3>1, FrontIsClosed
        <3> QED
            BY <1>1, <3>1 DEF Ahead
    <2>2. ASSUME NEW e \in R, Cardinality(Ahead(P, e, R)) < l PROVE e \in F
        <3>1. Cardinality(Ahead(P, e, R)) \in Nat
            BY <1>2
        <3> QED
            BY <2>2, <3>1 DEF Front
    <2> QED
        BY <1>1, <2>1, <2>2 DEF Front
<1>4. ASSUME NEW d \in I, NEW e \in R \ I PROVE Precedes(P[d], P[e])
    <2>1. ASSUME Precedes(P[e], P[d]) PROVE FALSE
        BY <1>1, <1>3, <2>1, FrontIsClosed
    <2>2. d \in R /\ e \in R /\ d # e
        BY <1>1
    <2> QED
        BY <2>1, <2>2, PrecedesIsAnOrder DEF Ordered
<1>5. ASSUME ~(Cardinality(F) > l) PROVE I = R
    <2> SUFFICES ASSUME R \ I # {} PROVE FALSE
        BY <1>1
    <2>1. PICK q \in R \ I : Ahead(P, q, R \ I) = {}
        BY Ends
    <2>2. Ahead(P, q, R) = I
        BY <1>1, <1>4, <2>1 DEF Ahead
    <2>3. Cardinality(I) \in Nat /\ Cardinality(F) \in Nat /\ Cardinality(I) <= Cardinality(F)
        BY <1>1, FS_CardinalityType, FS_Subset
    <2>4. ~(Cardinality(I) < l)
        BY <1>3, <2>2 DEF Front
    <2>5. Cardinality(I) = l
        BY <1>5, <2>3, <2>4
    <2>6. q \in F
        <3>1. Cardinality(Ahead(P, q, R)) < l + 1
            BY <2>2, <2>5
        <3> QED
            BY <3>1 DEF Front
    <2>7. Cardinality(I \cup {q}) = Cardinality(I) + 1
        BY <1>1, FS_AddElement
    <2>8. Cardinality(I \cup {q}) <= Cardinality(F)
        BY <1>1, <2>6, FS_Subset
    <2> QED
        BY <1>5, <2>3, <2>5, <2>7, <2>8
<1>6. ASSUME Cardinality(F) > l PROVE I # {}
    <2>1. F # {}
        BY <1>6, FS_EmptySet
    <2>2. PICK e \in R : Ahead(P, e, R) = {}
        BY <1>1, <2>1, Ends
    <2>3. Cardinality(Ahead(P, e, R)) = 0
        BY <2>2, FS_EmptySet
    <2> QED
        BY <1>3, <2>3 DEF Front
<1> QED
    BY <1>1, <1>4, <1>5, <1>6

-----------------------------------------------------------------------------
(* The page that a request is answered.                                    *)

LEMMA PlaceType ==
    ASSUME Inv, NEW e \in Events, events[e] # {}
    PROVE  /\ ContentOf(e) \in events[e]
           /\ ContentOf(e) \in Contents
           /\ Place(e) \in Places
           /\ Place(e).id = IdOf[e]
<1>1. ContentOf(e) \in events[e]
    BY DEF ContentOf
<1>2. events[e] \subseteq Contents
    BY DEF Inv, Types
<1> QED
    BY <1>1, <1>2, ListingAssumption DEF Place, Places

\* The columns of an item that order it.
KeyOf(x) == [date |-> x.date, id |-> IdOf[x.event]]

Items == [event: Events, date: Nat, record: Contents]

LEMMA ItemType ==
    ASSUME Inv, NEW e \in Events, events[e] # {}
    PROVE  Item(e) \in Items /\ Item(e).event = e /\ KeyOf(Item(e)) = Place(e)
<1>1. Place(e) \in Places /\ ContentOf(e) \in Contents /\ Place(e).id = IdOf[e]
    BY PlaceType
<1>2. Place(e) = [date |-> Place(e).date, id |-> IdOf[e]]
    BY <1>1 DEF Places
<1> QED
    BY <1>1, <1>2 DEF Item, Items, KeyOf, Places

LEMMA PageRows ==
    ASSUME Inv, NEW f \in Filters, NEW l \in Limits, NEW cursor,
           NEW R, R = Rows(f, cursor), NEW F, F = First(l + 1, R),
           NEW I, I = First(l, F)
    PROVE  /\ I \subseteq R
           /\ \A d \in I, e \in R \ I : Precedes(Place(d), Place(e))
           /\ ~(Cardinality(F) > l) => I = R
           /\ Cardinality(F) > l =>
                 \E q \in I : /\ LastOf(I) = {Place(q)}
                             /\ \A x \in I : x = q \/ Precedes(Place(x), Place(q))
<1> DEFINE P == [e \in Events |-> Place(e)]
<1>1. /\ R \subseteq Events
      /\ \A e \in R : events[e] # {}
    BY DEF Rows, Matches, Joined
<1>2. \A e \in R : P[e] = Place(e) /\ P[e] \in Places /\ P[e].id = IdOf[e]
    BY <1>1, PlaceType
<1>3. Ordered(P, R)
    <2>1. IsFiniteSet(R)
        BY <1>1, FS_Subset, ListingAssumption
    <2>2. ASSUME NEW d \in R, NEW e \in R, P[d] = P[e] PROVE d = e
        <3>1. IdOf[d] = IdOf[e] /\ d \in Events /\ e \in Events
            BY <1>1, <1>2, <2>2
        <3> QED
            BY <3>1, ListingAssumption
    <2> HIDE DEF P
    <2> QED
        BY <1>2, <2>1, <2>2 DEF Ordered
<1>4. ASSUME NEW S \in SUBSET R, NEW n PROVE First(n, S) = Front(P, n, S)
    <2>1. ASSUME NEW e \in S
          PROVE  Ahead(P, e, S) = {d \in S : Precedes(Place(d), Place(e))}
        BY <1>2, <2>1 DEF Ahead
    <2> HIDE DEF P
    <2> QED
        BY <2>1 DEF First, Front
<1> HIDE DEF P
<1>5. l \in Nat \ {0}
    BY ListingAssumption
<1>6. F = Front(P, l + 1, R) /\ F \subseteq R /\ I = Front(P, l, F)
    BY <1>4 DEF First
<1>7. /\ I \subseteq R
      /\ \A d \in I, e \in R \ I : Precedes(P[d], P[e])
      /\ ~(Cardinality(F) > l) => I = R
      /\ Cardinality(F) > l => I # {}
    BY <1>3, <1>5, <1>6, Split
<1>8. ASSUME I # {}
      PROVE  \E q \in I : /\ LastOf(I) = {Place(q)}
                         /\ \A x \in I : x = q \/ Precedes(Place(x), Place(q))
    <2> I \in SUBSET R
        BY <1>7
    <2>1. PICK q \in I : \A x \in I : x = q \/ Precedes(P[x], P[q])
        BY <1>3, <1>8, Ends
    <2>2. \A x \in I : x = q \/ Precedes(Place(x), Place(q))
        BY <1>2, <1>7, <2>1
    <2>3. \A x \in I : ~Precedes(Place(q), Place(x))
        BY <1>2, <1>7, <2>2, PrecedesIsAnOrder
    <2>4. LastOf(I) = {Place(q)}
        BY <2>2, <2>3 DEF LastOf
    <2> QED
        BY <2>2, <2>4
<1> QED
    BY <1>2, <1>7, <1>8

\* A change of the store removes no event.
LEMMA EventsStay ==
    ASSUME Inv, [Next]_vars, NEW e \in Events, events[e] # {}
    PROVE  events'[e] # {}
<1>1. ASSUME NEW i \in Ingesters, Commit(i) PROVE events'[e] # {}
    BY <1>1 DEF Commit, Derived
<1> QED
    BY <1>1 DEF Next, IngesterStep, Change, Read, Begin, Record, Upsert, Fail, vars

-----------------------------------------------------------------------------
(* A client's scan.                                                        *)

Client == [pc: {"idle", "refused", "listing", "done", "found", "not_found"},
           filter: Filters, limit: Limits, cursor: SUBSET Places,
           pages: Seq(SUBSET Items), steady: SUBSET Events]

ShownOn(c, e) == {i \in DOMAIN c.pages : \E x \in c.pages[i] : x.event = e}

OneCursor(cursor) == \A p, q \in cursor : p = q

\* What every scan keeps, whatever it asks next.
Kept(c) ==
    /\ \A i, j \in DOMAIN c.pages : i < j =>
          \A x \in c.pages[i], y \in c.pages[j] : Precedes(KeyOf(x), KeyOf(y))
    /\ \A i \in DOMAIN c.pages : \A x \in c.pages[i] :
          /\ events[x.event] # {}
          /\ x.event \in c.steady => KeyOf(x) = Place(x.event)
    /\ \A e \in c.steady : Matches(e, c.filter)

\* The cursor divides what was shown from what is still to be shown.
Scanning(c, cursor) ==
    /\ \A i \in DOMAIN c.pages : \A x \in c.pages[i] :
          \E p \in cursor : KeyOf(x) = p \/ Precedes(KeyOf(x), p)
    /\ \A e \in c.steady :
          \/ \E i : ShownOn(c, e) = {i}
          \/ ShownOn(c, e) = {} /\ \A p \in cursor : Precedes(p, Place(e))

Scanned(c) == \A e \in c.steady : \E i : ShownOn(c, e) = {i}

ClientInv(c) ==
    /\ c \in Client
    /\ OneCursor(c.cursor)
    /\ Kept(c)
    /\ c.pc = "listing" => Scanning(c, c.cursor)
    /\ c.pc = "done" => Scanned(c)
    /\ c.pc # "not_found"

ListingInv ==
    /\ Inv
    /\ Keys
    /\ client \in [Clients -> Client]
    /\ \A k \in Clients : ClientInv(client[k])

\* The next page keeps the scan's invariant, and the last one ends it.
LEMMA NextPage ==
    ASSUME Inv, NEW c \in Client, NEW cursor \in SUBSET Places,
           Kept(c), Scanning(c, cursor)
    PROVE  ClientInv(Page(c, c.filter, c.limit, cursor))
<1> DEFINE R == Rows(c.filter, cursor)
           F == First(c.limit + 1, R)
           I == First(c.limit, F)
           more == Cardinality(F) > c.limit
           page == {Item(e) : e \in I}
           n == Len(c.pages)
           d == Page(c, c.filter, c.limit, cursor)
<1>1. /\ c.filter \in Filters /\ c.limit \in Limits
      /\ c.pages \in Seq(SUBSET Items) /\ c.steady \subseteq Events
      /\ n \in Nat /\ DOMAIN c.pages = 1..n
    BY DEF Client
<1>2. /\ I \subseteq R
      /\ \A x \in I, e \in R \ I : Precedes(Place(x), Place(e))
      /\ ~more => I = R
      /\ more => \E q \in I : /\ LastOf(I) = {Place(q)}
                             /\ \A x \in I : x = q \/ Precedes(Place(x), Place(q))
    <2> HIDE DEF R, F, I
    <2> QED
        BY <1>1, PageRows DEF R, F, I
<1>3. /\ d.pc = IF more THEN "listing" ELSE "done"
      /\ d.pages = Append(c.pages, page)
      /\ d.cursor = IF more THEN LastOf(I) ELSE {}
      /\ d.filter = c.filter /\ d.limit = c.limit /\ d.steady = c.steady
    BY DEF Client, Page
<1>4. ASSUME NEW e \in R
      PROVE  /\ e \in Events /\ events[e] # {}
             /\ Place(e) \in Places
             /\ Item(e) \in Items /\ Item(e).event = e /\ KeyOf(Item(e)) = Place(e)
    <2>1. e \in Events /\ events[e] # {}
        BY DEF Rows, Matches, Joined
    <2> QED
        BY <2>1, PlaceType, ItemType
<1>5. page \subseteq Items
    BY <1>2, <1>4
<1>6. /\ DOMAIN d.pages = 1..(n + 1)
      /\ \A i \in 1..n : d.pages[i] = c.pages[i]
      /\ d.pages[n + 1] = page
      /\ d.pages \in Seq(SUBSET Items)
    <2> HIDE DEF page, d
    <2> QED
        BY <1>1, <1>3, <1>5
<1>7. d \in Client /\ OneCursor(d.cursor)
    <2>1. d.cursor \in SUBSET Places /\ OneCursor(d.cursor)
        BY <1>2, <1>3, <1>4 DEF OneCursor
    <2>2. d = [c EXCEPT !.pc = d.pc, !.pages = d.pages, !.cursor = d.cursor]
        BY DEF Client, Page
    <2> HIDE DEF d, more
    <2> QED
        BY <1>3, <1>6, <2>1, <2>2 DEF Client
<1> HIDE DEF R, F, I, more, d
<1>8. ASSUME NEW i \in 1..n, NEW x \in c.pages[i], NEW e \in R
      PROVE  Precedes(KeyOf(x), Place(e))
    <2>1. x \in Items
        BY <1>1
    <2>2. KeyOf(x) \in Places
        BY <2>1, ListingAssumption DEF KeyOf, Items, Places
    <2>3. PICK p \in cursor : KeyOf(x) = p \/ Precedes(KeyOf(x), p)
        BY <1>1 DEF Scanning
    <2>4. Precedes(p, Place(e))
        BY DEF R, Rows
    <2> QED
        BY <1>4, <2>2, <2>3, <2>4, PrecedesIsAnOrder
<1>9. Kept(d)
    <2>1. ASSUME NEW i \in 1..(n + 1), NEW j \in 1..(n + 1), i < j,
                 NEW x \in d.pages[i], NEW y \in d.pages[j]
          PROVE  Precedes(KeyOf(x), KeyOf(y))
        <3>1. i \in 1..n /\ x \in c.pages[i]
            BY <1>1, <1>6, <2>1
        <3>2. CASE j \in 1..n
            BY <1>1, <1>6, <2>1, <3>1, <3>2 DEF Kept
        <3>3. CASE j = n + 1
            <4>1. PICK e \in I : y = Item(e)
                BY <1>6, <3>3
            <4> QED
                BY <1>2, <1>4, <1>8, <3>1, <4>1
        <3> QED
            BY <1>1, <3>2, <3>3
    <2>2. ASSUME NEW i \in 1..(n + 1), NEW x \in d.pages[i]
          PROVE  /\ events[x.event] # {}
                 /\ x.event \in d.steady => KeyOf(x) = Place(x.event)
        <3>1. CASE i \in 1..n
            BY <1>1, <1>3, <1>6, <3>1 DEF Kept
        <3>2. CASE i = n + 1
            <4>1. PICK e \in I : x = Item(e)
                BY <1>6, <3>2
            <4> QED
                BY <1>2, <1>4, <4>1
        <3> QED
            BY <1>1, <3>1, <3>2
    <2> QED
        BY <1>3, <1>6, <2>1, <2>2 DEF Kept
<1>10. ASSUME NEW e \in c.steady
       PROVE  \/ \E i : ShownOn(d, e) = {i}
              \/ ShownOn(d, e) = {} /\ e \in R \ I
    <2>1. ASSUME NEW i, ShownOn(c, e) = {i} PROVE e \notin R
        <3>1. PICK x \in c.pages[i] : x.event = e
            BY <2>1 DEF ShownOn
        <3>2. i \in 1..n
            BY <1>1, <2>1 DEF ShownOn
        <3>3. KeyOf(x) = Place(e)
            BY <1>1, <3>1, <3>2 DEF Kept
        <3>4. ASSUME e \in R PROVE FALSE
            BY <1>4, <1>8, <3>1, <3>2, <3>3, <3>4, PrecedesIsAnOrder
        <3> QED
            BY <3>4
    <2>2. ASSUME \A p \in cursor : Precedes(p, Place(e)) PROVE e \in R
        BY <1>1, <2>2 DEF R, Rows, Kept
    <2>3. (\E x \in page : x.event = e) <=> e \in I
        BY <1>2, <1>4
    <2>4. ShownOn(d, e) = ShownOn(c, e) \cup (IF e \in I THEN {n + 1} ELSE {})
        <3> HIDE DEF page, n
        <3> QED
            BY <1>1, <1>6, <2>3 DEF ShownOn
    <2> QED
        BY <1>2, <2>1, <2>2, <2>4 DEF Scanning
<1>11. ASSUME more PROVE ClientInv(d)
    <2>1. PICK q \in I : /\ LastOf(I) = {Place(q)}
                        /\ \A x \in I : x = q \/ Precedes(Place(x), Place(q))
        BY <1>2, <1>11
    <2>2. d.pc = "listing" /\ d.cursor = {Place(q)}
        BY <1>3, <1>11, <2>1
    <2>3. ASSUME NEW i \in 1..(n + 1), NEW x \in d.pages[i]
          PROVE  KeyOf(x) = Place(q) \/ Precedes(KeyOf(x), Place(q))
        <3>1. CASE i \in 1..n
            BY <1>2, <1>6, <1>8, <3>1
        <3>2. CASE i = n + 1
            <4>1. PICK e \in I : x = Item(e)
                BY <1>6, <3>2
            <4> QED
                BY <1>2, <1>4, <2>1, <4>1
        <3> QED
            BY <1>1, <3>1, <3>2
    <2>4. Scanning(d, d.cursor)
        BY <1>2, <1>3, <1>6, <1>10, <2>2, <2>3 DEF Scanning
    <2> QED
        BY <1>7, <1>9, <2>2, <2>4 DEF ClientInv
<1>12. ASSUME ~more PROVE ClientInv(d)
    <2>1. d.pc = "done" /\ Scanned(d)
        BY <1>2, <1>3, <1>10, <1>12 DEF Scanned
    <2> QED
        BY <1>7, <1>9, <2>1 DEF ClientInv
<1> QED
    BY <1>11, <1>12 DEF d

-----------------------------------------------------------------------------
(* Every step keeps the invariant.                                         *)

LEMMA NotListingType ==
    /\ NotListing \in Client
    /\ NotListing.pc = "idle" /\ NotListing.cursor = {}
    /\ NotListing.pages = <<>> /\ NotListing.steady = {}
<1>1. (CHOOSE f \in Filters : TRUE) \in Filters
    BY ListingAssumption
<1>2. (CHOOSE l \in Limits : TRUE) \in Limits
    BY ListingAssumption
<1> QED
    BY <1>1, <1>2 DEF NotListing, Client

\* A client that has been shown nothing.
LEMMA Nothing ==
    ASSUME NEW c \in Client, c.pages = <<>>, c.cursor = {}, c.steady = {},
           c.pc \notin {"not_found"}
    PROVE  ClientInv(c)
BY DEF ClientInv, OneCursor, Kept, Scanning, Scanned

LEMMA ListingInvInit == ListingInit => ListingInv
<1> SUFFICES ASSUME ListingInit PROVE ListingInv
    OBVIOUS
<1>1. Inv /\ Keys
    BY InvInit, EventAssumption DEF ListingInit, Init, Keys
<1>2. \A k \in Clients : client[k] = NotListing
    BY DEF ListingInit
<1>3. client \in [Clients -> Client]
    BY NotListingType DEF ListingInit
<1>4. ClientInv(NotListing)
    BY NotListingType, Nothing
<1> QED
    BY <1>1, <1>2, <1>3, <1>4 DEF ListingInv

LEMMA ListStep ==
    ASSUME ListingInv, NEW k \in Clients, NEW f \in Filters, NEW l \in Limits,
           List(k, f, l)
    PROVE  ClientInv(client'[k])
<1> DEFINE c == [NotListing EXCEPT !.filter = f, !.limit = l,
                                   !.steady = {e \in Events : Matches(e, f)}]
<1>1. /\ c \in Client /\ c.filter = f /\ c.limit = l /\ c.pages = <<>>
      /\ \A e \in c.steady : Matches(e, f)
    BY NotListingType DEF Client
<1>2. client'[k] = Page(c, f, l, {})
    BY DEF List, ListingInv
<1> HIDE DEF c
<1>3. Kept(c) /\ Scanning(c, {})
    BY <1>1 DEF Kept, Scanning, ShownOn
<1> QED
    BY <1>1, <1>2, <1>3, NextPage DEF ListingInv

LEMMA ResumeStep ==
    ASSUME ListingInv, NEW k \in Clients, Resume(k)
    PROVE  ClientInv(client'[k])
<1>1. /\ client[k] \in Client /\ client[k].cursor \in SUBSET Places
      /\ Kept(client[k]) /\ Scanning(client[k], client[k].cursor)
    BY DEF Resume, ListingInv, ClientInv, Client
<1>2. client'[k] = Page(client[k], client[k].filter, client[k].limit,
                        client[k].cursor)
    BY DEF Resume, ListingInv
<1> QED
    BY <1>1, <1>2, NextPage DEF ListingInv

LEMMA GetStep ==
    ASSUME ListingInv, NEW k \in Clients, NEW e \in Events, Get(k, e)
    PROVE  ClientInv(client'[k])
<1>1. Kept(client[k]) /\ client[k] \in Client /\ OneCursor(client[k].cursor)
    BY DEF ListingInv, ClientInv
<1>2. PICK i \in DOMAIN client[k].pages : \E x \in client[k].pages[i] : x.event = e
    BY DEF Get
<1>3. events[e] # {}
    BY <1>1, <1>2 DEF Kept
<1>4. Joined(e)
    <2>1. ContentOf(e) \in events[e]
        BY <1>3, PlaceType DEF ListingInv
    <2>2. PICK o \in ObservationsOf(e) : o.content = ContentOf(e)
        BY <2>1 DEF ListingInv, Inv, EventsHaveProvenance
    <2> QED
        BY <1>3, <2>2 DEF Joined, ObservationsOf
<1>5. client'[k] = [client[k] EXCEPT !.pc = "found"]
    BY <1>4 DEF Get, ListingInv
<1> DEFINE d == client'[k]
<1>6. /\ d \in Client /\ d.pc = "found" /\ d.filter = client[k].filter
      /\ d.cursor = client[k].cursor /\ d.pages = client[k].pages
      /\ d.steady = client[k].steady
    BY <1>1, <1>5 DEF Client
<1> HIDE DEF d
<1>7. ClientInv(d)
    BY <1>1, <1>6 DEF ClientInv, Kept
<1> QED
    BY <1>7 DEF d

\* A scan is told of the store only where its events are.
LEMMA SameStore ==
    ASSUME UNCHANGED <<observations, events>>
    PROVE  /\ \A e : Place(e)' = Place(e)
           /\ \A e, f : Matches(e, f)' <=> Matches(e, f)
BY DEF Place, ContentOf, Matches, Joined

LEMMA Refused ==
    ASSUME NEW c, ClientInv(c), c.pc = "idle"
    PROVE  ClientInv([c EXCEPT !.pc = "refused"])
<1> DEFINE d == [c EXCEPT !.pc = "refused"]
<1>1. /\ d \in Client /\ d.pc = "refused" /\ d.filter = c.filter
      /\ d.cursor = c.cursor /\ d.pages = c.pages /\ d.steady = c.steady
    BY DEF ClientInv, Client
<1> HIDE DEF d
<1>2. ClientInv(d)
    BY <1>1 DEF ClientInv, Kept
<1> QED
    BY <1>2 DEF d

\* While the table changes, what is steady keeps its place.
LEMMA StoreStep ==
    ASSUME ListingInv, WriteStep, NEW k \in Clients
    PROVE  ClientInv(client[k])'
<1> DEFINE c == client[k]
           d == client'[k]
<1>1. /\ c \in Client /\ OneCursor(c.cursor) /\ Kept(c)
      /\ c.pc = "listing" => Scanning(c, c.cursor)
      /\ c.pc = "done" => Scanned(c)
      /\ c.pc # "not_found"
    BY DEF ListingInv, ClientInv
<1>2. d = [c EXCEPT !.steady = {e \in c.steady : c.filter \in Keeping(e)}]
    BY DEF WriteStep
<1>3. /\ d \in Client /\ d.pc = c.pc /\ d.filter = c.filter
      /\ d.cursor = c.cursor /\ d.pages = c.pages
      /\ d.steady = {e \in c.steady : c.filter \in Keeping(e)}
    BY <1>1, <1>2 DEF Client
<1>4. ASSUME NEW e \in d.steady
      PROVE  e \in c.steady /\ Matches(e, c.filter)' /\ Place(e)' = Place(e)
    BY <1>3 DEF Keeping
<1>5. ASSUME NEW e PROVE ShownOn(c, e) = ShownOn(d, e)
    BY <1>3 DEF ShownOn
<1>6. \A e \in Events : events[e] # {} => events'[e] # {}
    BY EventsStay DEF ListingInv, WriteStep
<1>7. \A i \in DOMAIN c.pages : \A x \in c.pages[i] : x.event \in Events
    BY <1>1 DEF Client, Items
<1>8. Kept(client[k])'
    BY <1>1, <1>3, <1>4, <1>6, <1>7 DEF Kept
<1>9. c.pc = "listing" => Scanning(client[k], client[k].cursor)'
    BY <1>1, <1>3, <1>4, <1>5 DEF Scanning
<1>10. c.pc = "done" => Scanned(client[k])'
    BY <1>1, <1>3, <1>4, <1>5 DEF Scanned
<1> QED
    BY <1>1, <1>3, <1>8, <1>9, <1>10 DEF ClientInv, OneCursor

LEMMA ListingInvNext == ListingInv /\ [ListingNext]_listingVars => ListingInv'
<1> SUFFICES ASSUME ListingInv, [ListingNext]_listingVars PROVE ListingInv'
    OBVIOUS
<1>1. [Next]_vars
    BY DEF ListingNext, WriteStep, List, Refuse, Resume, Get, listingVars, vars
<1>2. Inv' /\ Keys'
    BY <1>1, InvNext, KeysHold DEF ListingInv, Inv
<1> SUFFICES /\ client' \in [Clients -> Client]
             /\ \A k \in Clients : ClientInv(client[k])'
    BY <1>2 DEF ListingInv
<1>3. CASE WriteStep
    <2>1. \A k \in Clients : ClientInv(client[k])'
        BY <1>3, StoreStep
    <2>2. client' = [k \in Clients |-> client'[k]]
        BY <1>3 DEF WriteStep
    <2>3. \A k \in Clients : client'[k] \in Client
        BY <2>1 DEF ClientInv
    <2> QED
        BY <2>1, <2>2, <2>3
<1>4. ASSUME UNCHANGED vars, NEW k \in Clients, NEW d, ClientInv(d),
             client' = [client EXCEPT ![k] = d]
      PROVE  /\ client' \in [Clients -> Client]
             /\ \A j \in Clients : ClientInv(client[j])'
    <2>1. \A j \in Clients : ClientInv(client'[j]) /\ client'[j] \in Client
        BY <1>4 DEF ListingInv, ClientInv
    <2>2. client' \in [Clients -> Client]
        BY <1>4, <2>1 DEF ListingInv
    <2>3. /\ \A e : Place(e)' = Place(e)
          /\ \A e, f : Matches(e, f)' <=> Matches(e, f)
          /\ events' = events
        BY <1>4, SameStore DEF vars
    <2> QED
        BY <2>1, <2>2, <2>3 DEF ClientInv, Kept, Scanning, Scanned, OneCursor
<1>5. ASSUME NEW k \in Clients, NEW f \in Filters, Refuse(k, f)
      PROVE  /\ client' \in [Clients -> Client]
             /\ \A j \in Clients : ClientInv(client[j])'
    BY <1>4, <1>5, Refused DEF Refuse, ListingInv
<1>6. ASSUME NEW k \in Clients, NEW f \in Filters, NEW l \in Limits, List(k, f, l)
      PROVE  /\ client' \in [Clients -> Client]
             /\ \A j \in Clients : ClientInv(client[j])'
    <2>1. ClientInv(client'[k])
        BY <1>6, ListStep
    <2>2. client' = [client EXCEPT ![k] = client'[k]] /\ UNCHANGED vars
        BY <1>6 DEF List, ListingInv
    <2> QED
        BY <1>4, <2>1, <2>2
<1>7. ASSUME NEW k \in Clients, Resume(k)
      PROVE  /\ client' \in [Clients -> Client]
             /\ \A j \in Clients : ClientInv(client[j])'
    <2>1. ClientInv(client'[k])
        BY <1>7, ResumeStep
    <2>2. client' = [client EXCEPT ![k] = client'[k]] /\ UNCHANGED vars
        BY <1>7 DEF Resume, ListingInv
    <2> QED
        BY <1>4, <2>1, <2>2
<1>8. ASSUME NEW k \in Clients, NEW e \in Events, Get(k, e)
      PROVE  /\ client' \in [Clients -> Client]
             /\ \A j \in Clients : ClientInv(client[j])'
    <2>1. ClientInv(client'[k])
        BY <1>8, GetStep
    <2>2. client' = [client EXCEPT ![k] = client'[k]] /\ UNCHANGED vars
        BY <1>8 DEF Get, ListingInv
    <2> QED
        BY <1>4, <2>1, <2>2
<1>9. CASE UNCHANGED listingVars
    <2>1. /\ \A e : Place(e)' = Place(e)
          /\ \A e, f : Matches(e, f)' <=> Matches(e, f)
          /\ events' = events /\ client' = client
        BY <1>9, SameStore DEF vars, listingVars
    <2>2. \A j \in Clients : client'[j] = client[j] /\ ClientInv(client[j])
        BY <2>1 DEF ListingInv
    <2>3. \A j \in Clients : Kept(client[j])'
        BY <2>1, <2>2 DEF ClientInv, Kept
    <2>4. ASSUME NEW j \in Clients PROVE ClientInv(client[j])'
        <3>1. client'[j] = client[j] /\ ClientInv(client[j]) /\ Kept(client[j])'
            BY <2>2, <2>3
        <3>2. Scanning(client[j], client[j].cursor) => Scanning(client[j], client[j].cursor)'
            BY <2>1, <3>1 DEF Scanning
        <3> QED
            BY <3>1, <3>2 DEF ClientInv, Scanned, OneCursor
    <2> QED
        BY <2>1, <2>4 DEF ListingInv
<1> QED
    BY <1>3, <1>5, <1>6, <1>7, <1>8, <1>9 DEF ListingNext

\* ListingInv holds in every reachable state.
THEOREM ListingInvariance == ListingSpec => []ListingInv
BY ListingInvInit, ListingInvNext, PTL DEF ListingSpec

\* The two sides keep their types.
THEOREM ListingTypeCorrect == ListingSpec => []ListingTypeOK
<1>1. ListingInv => ListingTypeOK
    <2> SUFFICES ASSUME ListingInv PROVE ListingTypeOK
        OBVIOUS
    <2>1. TypeOK
        BY TypesAndKeys DEF ListingInv, Inv
    <2>2. ASSUME NEW k \in Clients PROVE Cardinality(client[k].cursor) <= 1
        <3>1. OneCursor(client[k].cursor)
            BY DEF ListingInv, ClientInv
        <3>2. CASE client[k].cursor = {}
            BY <3>2, FS_EmptySet
        <3>3. ASSUME NEW p \in client[k].cursor
              PROVE  Cardinality(client[k].cursor) <= 1
            <4>1. client[k].cursor = {p}
                BY <3>1 DEF OneCursor
            <4>2. Cardinality({p}) = 1
                BY FS_Singleton
            <4> QED
                BY <4>1, <4>2
        <3> QED
            BY <3>2, <3>3
    <2>3. \A k \in Clients : client[k] \in Client
        BY DEF ListingInv
    <2> QED
        BY <2>1, <2>2, <2>3 DEF ListingTypeOK, Client, Items
<1> QED
    BY <1>1, ListingInvariance, PTL

\* A keyset listing shows every event that kept its place exactly once, for
\* any page size and whatever the ingesters write meanwhile (Repository.List).
THEOREM ListingIsComplete == ListingSpec => []ScansMissNothing
<1>1. ListingInv => ScansMissNothing
    <2> SUFFICES ASSUME ListingInv, NEW k \in Clients, client[k].pc = "done",
                        NEW e \in client[k].steady
                 PROVE  Cardinality(Showing(k, e)) = 1
        BY DEF ScansMissNothing
    <2>1. PICK i : ShownOn(client[k], e) = {i}
        BY DEF ListingInv, ClientInv, Scanned
    <2>2. Showing(k, e) = {i}
        BY <2>1 DEF Showing, ShownOn
    <2> QED
        BY <2>2, FS_Singleton
<1> QED
    BY <1>1, ListingInvariance, PTL

\* The pages of a listing never overlap in the order (listSQL's cursor).
THEOREM ListingIsOrdered == ListingSpec => []PagesRunNewestFirst
<1>1. ListingInv => PagesRunNewestFirst
    BY DEF ListingInv, ClientInv, Kept, KeyOf, PagesRunNewestFirst
<1> QED
    BY <1>1, ListingInvariance, PTL

\* What was listed can be fetched (Repository.Get).
THEOREM ListedIsFound == ListingSpec => []ShownEventsStay
<1>1. ListingInv => ShownEventsStay
    BY DEF ListingInv, ClientInv, ShownEventsStay
<1> QED
    BY <1>1, ListingInvariance, PTL

\* Reading disturbs nothing: a behaviour of the two sides is one of the store.
THEOREM ReadingIsSilent == ListingSpec => Spec
<1>1. ListingInit => Init
    BY DEF ListingInit
<1>2. [ListingNext]_listingVars => [Next]_vars
    BY DEF ListingNext, WriteStep, List, Refuse, Resume, Get, listingVars, vars
<1> QED
    BY <1>1, <1>2, PTL DEF ListingSpec, Spec

=============================================================================
