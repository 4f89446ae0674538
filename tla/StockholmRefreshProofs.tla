----------------------- MODULE StockholmRefreshProofs -----------------------
(***************************************************************************)
(* Theorems about StockholmRefresh for any finite set of cases, whichever  *)
(* of them cannot be read or persisted, and any MaxRefresh.                *)
(*                                                                         *)
(* What a run has in hand is listed once and handled while the order of    *)
(* the cases changes under it: every case it confirms becomes the most     *)
(* recent one.  The rest of the list stays in order because a case that is *)
(* confirmed leaves it (InHand).                                           *)
(***************************************************************************)
EXTENDS StockholmRefresh, FiniteSetTheorems, FunctionTheorems, SequenceTheorems, TLAPS

\* The known cases are in one order, and the due ones come first in it.
InOneOrder ==
    /\ before \in [Cases -> SUBSET Known]
    /\ \A c \in Known, d \in Cases :
          /\ d \in Known /\ d # c => (d \in before[c] <=> c \notin before[d])
          /\ d \in before[c] => d # c /\ before[d] \subseteq before[c]
    /\ due \in Oldest

Listed == ToSet(run.list)

\* What the run has still to read of its search and of its list, and what it
\* has read of both.  The list is in order, and the owed cases that the bound
\* cut off come after it.
InHand ==
    /\ run.searched \subseteq run.found \cup run.fetched
    /\ run.fetched \subseteq run.confirmed \/ run.failed
    /\ run.pc # "discover" => run.found = {}
    /\ run.pc # "refresh" => run.list = <<>> /\ run.owed = {}
    /\ run.owed \subseteq Known /\ Listed \subseteq run.owed
    /\ \A j, k \in 1..Len(run.list) : j < k => run.list[j] \in before[run.list[k]]
    /\ \A d \in run.owed \ (run.fetched \cup Listed), c \in Listed : c \in before[d]
    /\ run.pc = "refresh" =>
          \/ run.owed \subseteq Listed \cup run.fetched
          \/ Cardinality(run.owed \cap (Listed \cup run.fetched)) >= MaxRefresh

Counts ==
    /\ spoilt \subseteq Unreadable \cup Unstorable
    /\ state \in [Cases -> {"unknown", "open", "closed"}]
    /\ run \in Run
    /\ report \in {"none", "aborted", "persist failures", "complete"}
    /\ faults \in 0..MaxFaults

RefreshInv == Counts /\ InOneOrder /\ InHand

-----------------------------------------------------------------------------
(* The order of the cases.                                                 *)

\* The list of a set of known cases holds each of them once, the one confirmed
\* longest ago first.
LEMMA Ordered ==
    ASSUME ConstantsFit, InOneOrder, NEW S \in SUBSET Known
    PROVE  /\ InOrder(S) \in Seq(S)
           /\ Len(InOrder(S)) = Cardinality(S)
           /\ \A c \in S : \E k \in 1..Cardinality(S) : InOrder(S)[k] = c
           /\ \A j, k \in 1..Cardinality(S) : j < k => InOrder(S)[j] \in before[InOrder(S)[k]]
<1> DEFINE n == Cardinality(S)
           place == [c \in S |-> Cardinality(before[c] \cap S)]
           L == InOrder(S)
<1>1. IsFiniteSet(S) /\ n \in Nat /\ S \subseteq Cases
    BY FS_Subset, FS_CardinalityType DEF ConstantsFit, Known
<1>2. ASSUME NEW T \in SUBSET S, NEW U \in SUBSET T, NEW x \in T \ U
      PROVE  Cardinality(U) < Cardinality(T) /\ Cardinality(U) \in Nat /\ Cardinality(T) \in Nat
    <2>1. IsFiniteSet(T) /\ IsFiniteSet(U)
        BY <1>1, FS_Subset
    <2>2. Cardinality(U) <= Cardinality(T) /\ Cardinality(U) # Cardinality(T)
        BY <1>2, <2>1, FS_Subset
    <2>3. Cardinality(U) \in Nat /\ Cardinality(T) \in Nat
        BY <2>1, FS_CardinalityType
    <2> QED
        BY <2>2, <2>3
<1>3. ASSUME NEW c \in S
      PROVE  place[c] \in 0..(n - 1)
    <2>1. c \in S \ (before[c] \cap S)
        BY <1>1 DEF InOneOrder
    <2>2. Cardinality(before[c] \cap S) < n /\ Cardinality(before[c] \cap S) \in Nat
        BY <1>2, <2>1
    <2> QED
        BY <1>1, <2>2
<1>4. ASSUME NEW c \in S, NEW d \in S, d \in before[c]
      PROVE  place[d] < place[c]
    <2>1. before[d] \subseteq before[c] /\ d \notin before[d]
        BY <1>1, <1>4 DEF InOneOrder
    <2>2. d \in (before[c] \cap S) \ (before[d] \cap S) /\ before[d] \cap S \in SUBSET (before[c] \cap S)
        BY <1>4, <2>1
    <2>3. Cardinality(before[d] \cap S) < Cardinality(before[c] \cap S)
        BY <1>2, <2>2
    <2> QED
        BY <2>3
<1>5. \A c, d \in S : c # d => d \in before[c] \/ c \in before[d]
    BY <1>1 DEF InOneOrder
<1>6. \A c \in S : place[c] \in Nat
    BY <1>1, <1>3
<1>7. \A c, d \in S : place[c] = place[d] => c = d
    <2> HIDE DEF place
    <2> QED
        BY <1>4, <1>5, <1>6
<1>8. \A k \in 0..(n - 1) : \E c \in S : place[c] = k
    <2>1. place \in Injection(S, 0..(n - 1))
        BY <1>3, <1>7, Fun_IsInj
    <2>2. IsFiniteSet(0..(n - 1)) /\ Cardinality(0..(n - 1)) = n
        <3> HIDE DEF n
        <3>1. n - 1 \in Int /\ 0 \in Int /\ (IF 0 > n - 1 THEN 0 ELSE n - 1 - 0 + 1) = n
            BY <1>1
        <3> QED
            BY <3>1, FS_Interval
    <2>3. place \in Surjection(S, 0..(n - 1))
        BY <1>1, <2>1, <2>2, FS_Injection
    <2> HIDE DEF place
    <2> QED
        BY <2>3 DEF Surjection
<1>9. L = [k \in 1..n |-> CHOOSE c \in S : Cardinality(before[c] \cap S) = k - 1]
    BY DEF InOrder
<1>10. \A c \in S : place[c] = Cardinality(before[c] \cap S)
    OBVIOUS
<1> HIDE DEF place, L
<1>11. ASSUME NEW k \in 1..n
       PROVE  L[k] \in S /\ place[L[k]] = k - 1
    <2>1. k - 1 \in 0..(n - 1)
        BY <1>1
    <2>2. \E c \in S : Cardinality(before[c] \cap S) = k - 1
        BY <1>8, <1>10, <2>1
    <2>3. L[k] \in S /\ Cardinality(before[L[k]] \cap S) = k - 1
        BY <1>9, <2>2
    <2> QED
        BY <1>10, <2>3
<1>12. L \in Seq(S) /\ Len(L) = n
    <2>1. L \in [1..n -> S]
        BY <1>9, <1>11
    <2> QED
        BY <1>1, <2>1, IsASeq, LenProperties
<1>13. ASSUME NEW c \in S
       PROVE  \E k \in 1..n : L[k] = c
    <2>1. PICK k \in 1..n : k - 1 = place[c]
        <3>1. PICK k : k = place[c] + 1
            OBVIOUS
        <3>2. k \in 1..n /\ k - 1 = place[c]
            BY <1>1, <1>3, <3>1
        <3> QED
            BY <3>2
    <2>2. L[k] \in S /\ place[L[k]] = place[c]
        BY <1>11, <2>1
    <2>3. L[k] = c
        BY <1>7, <2>2
    <2> QED
        BY <2>3
<1>14. ASSUME NEW j \in 1..n, NEW k \in 1..n, j < k
       PROVE  L[j] \in before[L[k]]
    <2>1. place[L[j]] < place[L[k]] /\ L[j] \in S /\ L[k] \in S
        BY <1>1, <1>11, <1>14
    <2>2. place[L[j]] \in Nat /\ place[L[k]] \in Nat
        BY <1>6, <2>1
    <2>3. L[k] \notin before[L[j]] /\ L[j] # L[k]
        BY <1>4, <2>1, <2>2
    <2> QED
        BY <1>5, <2>1, <2>3
<1> QED
    BY <1>12, <1>13, <1>14 DEF L

\* A confirmed case becomes the most recent one and is due no more; the other
\* cases keep their order.
LEMMA OrderStep ==
    ASSUME ConstantsFit, InOneOrder, state \in [Cases -> {"unknown", "open", "closed"}], [Next]_vars
    PROVE  InOneOrder'
<1>1. CASE UNCHANGED <<state, before, due>>
    BY <1>1 DEF InOneOrder, Known, Oldest
<1>2. CASE Age
    <2>1. UNCHANGED <<state, before>> /\ due' \in Oldest
        BY <1>2 DEF Age
    <2> QED
        BY <2>1 DEF InOneOrder, Known, Oldest
<1>3. ASSUME NEW c \in Cases, NEW shown \in {"open", "closed"}, Confirm(c, shown)
      PROVE  InOneOrder'
    <2>1. /\ state' = [state EXCEPT ![c] = shown] /\ due' = due \ {c}
          /\ before' = [d \in Cases |-> IF d = c THEN Known \ {c} ELSE before[d] \ {c}]
        BY <1>3 DEF Confirm, Latest
    <2>2. Known' = Known \cup {c}
        <3>1. shown # "unknown"
            OBVIOUS
        <3> QED
            BY <2>1, <3>1 DEF Known
    <2>3. before' \in [Cases -> SUBSET Known']
        BY <2>1, <2>2 DEF InOneOrder
    <2>4. ASSUME NEW x \in Known', NEW y \in Known', y # x
          PROVE  y \in before'[x] <=> x \notin before'[y]
        <3>1. x \in Cases /\ y \in Cases
            BY DEF Known
        <3> QED
            BY <2>1, <2>2, <2>4, <3>1 DEF InOneOrder
    <2>5. ASSUME NEW x \in Known', NEW y \in before'[x]
          PROVE  y # x /\ before'[y] \subseteq before'[x]
        <3>1. x \in Cases /\ y \in Cases /\ \A d \in Cases : before[d] \subseteq Known
            BY <2>1, <2>5 DEF Known, InOneOrder
        <3>2. CASE x = c
            BY <2>1, <3>1, <3>2
        <3>3. CASE x # c
            BY <2>1, <2>2, <2>5, <3>1, <3>3 DEF InOneOrder
        <3> QED
            BY <3>2, <3>3
    <2>6. due' \in Oldest'
        <3>1. due \in SUBSET Known /\ \A x \in due : before[x] \subseteq due
            BY DEF InOneOrder, Oldest
        <3>2. \A x \in due : x \in Cases
            BY <3>1 DEF Known
        <3>3. \A x \in due \ {c} : before'[x] \subseteq due \ {c}
            BY <2>1, <3>1, <3>2
        <3> QED
            BY <2>1, <2>2, <3>1, <3>3 DEF Oldest
    <2>7. \A x \in Known', y \in Cases : y \in before'[x] => y # x /\ before'[y] \subseteq before'[x]
        BY <2>5
    <2> QED
        BY <2>3, <2>4, <2>6, <2>7 DEF InOneOrder
<1> QED
    BY <1>1, <1>2, <1>3 DEF Next, Spoil, Search, RunStep, ListDue, ListFails, Skip, PersistFails, Abort, Aborted,
       Crash, Finish, vars

-----------------------------------------------------------------------------
(* The run.                                                                *)

\* The case at the head of a list, and the rest.
LEMMA HeadAndRest ==
    ASSUME NEW L \in Seq(Cases), L # <<>>
    PROVE  /\ Head(L) \in Cases /\ Tail(L) \in Seq(Cases)
           /\ Len(L) \in Nat /\ 1 \in 1..Len(L) /\ Head(L) = L[1]
           /\ Len(Tail(L)) = Len(L) - 1
           /\ \A k \in 1..Len(Tail(L)) : k + 1 \in 1..Len(L) /\ Tail(L)[k] = L[k + 1]
           /\ ToSet(L) = {Head(L)} \cup ToSet(Tail(L))
<1>1. /\ Head(L) \in Cases /\ Tail(L) \in Seq(Cases)
      /\ Len(L) \in Nat /\ Len(L) >= 1 /\ Head(L) = L[1]
      /\ Len(Tail(L)) = Len(L) - 1
      /\ \A k \in 1..Len(Tail(L)) : Tail(L)[k] = L[k + 1]
    BY HeadTailProperties, LenProperties, EmptySeq, ElementOfSeq
<1>2. DOMAIN L = 1..Len(L) /\ DOMAIN Tail(L) = 1..(Len(L) - 1)
    BY <1>1, LenProperties
<1>3. ASSUME NEW k \in 1..Len(L), k # 1
      PROVE  L[k] \in ToSet(Tail(L))
    <2>1. PICK j : j = k - 1
        OBVIOUS
    <2>2. j \in 1..(Len(L) - 1) /\ k = j + 1
        BY <1>1, <1>3, <2>1
    <2>3. L[k] = Tail(L)[j]
        BY <1>1, <2>2
    <2> QED
        BY <1>2, <2>2, <2>3 DEF ToSet
<1>4. ASSUME NEW k \in 1..Len(Tail(L))
      PROVE  k + 1 \in 1..Len(L)
    BY <1>1
<1>5. ToSet(L) \subseteq {Head(L)} \cup ToSet(Tail(L))
    BY <1>1, <1>2, <1>3 DEF ToSet
<1>6. ToSet(Tail(L)) \subseteq ToSet(L)
    BY <1>1, <1>2, <1>4 DEF ToSet
<1>7. Head(L) \in ToSet(L) /\ 1 \in 1..Len(L)
    BY <1>1, <1>2 DEF ToSet
<1> QED
    BY <1>1, <1>4, <1>5, <1>6, <1>7

\* Reading a case takes it off what is left to read.
LEMMA FetchedFits ==
    ASSUME run \in Run, NEW c \in Cases, Reads(c), NEW r, r = Fetched(c)
    PROVE  /\ r \in Run
           /\ r.pc = run.pc /\ r.found = run.found \ {c} /\ r.fetched = run.fetched \cup {c}
           /\ r.list = (IF run.pc = "refresh" THEN Tail(run.list) ELSE run.list)
           /\ r.failed = run.failed /\ r.searched = run.searched /\ r.owed = run.owed
           /\ r.confirmed = run.confirmed
<1>1. run.list \in Seq(Cases)
    BY DEF Run
<1>2. PICK list \in Seq(Cases) : list = (IF run.pc = "refresh" THEN Tail(run.list) ELSE run.list)
    <2>1. CASE run.pc = "refresh"
        <3>1. run.list # <<>>
            BY <2>1 DEF Reads
        <3> QED
            BY <1>1, <2>1, <3>1, HeadAndRest
    <2>2. CASE run.pc # "refresh"
        BY <1>1, <2>2
    <2> QED
        BY <2>1, <2>2
<1>3. r = [run EXCEPT !.found = run.found \ {c}, !.list = list, !.fetched = run.fetched \cup {c}]
    BY <1>2 DEF Fetched
<1>4. r \in Run
    <2>1. run.found \ {c} \in SUBSET Cases /\ run.fetched \cup {c} \in SUBSET Cases
        BY DEF Run
    <2> QED
        BY <1>2, <1>3, <2>1 DEF Run
<1>5. /\ r.pc = run.pc /\ r.found = run.found \ {c} /\ r.fetched = run.fetched \cup {c} /\ r.list = list
      /\ r.failed = run.failed /\ r.searched = run.searched /\ r.owed = run.owed
      /\ r.confirmed = run.confirmed
    BY <1>3 DEF Run
<1> QED
    BY <1>2, <1>4, <1>5

\* When a case is read, what is still in hand stays listed once and in order;
\* the case itself may move in the order.
LEMMA ReadStep ==
    ASSUME ConstantsFit, Counts, InOneOrder, InHand, NEW c \in Cases, Reads(c), run' \in Run,
           run'.pc = run.pc, run'.found = run.found \ {c}, run'.fetched = run.fetched \cup {c},
           run'.list = (IF run.pc = "refresh" THEN Tail(run.list) ELSE run.list),
           run'.searched = run.searched, run'.owed = run.owed,
           run'.fetched \subseteq run'.confirmed \/ run'.failed,
           Known \subseteq Known',
           \A d \in Cases, e \in Cases : e # c /\ d # c /\ e \in before[d] => e \in before'[d]
    PROVE  InHand'
<1>1. run \in Run /\ run.list \in Seq(Cases) /\ run.owed \subseteq Cases
    BY DEF Counts, Run
<1>2. CASE run.pc # "refresh"
    <2>1. run.list = <<>> /\ run.owed = {} /\ Listed' = Listed
        BY <1>2 DEF InHand, Listed
    <2>2. Listed = {} /\ Len(run.list) = 0
        BY <2>1, EmptySeq DEF ToSet, Listed
    <2>3. run.pc = "discover"
        BY <1>2 DEF Reads
    <2> QED
        BY <1>2, <2>1, <2>2, <2>3 DEF InHand
<1>3. CASE run.pc = "refresh"
    <2>1. run.list # <<>> /\ c = Head(run.list) /\ c \notin run.fetched
        BY <1>3 DEF Reads
    <2>2. PICK L : L = run.list
        OBVIOUS
    <2>3. PICK T : T = Tail(L)
        OBVIOUS
    <2>4. /\ T \in Seq(Cases) /\ Len(L) \in Nat /\ 1 \in 1..Len(L) /\ c = L[1] /\ Len(T) = Len(L) - 1
          /\ \A k \in 1..Len(T) : k + 1 \in 1..Len(L) /\ T[k] = L[k + 1]
          /\ ToSet(L) = {c} \cup ToSet(T)
        BY <1>1, <2>1, <2>2, <2>3, HeadAndRest
    <2>5. run'.list = T /\ Listed' = ToSet(T) /\ Listed = ToSet(L) /\ DOMAIN T = 1..Len(T)
        BY <1>3, <2>2, <2>3, <2>4, LenProperties DEF Listed
    <2>6. \A j, k \in 1..Len(L) : j < k => L[j] \in before[L[k]]
        BY <2>2 DEF InHand
    <2>7. \A d \in ToSet(T) : d # c /\ d \in Cases /\ d \in run.owed
        <3>1. ASSUME NEW k \in 1..Len(T)
              PROVE  T[k] # c /\ T[k] \in Cases /\ T[k] \in run.owed
            <4>1. k + 1 \in 1..Len(L) /\ 1 < k + 1 /\ T[k] = L[k + 1]
                BY <2>4
            <4>2. c \in before[T[k]]
                BY <2>4, <2>6, <4>1
            <4>3. T[k] \in ToSet(T)
                BY <2>5 DEF ToSet
            <4>4. T[k] \in run.owed /\ T[k] \in Known
                BY <2>4, <2>5, <4>3 DEF InHand
            <4> QED
                BY <4>2, <4>4 DEF InOneOrder, Known
        <3> QED
            BY <2>5, <3>1 DEF ToSet
    <2>8. ASSUME NEW j \in 1..Len(T), NEW k \in 1..Len(T), j < k
          PROVE  T[j] \in before'[T[k]]
        <3>1. j + 1 \in 1..Len(L) /\ k + 1 \in 1..Len(L) /\ j + 1 < k + 1
            BY <2>4, <2>8
        <3>2. T[j] \in before[T[k]]
            BY <2>4, <2>6, <3>1
        <3>3. T[j] \in ToSet(T) /\ T[k] \in ToSet(T)
            BY <2>5 DEF ToSet
        <3> QED
            BY <2>7, <3>2, <3>3
    <2>9. ASSUME NEW d \in run'.owed \ (run'.fetched \cup Listed'), NEW e \in Listed'
          PROVE  e \in before'[d]
        <3>1. d \in run.owed \ (run.fetched \cup Listed) /\ d # c /\ d \in Cases
            BY <1>1, <2>4, <2>5, <2>9
        <3>2. e \in Listed /\ e # c /\ e \in Cases
            BY <2>4, <2>5, <2>7
        <3>3. e \in before[d]
            BY <3>1, <3>2 DEF InHand
        <3> QED
            BY <3>1, <3>2, <3>3
    <2>10. Listed' \cup run'.fetched = Listed \cup run.fetched
        BY <2>4, <2>5
    <2>11. run.searched \subseteq run.found \cup run.fetched
        BY DEF InHand
    <2>12. run.found = {} /\ run.owed \subseteq Known
        BY <1>3 DEF InHand
    <2>13. \/ run.owed \subseteq Listed \cup run.fetched
           \/ Cardinality(run.owed \cap (Listed \cup run.fetched)) >= MaxRefresh
        BY <1>3 DEF InHand
    <2> HIDE DEF Listed
    <2> QED
        BY <1>3, <2>5, <2>7, <2>8, <2>9, <2>10, <2>11, <2>12, <2>13 DEF InHand
<1> QED
    BY <1>2, <1>3

\* What is between two runs.
LEMMA Resting ==
    /\ NotRunning \in Run
    /\ NotRunning.pc = "idle" /\ NotRunning.found = {} /\ NotRunning.list = <<>>
    /\ NotRunning.fetched = {} /\ NotRunning.failed = FALSE
    /\ NotRunning.searched = {} /\ NotRunning.owed = {} /\ NotRunning.confirmed = {}
<1>1. <<>> \in Seq(Cases)
    OBVIOUS
<1> QED
    BY <1>1 DEF NotRunning, Run

\* A run that has nothing in hand.
LEMMA HandEmpty ==
    ASSUME run'.pc # "refresh", run'.list = <<>>, run'.owed = {}, run'.fetched = {},
           run'.searched = run'.found, run'.pc # "discover" => run'.found = {}
    PROVE  InHand'
<1>1. Listed' = {} /\ Len(run'.list) = 0
    BY EmptySeq DEF Listed, ToSet
<1> QED
    BY <1>1 DEF InHand

\* The first so many cases of the list of those that are due: all of them, or as
\* many as the bound allows.
LEMMA ListDueStep ==
    ASSUME ConstantsFit, Counts, InOneOrder, InHand, ListDue
    PROVE  run' \in Run /\ InHand'
<1>1. run \in Run /\ run.pc = "discover" /\ run.found = {}
    BY DEF ListDue, Counts
<1>2. PICK S : S = OpenCases
    OBVIOUS
<1>3. S \in SUBSET Known /\ S \in SUBSET Cases
    BY <1>2 DEF OpenCases, InOneOrder, Oldest, Known
<1>4. PICK L : L = InOrder(S)
    OBVIOUS
<1>5. PICK n : n = Cardinality(S)
    OBVIOUS
<1>6. /\ L \in Seq(S) /\ Len(L) = n
      /\ \A c \in S : \E k \in 1..n : L[k] = c
      /\ \A j, k \in 1..n : j < k => L[j] \in before[L[k]]
    BY <1>3, <1>4, <1>5, Ordered
<1>7. IsFiniteSet(S) /\ n \in Nat
    BY <1>3, <1>5, FS_Subset, FS_CardinalityType DEF ConstantsFit
<1>8. \A k \in 1..n : L[k] \in S
    BY <1>6, ElementOfSeq
<1>9. MaxRefresh \in Nat
    BY DEF ConstantsFit
<1>10. PICK list : list = IF Len(L) <= MaxRefresh THEN L ELSE SubSeq(L, 1, MaxRefresh)
    OBVIOUS
<1>11. PICK m : m = IF n <= MaxRefresh THEN n ELSE MaxRefresh
    OBVIOUS
<1>12. m \in Nat /\ m <= n
    BY <1>7, <1>9, <1>11
<1>13. list \in Seq(S) /\ Len(list) = m /\ \A k \in 1..m : list[k] = L[k]
    <2>1. CASE n <= MaxRefresh
        BY <1>6, <1>10, <1>11, <2>1
    <2>2. CASE ~(n <= MaxRefresh)
        <3>1. \A k \in 1..MaxRefresh : L[k] \in S
            BY <1>7, <1>8, <1>9, <2>2
        <3>2. /\ SubSeq(L, 1, MaxRefresh) \in Seq(S)
              /\ Len(SubSeq(L, 1, MaxRefresh)) = (IF 1 <= MaxRefresh THEN MaxRefresh - 1 + 1 ELSE 0)
              /\ \A k \in 1..(MaxRefresh - 1 + 1) : SubSeq(L, 1, MaxRefresh)[k] = L[1 + k - 1]
            BY <1>9, <3>1, SubSeqProperties
        <3>3. list = SubSeq(L, 1, MaxRefresh) /\ m = MaxRefresh
            BY <1>6, <1>10, <1>11, <2>2
        <3>4. Len(list) = m
            BY <1>9, <3>2, <3>3
        <3>5. \A k \in 1..m : list[k] = L[k]
            BY <1>9, <3>2, <3>3
        <3> QED
            BY <3>2, <3>3, <3>4, <3>5
    <2> QED
        BY <2>1, <2>2
<1>14. list \in Seq(Cases)
    BY <1>3, <1>13, SeqMonotonic
<1>15. PICK v : v = [run EXCEPT !.pc = "refresh", !.owed = S, !.list = list]
    OBVIOUS
<1>16. run' = v
    BY <1>2, <1>4, <1>10, <1>15 DEF ListDue, DueCases
<1>17. v \in Run
    BY <1>1, <1>3, <1>14, <1>15 DEF Run
<1>18. /\ v.pc = "refresh" /\ v.found = {} /\ v.list = list /\ v.owed = S /\ v.fetched = run.fetched
       /\ v.failed = run.failed /\ v.searched = run.searched /\ v.confirmed = run.confirmed
    BY <1>1, <1>15 DEF Run
<1>19. before' = before /\ Known' = Known
    BY DEF ListDue, Known
<1>20. DOMAIN list = 1..m
    BY <1>13, LenProperties
<1>21. Listed' = ToSet(list)
    BY <1>16, <1>18 DEF Listed
<1>22. ToSet(list) \subseteq S
    BY <1>8, <1>12, <1>13, <1>20 DEF ToSet
<1>23. \A j, k \in 1..m : j < k => list[j] \in before[list[k]]
    BY <1>6, <1>12, <1>13
<1>24. ASSUME NEW d \in S \ ToSet(list), NEW c \in ToSet(list)
       PROVE  c \in before[d]
    <2>1. PICK k \in 1..m : c = list[k]
        BY <1>20 DEF ToSet
    <2>2. PICK i \in 1..n : L[i] = d
        BY <1>6
    <2>3. i \notin 1..m
        BY <1>13, <1>20, <2>2 DEF ToSet
    <2>4. k \in 1..n /\ k < i
        BY <1>7, <1>12, <2>3
    <2> QED
        BY <1>6, <1>13, <2>1, <2>2, <2>4
<1>25. S \subseteq ToSet(list) \/ Cardinality(S \cap (ToSet(list) \cup run.fetched)) >= MaxRefresh
    <2>1. CASE n <= MaxRefresh
        <3>1. m = n
            BY <1>11, <2>1
        <3>2. S \subseteq ToSet(list)
            BY <1>6, <1>13, <1>20, <3>1 DEF ToSet
        <3> QED
            BY <3>2
    <2>2. CASE ~(n <= MaxRefresh)
        <3>1. m = MaxRefresh
            BY <1>11, <2>2
        <3> DEFINE T == S \cap (ToSet(list) \cup run.fetched)
                   f == [k \in 1..m |-> list[k]]
        <3>2. \A k \in 1..m : f[k] \in T
            BY <1>20, <1>22 DEF ToSet
        <3>3. \A j, k \in 1..m : j < k => list[j] # list[k]
            <4>1. \A j, k \in 1..m : j < k => list[j] \in before[list[k]] /\ list[k] \in Known /\ list[j] \in Cases
                BY <1>3, <1>20, <1>22, <1>23 DEF ToSet
            <4> QED
                BY <4>1 DEF InOneOrder
        <3>4. \A j, k \in 1..m : f[j] = f[k] => j = k
            <4>1. \A j, k \in 1..m : j < k \/ k < j \/ j = k
                BY <1>12
            <4> QED
                BY <3>3, <4>1
        <3>5. f \in Injection(1..m, T)
            BY <3>2, <3>4, Fun_IsInj
        <3>6. IsFiniteSet(T)
            BY <1>7, FS_Subset
        <3>7. Cardinality(1..m) <= Cardinality(T)
            BY <3>5, <3>6, FS_Injection
        <3>8. Cardinality(1..m) = m
            <4>1. m \in Int /\ 1 \in Int /\ (IF 1 > m THEN 0 ELSE m - 1 + 1) = m
                BY <1>12
            <4> QED
                BY <4>1, FS_Interval
        <3>9. Cardinality(T) \in Nat
            BY <3>6, FS_CardinalityType
        <3> QED
            BY <1>9, <3>1, <3>7, <3>8, <3>9
    <2> QED
        BY <2>1, <2>2
<1>26. /\ run.searched \subseteq run.found \cup run.fetched
       /\ run.fetched \subseteq run.confirmed \/ run.failed
    BY DEF InHand
<1>27. InHand'
    <2>1. /\ run'.pc = "refresh" /\ run'.found = {} /\ run'.list = list /\ run'.owed = S
          /\ run'.fetched = run.fetched /\ run'.failed = run.failed
          /\ run'.searched = run.searched /\ run'.confirmed = run.confirmed
        BY <1>16, <1>18
    <2>2. \A d \in S \ (run.fetched \cup ToSet(list)), c \in ToSet(list) : c \in before[d]
        BY <1>24
    <2> QED
        BY <1>1, <1>3, <1>13, <1>19, <1>21, <1>22, <1>23, <1>25, <1>26, <2>1, <2>2 DEF InHand
<1> QED
    BY <1>16, <1>17, <1>27

\* A case that this run has read already leaves the list.
LEMMA SkipStep ==
    ASSUME ConstantsFit, Counts, InOneOrder, InHand, Skip
    PROVE  run' \in Run /\ InHand'
<1>1. /\ run \in Run /\ run.list \in Seq(Cases) /\ run.pc = "refresh" /\ run.list # <<>>
      /\ Head(run.list) \in run.fetched
    BY DEF Skip, Counts, Run
<1>2. PICK L : L = run.list
    OBVIOUS
<1>3. PICK T : T = Tail(L)
    OBVIOUS
<1>4. PICK c : c = Head(L)
    OBVIOUS
<1>5. /\ T \in Seq(Cases) /\ Len(L) \in Nat /\ Len(T) = Len(L) - 1
      /\ \A k \in 1..Len(T) : k + 1 \in 1..Len(L) /\ T[k] = L[k + 1]
      /\ ToSet(L) = {c} \cup ToSet(T)
    BY <1>1, <1>2, <1>3, <1>4, HeadAndRest
<1>6. run' = [run EXCEPT !.list = T]
    BY <1>2, <1>3 DEF Skip
<1>7. /\ run' \in Run /\ run'.list = T /\ run'.pc = "refresh" /\ run'.found = run.found
      /\ run'.fetched = run.fetched /\ run'.failed = run.failed /\ run'.searched = run.searched
      /\ run'.owed = run.owed /\ run'.confirmed = run.confirmed
    BY <1>1, <1>5, <1>6 DEF Run
<1>8. before' = before /\ Known' = Known
    BY DEF Skip, Known
<1>9. Listed' = ToSet(T) /\ Listed = {c} \cup Listed' /\ c \in run.fetched
    BY <1>1, <1>2, <1>4, <1>5, <1>7 DEF Listed
<1>10. \A j, k \in 1..Len(T) : j < k => T[j] \in before[T[k]]
    <2>1. \A j, k \in 1..Len(L) : j < k => L[j] \in before[L[k]]
        BY <1>2 DEF InHand
    <2>2. ASSUME NEW j \in 1..Len(T), NEW k \in 1..Len(T), j < k
          PROVE  T[j] \in before[T[k]]
        <3>1. j + 1 \in 1..Len(L) /\ k + 1 \in 1..Len(L) /\ j + 1 < k + 1
            BY <1>5, <2>2
        <3> QED
            BY <1>5, <2>1, <3>1
    <2> QED
        BY <2>2
<1>11. /\ run.searched \subseteq run.found \cup run.fetched
       /\ run.fetched \subseteq run.confirmed \/ run.failed
       /\ run.found = {} /\ run.owed \subseteq Known /\ Listed \subseteq run.owed
       /\ \A d \in run.owed \ (run.fetched \cup Listed), e \in Listed : e \in before[d]
       /\ \/ run.owed \subseteq Listed \cup run.fetched
          \/ Cardinality(run.owed \cap (Listed \cup run.fetched)) >= MaxRefresh
    BY <1>1 DEF InHand
<1>12. Listed \cup run.fetched = Listed' \cup run.fetched
    BY <1>9
<1>13. \A d \in run.owed \ (run.fetched \cup Listed'), e \in Listed' : e \in before[d]
    BY <1>9, <1>11
<1> HIDE DEF Listed
<1> QED
    BY <1>7, <1>8, <1>9, <1>10, <1>11, <1>12, <1>13 DEF InHand

\* A case that is persisted moves in the order and leaves what is in hand.
LEMMA ConfirmStep ==
    ASSUME ConstantsFit, Counts, InOneOrder, InHand,
           NEW c \in Cases, NEW shown \in {"open", "closed"}, Confirm(c, shown)
    PROVE  run' \in Run /\ InHand'
<1>1. PICK r : r = Fetched(c)
    OBVIOUS
<1>2. Reads(c) /\ run \in Run
    BY DEF Confirm, Counts
<1>3. /\ r \in Run
      /\ r.pc = run.pc /\ r.found = run.found \ {c} /\ r.fetched = run.fetched \cup {c}
      /\ r.list = (IF run.pc = "refresh" THEN Tail(run.list) ELSE run.list)
      /\ r.failed = run.failed /\ r.searched = run.searched /\ r.owed = run.owed
      /\ r.confirmed = run.confirmed
    BY <1>1, <1>2, FetchedFits
<1>4. run' = [r EXCEPT !.confirmed = run.confirmed \cup {c}]
    BY <1>1 DEF Confirm
<1>5. run.confirmed \cup {c} \in SUBSET Cases
    BY <1>2 DEF Run
<1>6. /\ run' \in Run
      /\ run'.pc = r.pc /\ run'.found = r.found /\ run'.fetched = r.fetched /\ run'.list = r.list
      /\ run'.failed = r.failed /\ run'.searched = r.searched /\ run'.owed = r.owed
      /\ run'.confirmed = run.confirmed \cup {c}
    BY <1>3, <1>4, <1>5 DEF Run
<1>7. run'.fetched \subseteq run'.confirmed \/ run'.failed
    BY <1>3, <1>6 DEF InHand
<1>8. Known \subseteq Known'
    <2>1. shown # "unknown" /\ state' = [state EXCEPT ![c] = shown]
        BY DEF Confirm
    <2> QED
        BY <2>1 DEF Known, Counts
<1>9. \A d \in Cases, e \in Cases : e # c /\ d # c /\ e \in before[d] => e \in before'[d]
    BY DEF Confirm, Latest
<1> QED
    BY <1>2, <1>3, <1>6, <1>7, <1>8, <1>9, ReadStep

\* A case whose persist fails leaves what is in hand, and the run will report it.
LEMMA PersistFailsStep ==
    ASSUME ConstantsFit, Counts, InOneOrder, InHand, NEW c \in Cases, PersistFails(c)
    PROVE  run' \in Run /\ InHand'
<1>1. PICK r : r = Fetched(c)
    OBVIOUS
<1>2. Reads(c) /\ run \in Run
    BY DEF PersistFails, Counts
<1>3. /\ r \in Run
      /\ r.pc = run.pc /\ r.found = run.found \ {c} /\ r.fetched = run.fetched \cup {c}
      /\ r.list = (IF run.pc = "refresh" THEN Tail(run.list) ELSE run.list)
      /\ r.searched = run.searched /\ r.owed = run.owed
    BY <1>1, <1>2, FetchedFits
<1>4. run' = [r EXCEPT !.failed = TRUE]
    BY <1>1 DEF PersistFails, Counted
<1>5. /\ run' \in Run
      /\ run'.pc = r.pc /\ run'.found = r.found /\ run'.fetched = r.fetched /\ run'.list = r.list
      /\ run'.failed = TRUE /\ run'.searched = r.searched /\ run'.owed = r.owed
    BY <1>3, <1>4 DEF Run
<1>6. Known' = Known /\ before' = before
    BY DEF PersistFails, Known
<1> QED
    BY <1>2, <1>3, <1>5, <1>6, ReadStep

-----------------------------------------------------------------------------
(* The steps.                                                              *)

\* What is in hand stays good in every step.
LEMMA HandStep ==
    ASSUME ConstantsFit, Counts, InOneOrder, InHand, [Next]_vars
    PROVE  run' \in Run /\ InHand'
<1>1. CASE UNCHANGED <<state, before, run>>
    BY <1>1 DEF InHand, Listed, Known, Counts
<1>2. CASE run' = NotRunning
    BY <1>2, Resting, HandEmpty
<1>3. ASSUME NEW S \in SUBSET Cases, Search(S)
      PROVE  run' \in Run /\ InHand'
    <2>1. PICK r : r = NotRunning
        OBVIOUS
    <2>2. run' = [r EXCEPT !.pc = "discover", !.found = S, !.searched = S]
        BY <1>3, <2>1 DEF Search
    <2>3. /\ r \in Run /\ r.list = <<>> /\ r.owed = {} /\ r.fetched = {}
        BY <2>1, Resting
    <2>4. /\ run' \in Run /\ run'.pc = "discover" /\ run'.found = S /\ run'.searched = S
          /\ run'.list = r.list /\ run'.owed = r.owed /\ run'.fetched = r.fetched
        BY <2>2, <2>3 DEF Run
    <2>5. run'.pc # "refresh"
        BY <2>4
    <2> QED
        BY <2>3, <2>4, <2>5, HandEmpty
<1> QED
    BY <1>1, <1>2, <1>3, ListDueStep, SkipStep, ConfirmStep, PersistFailsStep
    DEF Next, Spoil, Age, RunStep, ListFails, Abort, Aborted, Crash, Finish, vars

LEMMA CountsStep ==
    ASSUME ConstantsFit, Counts, InOneOrder, InHand, [Next]_vars
    PROVE  Counts'
<1>1. spoilt' \subseteq Unreadable \cup Unstorable
    BY DEF Counts, Next, Spoil, Age, Search, RunStep, ListDue, ListFails, Skip, Confirm, PersistFails, Abort,
       Aborted, Crash, Finish, vars
<1>2. state' \in [Cases -> {"unknown", "open", "closed"}]
    <2>1. ASSUME NEW c \in Cases, NEW shown \in {"open", "closed"}, Confirm(c, shown)
          PROVE  state' \in [Cases -> {"unknown", "open", "closed"}]
        BY <2>1 DEF Confirm, Counts
    <2> QED
        BY <2>1 DEF Counts, Next, Spoil, Age, Search, RunStep, ListDue, ListFails, Skip, PersistFails, Abort,
           Aborted, Crash, Finish, vars
<1>3. report' \in {"none", "aborted", "persist failures", "complete"}
    BY DEF Counts, Next, Spoil, Age, Search, RunStep, ListDue, ListFails, Skip, Confirm, PersistFails, Abort,
       Aborted, Crash, Finish, vars
<1>4. faults' \in 0..MaxFaults
    <2>1. faults' = faults \/ \E permanent : Hit(permanent)
        BY DEF Next, Spoil, Age, Search, RunStep, ListDue, ListFails, Skip, Confirm, PersistFails, Abort, Crash,
           Finish, vars
    <2>2. faults \in 0..MaxFaults /\ MaxFaults \in Nat
        BY DEF Counts, ConstantsFit
    <2>3. ASSUME NEW permanent, Hit(permanent) PROVE faults' \in 0..MaxFaults
        BY <2>2, <2>3 DEF Hit
    <2> QED
        BY <2>1, <2>2, <2>3
<1> QED
    BY <1>1, <1>2, <1>3, <1>4, HandStep DEF Counts

\* RefreshInv is inductive.
LEMMA Initially ==
    ASSUME ConstantsFit, Init
    PROVE  RefreshInv
<1>1. Counts
    BY Resting DEF Init, Counts, ConstantsFit
<1>2. InOneOrder
    BY DEF Init, InOneOrder, Known, Oldest
<1>3. InHand
    <2>1. Listed = {} /\ Len(run.list) = 0
        BY Resting, EmptySeq DEF Init, Listed, ToSet
    <2> QED
        BY <2>1, Resting DEF Init, InHand
<1> QED
    BY <1>1, <1>2, <1>3 DEF RefreshInv

LEMMA EveryStep ==
    ASSUME ConstantsFit, RefreshInv, [Next]_vars
    PROVE  RefreshInv'
BY OrderStep, HandStep, CountsStep DEF RefreshInv, Counts

LEMMA Invariant ==
    ASSUME ConstantsFit
    PROVE  Spec => []RefreshInv
<1>1. Init => RefreshInv
    BY Initially
<1>2. RefreshInv /\ [Next]_vars => RefreshInv'
    BY EveryStep
<1> QED
    BY <1>1, <1>2, PTL DEF Spec

\* The type invariant: the known cases are in one order, the due ones first.
THEOREM TypeCorrect ==
    ASSUME ConstantsFit
    PROVE  Spec => []TypeOK
<1>1. RefreshInv => TypeOK
    BY DEF RefreshInv, Counts, InOneOrder, TypeOK
<1> QED
    BY <1>1, Invariant, PTL

\* The case a refresh reads next was confirmed longer ago than every other case
\* that was due when the run listed them and that it has not read.
LEMMA HeadIsOldest ==
    ASSUME ConstantsFit, RefreshInv, run.list # <<>>,
           NEW d \in (run.owed \ run.fetched) \ {Head(run.list)}
    PROVE  Head(run.list) \in before[d]
<1>1. PICK L : L = run.list
    OBVIOUS
<1>2. L \in Seq(Cases)
    BY <1>1 DEF RefreshInv, Counts, Run
<1>3. Len(L) \in Nat /\ 1 \in 1..Len(L) /\ Head(L) = L[1] /\ DOMAIN L = 1..Len(L)
    BY <1>1, <1>2, HeadAndRest, LenProperties
<1>4. CASE d \in Listed
    <2>1. PICK k \in 1..Len(L) : d = L[k]
        BY <1>1, <1>3, <1>4 DEF Listed, ToSet
    <2>2. k # 1
        BY <1>1, <1>3, <2>1
    <2>3. 1 < k
        BY <1>3, <2>2
    <2> QED
        BY <1>1, <1>3, <2>1, <2>3 DEF RefreshInv, InHand
<1>5. CASE d \notin Listed
    <2>1. Head(L) \in Listed
        BY <1>1, <1>3 DEF Listed, ToSet
    <2> QED
        BY <1>1, <1>5, <2>1 DEF RefreshInv, InHand
<1> QED
    BY <1>4, <1>5

\* However many cases there are and however they move in the order while the run
\* is at work, no refresh confirms a case while one that was due when it listed
\* them, and was confirmed longer ago, has not been tried.
THEOREM OldestFirst ==
    ASSUME ConstantsFit
    PROVE  Spec => RefreshIsOldestFirst
<1>1. RefreshInv =>
         [\A c \in Cases :
            run.list # <<>> /\ Head(run.list) = c /\ c \in run'.confirmed \ run.confirmed =>
               \A d \in (run.owed \ run.fetched) \ {c} : c \in before[d]]_vars
    BY HeadIsOldest
<1> QED
    BY <1>1, Invariant, PTL DEF RefreshIsOldestFirst

\* A run that returns without an error has done what it was there to do.
LEMMA CompleteStep ==
    ASSUME ConstantsFit, RefreshInv, [Next]_vars, run.pc # "idle", run'.pc = "idle", report' = "complete"
    PROVE  NothingMissed
<1>1. run \in Run /\ InHand
    BY DEF RefreshInv, Counts
<1>2. Finish
    <2>1. ~ListDue /\ ~Skip
        BY <1>1 DEF ListDue, Skip, Run
    <2>2. ~(\E c \in Cases, shown \in {"open", "closed"} : Confirm(c, shown))
        <3> SUFFICES ASSUME NEW c \in Cases, NEW shown \in {"open", "closed"}, Confirm(c, shown)
                     PROVE  FALSE
            OBVIOUS
        <3>1. PICK r : r = Fetched(c)
            OBVIOUS
        <3>2. r \in Run /\ r.pc = run.pc
            BY <1>1, <3>1, FetchedFits DEF Confirm
        <3>3. run' = [r EXCEPT !.confirmed = run.confirmed \cup {c}]
            BY <3>1 DEF Confirm
        <3> QED
            BY <3>2, <3>3 DEF Run
    <2>3. ~(\E c \in Cases : PersistFails(c))
        <3> SUFFICES ASSUME NEW c \in Cases, PersistFails(c)
                     PROVE  FALSE
            OBVIOUS
        <3>1. PICK r : r = Fetched(c)
            OBVIOUS
        <3>2. r \in Run /\ r.pc = run.pc
            BY <1>1, <3>1, FetchedFits DEF PersistFails
        <3>3. run' = [r EXCEPT !.failed = TRUE]
            BY <3>1 DEF PersistFails, Counted
        <3> QED
            BY <3>2, <3>3 DEF Run
    <2>4. ~ListFails /\ ~Crash /\ ~(\E c \in Cases : Abort(c))
        BY DEF ListFails, Crash, Abort, Aborted
    <2>5. ~(\E S \in SUBSET Cases : Search(S))
        BY DEF Search
    <2> QED
        BY <2>1, <2>2, <2>3, <2>4, <2>5 DEF Next, RunStep, Spoil, Age, vars
<1>3. ~run.failed
    BY <1>2 DEF Finish
<1>4. run.pc = "refresh" /\ run.list = <<>>
    BY <1>2 DEF Finish
<1>5. Listed = {}
    BY <1>4, EmptySeq DEF Listed, ToSet
<1>6. run.found = {}
    BY <1>1, <1>4 DEF InHand
<1>7. run.searched \subseteq run.confirmed
    BY <1>1, <1>3, <1>6 DEF InHand
<1>8. \/ run.owed \subseteq run.confirmed
      \/ Cardinality(run.owed \cap run.fetched) >= MaxRefresh
    <2>1. Listed \cup run.fetched = run.fetched
        BY <1>5
    <2> QED
        BY <1>1, <1>3, <1>4, <2>1 DEF InHand
<1> QED
    BY <1>7, <1>8 DEF NothingMissed

\* A run that returns without an error has persisted every case of its search
\* and every open case that was due, or as many of these as its bound allows.
THEOREM CompleteRunsMissNothing ==
    ASSUME ConstantsFit
    PROVE  Spec => [][run.pc # "idle" /\ run'.pc = "idle" /\ report' = "complete" => NothingMissed]_vars
<1>1. RefreshInv /\ [Next]_vars =>
         [run.pc # "idle" /\ run'.pc = "idle" /\ report' = "complete" => NothingMissed]_vars
    BY CompleteStep
<1> QED
    BY <1>1, Invariant, PTL DEF Spec
=============================================================================
