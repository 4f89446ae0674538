--------------------------- MODULE MCEventListing ---------------------------
(* Record r1 has two events: content c1 lists both, c2 only e1 and moves it  *)
(* to a later date, c3 (a correction) lists both again and moves e2 to an    *)
(* earlier one.  Record r2 lists its one event always, on the date of e1.    *)
EXTENDS EventListing

CONSTANTS r1, r2, c1, c2, c3, e1, e2, e3

OneRecord == [e \in Events |-> IF e = e3 THEN r2 ELSE r1]

OneList ==
    [r \in Records |->
       [c \in Contents |->
          IF r = r2 THEN {e3} ELSE IF c = c2 THEN {e1} ELSE {e1, e2}]]

OneOrder == [e \in Events |-> IF e = e1 THEN 2 ELSE IF e = e2 THEN 3 ELSE 1]

OneDate ==
    [e \in Events |->
       [c \in Contents |->
          IF e = e1 /\ c = c2 THEN 3 ELSE IF e = e2 /\ c = c3 THEN 1 ELSE 2]]

OneKind == [e \in Events |-> IF e = e3 THEN "lift" ELSE "crane"]

\* Everything; one kind; a period that e1 and e2 can leave; an empty period.
OneFilters ==
    {[kind |-> "", from |-> 0, to |-> 9], [kind |-> "crane", from |-> 2, to |-> 2],
     [kind |-> "", from |-> 2, to |-> 1]}

=============================================================================
