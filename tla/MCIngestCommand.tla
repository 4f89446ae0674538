-------------------------- MODULE MCIngestCommand --------------------------
(* Case a of the diary has two certificates on day 1 and one on day 2, and *)
(* an inspection notice on day 2; case b has one certificate on day 2,      *)
(* which is not accepted and may be taken down.  Of the city's cases two    *)
(* started on day 1 and one on day 2.                                       *)
EXTENDS IngestCommand

CONSTANTS c1, c2, c3

CaseStarts == [c \in Cases |-> IF c = c3 THEN 2 ELSE 1]

DiaryDates == [d \in Docs |-> IF d <= 2 THEN 1 ELSE 2]

DiaryCases == [d \in Docs |-> IF d = 4 THEN "b" ELSE "a"]

DiaryFeeds ==
    [d \in Docs |-> IF d = 5 THEN "inspection-notices" ELSE "recurring-inspection-failures"]
=============================================================================
