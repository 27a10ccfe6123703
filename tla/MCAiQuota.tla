------------------------------ MODULE MCAiQuota ------------------------------
(***************************************************************************)
(* Instances of AiQuota.  Races: three concurrent requests of one user and *)
(* one feature within a month.  Rollover: two requests, a feature with a   *)
(* limit and one without, and a month that may end at any point.           *)
(***************************************************************************)
EXTENDS AiQuota

CONSTANTS s1, s2, s3

MCThreeSlots == {s1, s2, s3}
MCTwoSlots == {s1, s2}

MCOneKey == {"analyze"}
MCTwoKeys == {"analyze", "grammar"}

MCOneLimit == [k \in MCOneKey |-> 2]
MCTwoLimits == [k \in MCTwoKeys |-> IF k = "analyze" THEN 2 ELSE 0]

\* At most one identifier per row and one remembered by each request, and one
\* more to be fresh.
MCRowId == 1..6
=============================================================================
