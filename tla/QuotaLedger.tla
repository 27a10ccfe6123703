----------------------------- MODULE QuotaLedger -----------------------------
(***************************************************************************)
(* What the quota table promises, without the code that keeps it: for each *)
(* quota key (a user and an AI feature) and each month, a counter that     *)
(* rises by one per admitted call, falls by one per refund and may be      *)
(* dropped back to zero.  The counter may pass the limit, but only by      *)
(* Slack.                                                                  *)
(***************************************************************************)
EXTENDS Integers

CONSTANTS
    Key,    \* quota keys: pairs of a user and an AI feature
    Month,  \* calendar months (UTC)
    Limit,  \* Limit[k]: the configured monthly limit of key k
    Slack   \* how far concurrent admissions may overrun the limit

VARIABLE used   \* used[k][m]: calls counted for key k in month m

Init == used = [k \in Key |-> [m \in Month |-> 0]]

\* A call is admitted and counted.
Admit(k, m) ==
    /\ used[k][m] < Limit[k] + Slack
    /\ used' = [used EXCEPT ![k][m] = @ + 1]

\* A failed call is given back.
GiveBack(k, m) ==
    /\ used[k][m] > 1 - Slack
    /\ used' = [used EXCEPT ![k][m] = @ - 1]

\* The last charged call is given back by dropping the counter's row.
Drop(k, m) == used' = [used EXCEPT ![k][m] = 0]

Next == \E k \in Key, m \in Month : Admit(k, m) \/ GiveBack(k, m) \/ Drop(k, m)

Spec == Init /\ [][Next]_used
=============================================================================
