------------------------------ MODULE MCBilling ------------------------------
(***************************************************************************)
(* Instances of Billing: two requests or deliveries at a time.  Races: two *)
(* users, three customers, two subscriptions.  Cache, Once: one of each.   *)
(* The limit of the event cache, at least 100 in the code, is scaled down  *)
(* to one event, so that eviction happens.                                 *)
(***************************************************************************)
EXTENDS Billing, TLC

CONSTANTS s1, s2, u1, u2, c1, c2, c3, b1, b2

MCSlot == {s1, s2}
MCOneUser == {u1}
MCTwoUsers == {u1, u2}
MCThreeCustomers == {c1, c2, c3}
MCOneCustomer == {c1}
MCTwoSubs == {b1, b2}
MCOneSub == {b1}

\* Entitled (past_due still is) at a price no plan has, and ended; and active at a plan's own price.
MCTwoSnapshots == {[status |-> "past_due", price |-> "unknown"],
                   [status |-> "canceled", price |-> "unknown"]}
MCThreeSnapshots == MCTwoSnapshots \cup {[status |-> "active", price |-> "team"]}

MCPricePlan == [p \in {"team", "unknown"} |-> IF p = "team" THEN "TEAM" ELSE NoPlan]

Symmetry ==
    Permutations(MCSlot) \cup Permutations(MCTwoUsers)
    \cup Permutations(MCThreeCustomers) \cup Permutations(MCTwoSubs)
=============================================================================
