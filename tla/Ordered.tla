------------------------------- MODULE Ordered -------------------------------
(***************************************************************************)
(* What the code does with filter and Set over an array: the places that   *)
(* are left are a set, and they keep their order.                          *)
(***************************************************************************)
EXTENDS Integers, FiniteSets

\* The members of a finite set of numbers, in their order.
InOrder(S) ==
    [k \in 1 .. Cardinality(S) |-> CHOOSE i \in S : Cardinality({j \in S : j < i}) = k - 1]

\* The items of the sequence q at the places in S.
ItemsAt(q, S) == [k \in DOMAIN InOrder(S) |-> q[InOrder(S)[k]]]

=============================================================================
