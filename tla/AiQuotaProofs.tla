---------------------------- MODULE AiQuotaProofs ----------------------------
(***************************************************************************)
(* Proofs about AiQuota, for any number of requests, keys, months and      *)
(* limits.                                                                 *)
(*                                                                         *)
(* CountersBounded is not inductive: a transaction that has read a row and *)
(* not yet written it will move the counter without looking again.  The    *)
(* invariant that is inductive counts those transactions in: the writers   *)
(* of a row still to come, added to the counter, stay below the bound.     *)
(***************************************************************************)
EXTENDS AiQuota, FiniteSetTheorems, TLAPS

\* Transactions that have found room under the limit and have yet to charge it.
Writers(k, m) == {s \in Slot : pc[s] = "write" /\ key[s] = k /\ period[s] = m}

\* Transactions that have decided to decrement the row that is there now.
Decrementers(k, m) ==
    {s \in Slot : /\ pc[s] = "refundWrite" /\ key[s] = k /\ period[s] = m
                  /\ RowStillThere(s) /\ seen[s].used # 1}

OverrunAt(k, m) ==
    Limit[k] > 0 =>
        Used(k, m) + Cardinality(Writers(k, m)) <= Limit[k] + Cardinality(Slot) - 1

UnderrunAt(k, m) ==
    \/ Used(k, m) >= 0 /\ Decrementers(k, m) = {}
    \/ Used(k, m) - Cardinality(Decrementers(k, m)) >= 2 - Cardinality(Slot)

\* Only limited features open a quota transaction.
LimitedOnly ==
    \A s \in Slot :
        pc[s] \in {"read", "write", "refundRead", "refundWrite"} => Limit[key[s]] > 0

CellInv == \A k \in Key, m \in Month : OverrunAt(k, m) /\ UnderrunAt(k, m)

BoundInv == TypeOK /\ LimitedOnly /\ CellInv

-----------------------------------------------------------------------------
LEMMA SubsetsOfSlot ==
    ASSUME NEW T \in SUBSET Slot
    PROVE  /\ IsFiniteSet(T) /\ Cardinality(T) \in Nat
           /\ Cardinality(T) <= Cardinality(Slot)
           /\ Cardinality(Slot) \in Nat
           /\ T = {} => Cardinality(T) = 0
           /\ \A U \in SUBSET T : Cardinality(U) \in Nat /\ Cardinality(U) <= Cardinality(T)
           /\ \A U \in SUBSET T : \A s \in T \ U : Cardinality(U) <= Cardinality(T) - 1
<1>1. IsFiniteSet(Slot)
  BY QuotaAssumption
<1>2. /\ IsFiniteSet(T) /\ Cardinality(T) <= Cardinality(Slot)
      /\ Cardinality(T) \in Nat /\ Cardinality(Slot) \in Nat
  BY <1>1, FS_Subset, FS_CardinalityType
<1>3. T = {} => Cardinality(T) = 0
  BY FS_EmptySet
<1>4. \A U \in SUBSET T : Cardinality(U) \in Nat /\ Cardinality(U) <= Cardinality(T)
  BY <1>2, FS_Subset, FS_CardinalityType
<1>5. ASSUME NEW U \in SUBSET T, NEW s \in T \ U
      PROVE  Cardinality(U) <= Cardinality(T) - 1
  <2>1. IsFiniteSet(T \ {s}) /\ Cardinality(T \ {s}) = Cardinality(T) - 1
    BY <1>2, FS_RemoveElement
  <2>2. U \in SUBSET (T \ {s})
    OBVIOUS
  <2>3. Cardinality(U) <= Cardinality(T \ {s})
    BY <2>1, <2>2, FS_Subset
  <2> QED BY <2>1, <2>3
<1> QED BY <1>2, <1>3, <1>4, <1>5

-----------------------------------------------------------------------------
(* Type correctness. *)

LEMMA Constants ==
    /\ 1 \in Month /\ Month \subseteq Nat \ {0}
    /\ 0 \in 0..MaxRetries /\ 1 \in 0..MaxRetries
    /\ \A a \in 0..MaxRetries : a < MaxRetries => a + 1 \in 0..MaxRetries
<1>1. LastMonth \in Nat \ {0} /\ MaxRetries \in Nat \ {0}
  BY QuotaAssumption
<1> QED BY <1>1 DEF Month

LEMMA InitTypeOK == Init => TypeOK
BY Constants DEF Init, TypeOK

LEMMA FreshIdType == RowId \ IdsInUse # {} => FreshId \in RowId \ IdsInUse
BY DEF FreshId

\* Rewriting one cell of the table.
LEMMA RowsUpdate ==
    ASSUME rows \in [Key -> [Month -> Row \cup {NoRow}]],
           NEW k \in Key, NEW m \in Month, NEW r \in Row \cup {NoRow},
           rows' = [rows EXCEPT ![k][m] = r]
    PROVE  /\ rows' \in [Key -> [Month -> Row \cup {NoRow}]]
           /\ rows'[k][m] = r
           /\ \A k2 \in Key, m2 \in Month :
                  k2 # k \/ m2 # m => rows'[k2][m2] = rows[k2][m2]
OBVIOUS

LEMMA RowOfType ==
    ASSUME TypeOK, NEW s \in Slot
    PROVE  /\ key[s] \in Key /\ period[s] \in Month
           /\ RowOf(s) \in Row \cup {NoRow}
<1>1. key[s] \in Key /\ period[s] \in Month
  BY DEF TypeOK
<1>2. rows[key[s]] \in [Month -> Row \cup {NoRow}]
  BY <1>1 DEF TypeOK
<1> QED BY <1>1, <1>2 DEF RowOf

LEMMA ChargedType ==
    ASSUME TypeOK, NEW s \in Slot, Charged(s)
    PROVE  /\ charge' \in [Slot -> Month \cup {0}]
           /\ admitted' \in [Key -> [Month -> Nat]]
<1>1. key[s] \in Key /\ period[s] \in Month
  BY RowOfType
<1>2. charge' \in [Slot -> Month \cup {0}]
  BY <1>1 DEF TypeOK, Charged
<1>3. admitted[key[s]][period[s]] + 1 \in Nat
  BY <1>1 DEF TypeOK
<1>4. [admitted EXCEPT ![key[s]][period[s]] = @ + 1] \in [Key -> [Month -> Nat]]
  BY <1>1, <1>3 DEF TypeOK
<1>5. admitted' \in [Key -> [Month -> Nat]]
  BY <1>4 DEF TypeOK, Charged
<1> QED BY <1>2, <1>5

LEMMA NextTypeOK == TypeOK /\ [Next]_vars => TypeOK'
<1> SUFFICES ASSUME TypeOK, [Next]_vars PROVE TypeOK'
  OBVIOUS
<1> USE Constants DEF TypeOK
<1>1. ASSUME NEW s \in Slot, NEW k \in Key, BeginUnlimited(s, k) PROVE TypeOK'
  BY <1>1 DEF BeginUnlimited, CallProvider, Goto, dbVars, historyVars
<1>2. ASSUME NEW s \in Slot, NEW k \in Key, Begin(s, k) PROVE TypeOK'
  BY <1>2 DEF Begin, Goto, dbVars, historyVars
<1>3. ASSUME NEW s \in Slot, QuotaExceeded(s) PROVE TypeOK'
  BY <1>3 DEF QuotaExceeded, Finish, Goto, dbVars
<1>4. ASSUME NEW s \in Slot, ConsumeRead(s) PROVE TypeOK'
  <2>1. RowOf(s) \in Row \cup {NoRow}
    BY RowOfType
  <2> QED BY <1>4, <2>1 DEF ConsumeRead, Goto, dbVars, historyVars
<1>5. ASSUME NEW s \in Slot, ConsumeIncrement(s) PROVE TypeOK'
  <2>1. rows' \in [Key -> [Month -> Row \cup {NoRow}]]
    BY <1>5 DEF ConsumeIncrement, RowStillThere, RowOf, Row
  <2>2. Charged(s)
    BY <1>5 DEF ConsumeIncrement
  <2> QED BY <1>5, <2>1, <2>2, ChargedType DEF ConsumeIncrement, CallProvider, Goto
<1>6. ASSUME NEW s \in Slot, ConsumeCreate(s) PROVE TypeOK'
  <2>1. [id |-> FreshId, used |-> 1] \in Row
    <3>1. RowId \ IdsInUse # {}
      BY <1>6 DEF ConsumeCreate, IdsInUse
    <3> QED BY <3>1, FreshIdType DEF Row
  <2>2. rows' \in [Key -> [Month -> Row \cup {NoRow}]]
    BY <1>6, <2>1 DEF ConsumeCreate
  <2>3. Charged(s)
    BY <1>6 DEF ConsumeCreate
  <2> QED BY <1>6, <2>2, <2>3, ChargedType DEF ConsumeCreate, CallProvider, Goto
<1>7. ASSUME NEW s \in Slot, ConsumeConflict(s) PROVE TypeOK'
  BY <1>7 DEF ConsumeConflict, Finish, Goto, dbVars
<1>8. ASSUME NEW s \in Slot, ProviderAnswers(s) PROVE TypeOK'
  BY <1>8 DEF ProviderAnswers, Finish, Goto, dbVars
<1>9. ASSUME NEW s \in Slot, AttemptFails(s) PROVE TypeOK'
  BY <1>9 DEF AttemptFails, dbVars, historyVars
<1>10. ASSUME NEW s \in Slot, UnlimitedFails(s) PROVE TypeOK'
  BY <1>10 DEF UnlimitedFails, Finish, Goto, dbVars
<1>11. ASSUME NEW s \in Slot, ProviderFails(s) PROVE TypeOK'
  BY <1>11 DEF ProviderFails, Goto, dbVars, historyVars
<1>12. ASSUME NEW s \in Slot, RefundNothing(s) PROVE TypeOK'
  BY <1>12 DEF RefundNothing, Finish, Goto, dbVars
<1>13. ASSUME NEW s \in Slot, RefundRead(s) PROVE TypeOK'
  <2>1. RowOf(s) \in Row \cup {NoRow}
    BY RowOfType
  <2> QED BY <1>13, <2>1 DEF RefundRead, Goto, dbVars, historyVars
<1>14. ASSUME NEW s \in Slot, RefundDelete(s) PROVE TypeOK'
  <2>1. rows' \in [Key -> [Month -> Row \cup {NoRow}]]
    BY <1>14 DEF RefundDelete
  <2> QED BY <1>14, <2>1 DEF RefundDelete, Finish, Goto
<1>15. ASSUME NEW s \in Slot, RefundDecrement(s) PROVE TypeOK'
  <2>1. rows' \in [Key -> [Month -> Row \cup {NoRow}]]
    BY <1>15 DEF RefundDecrement, RowStillThere, RowOf, Row
  <2> QED BY <1>15, <2>1 DEF RefundDecrement, Finish, Goto
<1>16. ASSUME NEW s \in Slot, RefundConflict(s) PROVE TypeOK'
  BY <1>16 DEF RefundConflict, Finish, Goto, dbVars
<1>17. ASSUME NEW s \in Slot, TransactionFails(s) PROVE TypeOK'
  BY <1>17 DEF TransactionFails, Finish, Goto, dbVars
<1>18. CASE MonthEnds
  <2>1. month' \in Month
    <3>1. LastMonth \in Nat
      BY QuotaAssumption
    <3> QED BY <3>1, <1>18 DEF MonthEnds, Month
  <2> QED BY <2>1, <1>18 DEF MonthEnds, requestVars, historyVars
<1>19. CASE Restart
  BY <1>19 DEF Restart, dbVars
<1>20. CASE UNCHANGED vars
  BY <1>20 DEF vars, dbVars, requestVars, historyVars
<1> QED BY <1>1, <1>2, <1>3, <1>4, <1>5, <1>6, <1>7, <1>8, <1>9, <1>10,
           <1>11, <1>12, <1>13, <1>14, <1>15, <1>16, <1>17, <1>18, <1>19,
           <1>20 DEF Next, RequestStep

\* Every variable keeps its type: a row exists or not, a month is one of the
\* calendar, a request is at one of the awaits of its handler.
THEOREM TypeCorrect == Spec => []TypeOK
BY InitTypeOK, NextTypeOK, PTL DEF Spec

-----------------------------------------------------------------------------
(* The bounds on the counters. *)

LEMMA Counting ==
    ASSUME TypeOK, NEW k \in Key, NEW m \in Month
    PROVE  /\ Used(k, m) \in Int /\ Limit[k] \in Int
           /\ rows[k][m] \in Row \cup {NoRow}
           /\ Writers(k, m) \in SUBSET Slot
           /\ Decrementers(k, m) \in SUBSET Slot
           /\ Cardinality(Slot) \in Nat
           /\ Cardinality(Writers(k, m)) \in Nat
           /\ Cardinality(Decrementers(k, m)) \in Nat
           /\ Cardinality(Writers(k, m)) <= Cardinality(Slot)
           /\ Cardinality(Decrementers(k, m)) <= Cardinality(Slot)
<1>1. rows[k][m] \in Row \cup {NoRow}
  BY DEF TypeOK
<1>2. Used(k, m) \in Int
  BY <1>1 DEF Used, UsedOf, Row
<1>3. Limit[k] \in Int
  BY QuotaAssumption
<1>4. Writers(k, m) \in SUBSET Slot /\ Decrementers(k, m) \in SUBSET Slot
  BY DEF Writers, Decrementers
<1> QED BY <1>1, <1>2, <1>3, <1>4, SubsetsOfSlot

\* A cell no step touches, with no transaction joining those about to move it.
LEMMA CellKept ==
    ASSUME TypeOK, TypeOK', NEW k \in Key, NEW m \in Month,
           OverrunAt(k, m), UnderrunAt(k, m),
           rows'[k][m] = rows[k][m],
           Writers(k, m)' \subseteq Writers(k, m),
           Decrementers(k, m)' \subseteq Decrementers(k, m)
    PROVE  OverrunAt(k, m)' /\ UnderrunAt(k, m)'
<1>1. Used(k, m)' = Used(k, m)
  BY DEF Used
<1>2. /\ Cardinality(Writers(k, m)') <= Cardinality(Writers(k, m))
      /\ Cardinality(Decrementers(k, m)') <= Cardinality(Decrementers(k, m))
      /\ Cardinality(Writers(k, m)') \in Nat
      /\ Cardinality(Decrementers(k, m)') \in Nat
  BY Counting, SubsetsOfSlot
<1>3. OverrunAt(k, m)'
  BY <1>1, <1>2, Counting DEF OverrunAt
<1>4. UnderrunAt(k, m)'
  BY <1>1, <1>2, Counting DEF UnderrunAt
<1> QED BY <1>3, <1>4

\* A step that moves no counter and sends no transaction on to a write.
LEMMA QuietStep ==
    ASSUME TypeOK, TypeOK', CellInv, rows' = rows,
           \A t \in Slot : pc'[t] \in {"write", "refundWrite"} =>
               /\ pc[t] = pc'[t] /\ key[t] = key'[t]
               /\ period[t] = period'[t] /\ seen[t] = seen'[t]
    PROVE  CellInv'
<1> SUFFICES ASSUME NEW k \in Key, NEW m \in Month
             PROVE  OverrunAt(k, m)' /\ UnderrunAt(k, m)'
  BY DEF CellInv
<1>1. Writers(k, m)' \subseteq Writers(k, m)
  BY DEF Writers
<1>2. Decrementers(k, m)' \subseteq Decrementers(k, m)
  BY DEF Decrementers, RowStillThere, RowOf
<1>3. OverrunAt(k, m) /\ UnderrunAt(k, m)
  BY DEF CellInv
<1> QED BY <1>1, <1>2, <1>3, CellKept

\* A step of s that writes only the row of its own key and month.
LEMMA OtherCells ==
    ASSUME TypeOK, TypeOK', CellInv, NEW s \in Slot,
           pc'[s] \notin {"write", "refundWrite"},
           \A t \in Slot \ {s} :
               /\ pc'[t] = pc[t] /\ key'[t] = key[t]
               /\ period'[t] = period[t] /\ seen'[t] = seen[t],
           NEW k \in Key, NEW m \in Month, rows'[k][m] = rows[k][m]
    PROVE  OverrunAt(k, m)' /\ UnderrunAt(k, m)'
<1>1. Writers(k, m)' \subseteq Writers(k, m)
  BY DEF Writers
<1>2. Decrementers(k, m)' \subseteq Decrementers(k, m)
  BY DEF Decrementers, RowStillThere, RowOf
<1>3. OverrunAt(k, m) /\ UnderrunAt(k, m)
  BY DEF CellInv
<1> QED BY <1>1, <1>2, <1>3, CellKept

\* Only s moves; the row of its key and month is the only one that may change.
LEMMA OwnStep ==
    ASSUME TypeOK, TypeOK', NEW s \in Slot,
           \/ ConsumeIncrement(s) \/ ConsumeCreate(s)
           \/ RefundDelete(s) \/ RefundDecrement(s)
    PROVE  /\ pc'[s] \notin {"read", "write", "refundRead", "refundWrite"}
           /\ key' = key
           /\ \A t \in Slot \ {s} :
                  /\ pc'[t] = pc[t] /\ key'[t] = key[t]
                  /\ period'[t] = period[t] /\ seen'[t] = seen[t]
           /\ \A k \in Key, m \in Month :
                  k # key[s] \/ m # period[s] => rows'[k][m] = rows[k][m]
<1> USE DEF TypeOK
<1>1. CASE ConsumeIncrement(s)
  BY <1>1 DEF ConsumeIncrement, CallProvider, Goto
<1>2. CASE ConsumeCreate(s)
  BY <1>2 DEF ConsumeCreate, CallProvider, Goto
<1>3. CASE RefundDelete(s)
  BY <1>3 DEF RefundDelete, Finish, Goto
<1>4. CASE RefundDecrement(s)
  BY <1>4 DEF RefundDecrement, Finish, Goto
<1> QED BY <1>1, <1>2, <1>3, <1>4

\* After such a step the cells are sound if its own cell is.
LEMMA OwnCell ==
    ASSUME TypeOK, TypeOK', CellInv, NEW s \in Slot,
           \/ ConsumeIncrement(s) \/ ConsumeCreate(s)
           \/ RefundDelete(s) \/ RefundDecrement(s),
           NEW ks \in Key, NEW ms \in Month, ks = key[s], ms = period[s],
           OverrunAt(ks, ms)', UnderrunAt(ks, ms)'
    PROVE  CellInv'
<1> SUFFICES ASSUME NEW k \in Key, NEW m \in Month
             PROVE  OverrunAt(k, m)' /\ UnderrunAt(k, m)'
  BY DEF CellInv
<1>1. CASE k = ks /\ m = ms
  BY <1>1
<1>2. CASE k # key[s] \/ m # period[s]
  BY <1>2, OwnStep, OtherCells
<1> QED BY <1>1, <1>2

\* ConsumeIncrement: the writer leaves the count as the counter takes it in.
LEMMA IncrementKeeps ==
    ASSUME BoundInv, TypeOK', NEW s \in Slot, ConsumeIncrement(s)
    PROVE  CellInv'
<1> DEFINE k == key[s]
           m == period[s]
<1>1. k \in Key /\ m \in Month /\ TypeOK /\ CellInv
  BY RowOfType DEF BoundInv
<1>2. PICK ks \in Key, ms \in Month : ks = k /\ ms = m
  BY <1>1
<1> HIDE DEF k, m
<1>3. rows[ks][ms] # NoRow /\ rows[ks][ms] \in Row
  BY <1>1, <1>2, Counting DEF ConsumeIncrement, RowStillThere, RowOf, k, m
<1>4. rows'[ks][ms] = [rows[ks][ms] EXCEPT !.used = @ + 1]
  BY <1>1, <1>2 DEF ConsumeIncrement, TypeOK, k, m
<1>5. rows'[ks][ms] # NoRow /\ Used(ks, ms)' = Used(ks, ms) + 1
  BY <1>3, <1>4, QuotaAssumption DEF Used, UsedOf, Row
<1>6. s \in Writers(ks, ms)
  BY <1>2 DEF Writers, ConsumeIncrement, k, m
<1>7. Writers(ks, ms)' \subseteq Writers(ks, ms) \ {s}
  BY <1>1, OwnStep DEF Writers
<1>8. rows'[ks][ms].id = rows[ks][ms].id
  BY <1>3, <1>4 DEF Row
<1>9. Decrementers(ks, ms)' \subseteq Decrementers(ks, ms)
  BY <1>1, <1>3, <1>8, OwnStep DEF Decrementers, RowStillThere, RowOf
<1>10. /\ Cardinality(Writers(ks, ms)') <= Cardinality(Writers(ks, ms)) - 1
       /\ Cardinality(Decrementers(ks, ms)') <= Cardinality(Decrementers(ks, ms))
       /\ Cardinality(Writers(ks, ms)') \in Nat
       /\ Cardinality(Decrementers(ks, ms)') \in Nat
  BY <1>1, <1>6, <1>7, <1>9, Counting, SubsetsOfSlot
<1>11. OverrunAt(ks, ms) /\ UnderrunAt(ks, ms)
  BY <1>1 DEF CellInv
<1>12. OverrunAt(ks, ms)'
  BY <1>1, <1>5, <1>10, <1>11, Counting DEF OverrunAt
<1>13. UnderrunAt(ks, ms)'
  BY <1>1, <1>5, <1>9, <1>10, <1>11, Counting DEF UnderrunAt
<1> QED BY <1>1, <1>2, <1>12, <1>13, OwnCell DEF k, m

\* ConsumeCreate: the same from zero, and no refund knows the new row yet.
LEMMA CreateKeeps ==
    ASSUME BoundInv, TypeOK', NEW s \in Slot, ConsumeCreate(s)
    PROVE  CellInv'
<1> DEFINE k == key[s]
           m == period[s]
<1>1. k \in Key /\ m \in Month /\ TypeOK /\ CellInv
  BY RowOfType DEF BoundInv
<1>2. PICK ks \in Key, ms \in Month : ks = k /\ ms = m
  BY <1>1
<1> HIDE DEF k, m
<1>3. FreshId \in RowId \ IdsInUse
  <2>1. RowId \ IdsInUse # {}
    BY DEF ConsumeCreate, IdsInUse
  <2> QED BY <2>1, FreshIdType
<1>4. rows[ks][ms] = NoRow /\ rows'[ks][ms] = [id |-> FreshId, used |-> 1]
  BY <1>1, <1>2 DEF ConsumeCreate, TypeOK, k, m
<1>5. Used(ks, ms) = 0 /\ Used(ks, ms)' = 1
  <2>1. rows'[ks][ms] \in Row
    BY <1>3, <1>4 DEF Row
  <2> QED BY <1>4, <2>1, QuotaAssumption DEF Used, UsedOf
<1>6. s \in Writers(ks, ms)
  BY <1>2 DEF Writers, ConsumeCreate, k, m
<1>7. Writers(ks, ms)' \subseteq Writers(ks, ms) \ {s}
  BY <1>1, OwnStep DEF Writers
<1>8. Decrementers(ks, ms)' = {}
  <2> SUFFICES ASSUME NEW t \in Decrementers(ks, ms)' PROVE FALSE
    OBVIOUS
  <2>1. t \in Slot /\ t # s /\ pc'[t] = "refundWrite"
    BY <1>1, OwnStep DEF Decrementers
  <2>2. seen'[t] = seen[t]
    BY <1>1, <2>1, OwnStep
  <2>3. seen'[t] # NoRow /\ seen'[t].id = rows'[ks][ms].id
    BY DEF Decrementers, RowStillThere, RowOf
  <2>4. seen[t] # NoRow /\ seen[t].id = FreshId
    BY <1>4, <2>2, <2>3
  <2> QED BY <1>3, <2>1, <2>4 DEF IdsInUse
<1>9. /\ Cardinality(Writers(ks, ms)') <= Cardinality(Writers(ks, ms)) - 1
      /\ Cardinality(Writers(ks, ms)') \in Nat
  BY <1>1, <1>6, <1>7, Counting, SubsetsOfSlot
<1>10. OverrunAt(ks, ms)
  BY <1>1 DEF CellInv
<1>11. OverrunAt(ks, ms)'
  BY <1>1, <1>5, <1>9, <1>10, Counting DEF OverrunAt
<1>12. UnderrunAt(ks, ms)'
  BY <1>5, <1>8 DEF UnderrunAt
<1> QED BY <1>1, <1>2, <1>11, <1>12, OwnCell DEF k, m

\* RefundDelete: the counter is zero again, and the deleter writes no more.
LEMMA DeleteKeeps ==
    ASSUME BoundInv, TypeOK', NEW s \in Slot, RefundDelete(s)
    PROVE  CellInv'
<1> DEFINE k == key[s]
           m == period[s]
<1>1. k \in Key /\ m \in Month /\ TypeOK /\ CellInv
  BY RowOfType DEF BoundInv
<1>2. PICK ks \in Key, ms \in Month : ks = k /\ ms = m
  BY <1>1
<1> HIDE DEF k, m
<1>3. rows'[ks][ms] = NoRow
  BY <1>1, <1>2 DEF RefundDelete, TypeOK, k, m
<1>4. Used(ks, ms)' = 0 /\ Decrementers(ks, ms)' = {}
  BY <1>3 DEF Used, UsedOf, Decrementers, RowStillThere, RowOf
<1>5. Writers(ks, ms)' \subseteq Slot \ {s}
  BY <1>1, OwnStep DEF Writers
<1>6. /\ Cardinality(Writers(ks, ms)') <= Cardinality(Slot) - 1
      /\ Cardinality(Writers(ks, ms)') \in Nat
  <2>1. Slot \in SUBSET Slot
    OBVIOUS
  <2> QED BY <1>5, <2>1, SubsetsOfSlot
<1>7. OverrunAt(ks, ms)'
  BY <1>1, <1>4, <1>6, Counting DEF OverrunAt
<1>8. UnderrunAt(ks, ms)'
  BY <1>4 DEF UnderrunAt
<1> QED BY <1>1, <1>2, <1>7, <1>8, OwnCell DEF k, m

\* RefundDecrement: the decrementer leaves the count as the counter falls.
LEMMA DecrementKeeps ==
    ASSUME BoundInv, TypeOK', NEW s \in Slot, RefundDecrement(s)
    PROVE  /\ CellInv'
           /\ Used(key[s], period[s]) > 2 - Cardinality(Slot)
<1> DEFINE k == key[s]
           m == period[s]
<1>1. k \in Key /\ m \in Month /\ TypeOK /\ CellInv
  BY RowOfType DEF BoundInv
<1>2. PICK ks \in Key, ms \in Month : ks = k /\ ms = m
  BY <1>1
<1> HIDE DEF k, m
<1>3. rows[ks][ms] # NoRow /\ rows[ks][ms] \in Row
  BY <1>1, <1>2, Counting DEF RefundDecrement, RowStillThere, RowOf, k, m
<1>4. rows'[ks][ms] = [rows[ks][ms] EXCEPT !.used = @ - 1]
  BY <1>1, <1>2 DEF RefundDecrement, TypeOK, k, m
<1>5. rows'[ks][ms] # NoRow /\ Used(ks, ms)' = Used(ks, ms) - 1
  BY <1>3, <1>4, QuotaAssumption DEF Used, UsedOf, Row
<1>6. s \in Decrementers(ks, ms)
  BY <1>2 DEF Decrementers, RefundDecrement, k, m
<1>7. rows'[ks][ms].id = rows[ks][ms].id
  BY <1>3, <1>4 DEF Row
<1>8. Decrementers(ks, ms)' \subseteq Decrementers(ks, ms) \ {s}
  BY <1>1, <1>3, <1>7, OwnStep DEF Decrementers, RowStillThere, RowOf
<1>9. Writers(ks, ms)' \subseteq Writers(ks, ms)
  BY <1>1, OwnStep DEF Writers
<1>10. /\ Cardinality(Writers(ks, ms)') <= Cardinality(Writers(ks, ms))
       /\ Cardinality(Decrementers(ks, ms)') <= Cardinality(Decrementers(ks, ms)) - 1
       /\ Cardinality(Writers(ks, ms)') \in Nat
       /\ Cardinality(Decrementers(ks, ms)') \in Nat
  BY <1>1, <1>6, <1>8, <1>9, Counting, SubsetsOfSlot
<1>11. OverrunAt(ks, ms) /\ UnderrunAt(ks, ms)
  BY <1>1 DEF CellInv
<1>12. OverrunAt(ks, ms)'
  BY <1>1, <1>5, <1>10, <1>11, Counting DEF OverrunAt
<1>13. Used(ks, ms) - Cardinality(Decrementers(ks, ms)) >= 2 - Cardinality(Slot)
  BY <1>6, <1>11 DEF UnderrunAt
<1>14. UnderrunAt(ks, ms)'
  BY <1>1, <1>5, <1>10, <1>13, Counting DEF UnderrunAt
<1>15. Used(ks, ms) > 2 - Cardinality(Slot)
  BY <1>1, <1>10, <1>13, Counting
<1> QED BY <1>1, <1>2, <1>12, <1>14, <1>15, OwnCell DEF k, m

\* ConsumeRead: a writer joins, below the limit and one of Slot at most.
LEMMA ConsumeReadKeeps ==
    ASSUME BoundInv, TypeOK', NEW s \in Slot, ConsumeRead(s)
    PROVE  CellInv'
<1>1. TypeOK /\ CellInv /\ LimitedOnly
  BY DEF BoundInv
<1>2. /\ rows' = rows /\ key' = key /\ period' = period
      /\ pc' = [pc EXCEPT ![s] = "write"]
      /\ \A t \in Slot \ {s} : seen'[t] = seen[t]
  BY <1>1 DEF ConsumeRead, Goto, dbVars, TypeOK
<1> SUFFICES ASSUME NEW k \in Key, NEW m \in Month
             PROVE  OverrunAt(k, m)' /\ UnderrunAt(k, m)'
  BY DEF CellInv
<1>3. Decrementers(k, m)' \subseteq Decrementers(k, m)
  BY <1>1, <1>2 DEF Decrementers, RowStillThere, RowOf, TypeOK
<1>4. OverrunAt(k, m) /\ UnderrunAt(k, m)
  BY <1>1 DEF CellInv
<1>5. CASE k = key[s] /\ m = period[s]
  <2>1. Used(k, m)' = Used(k, m)
    BY <1>2 DEF Used
  <2>2. Limit[k] > 0 => Used(k, m) < Limit[k]
    <3>1. CASE rows[k][m] = NoRow
      BY <3>1 DEF Used, UsedOf
    <3>2. CASE rows[k][m] # NoRow
      BY <1>1, <1>5, <3>2, Counting DEF ConsumeRead, AtLimit, RowOf
    <3> QED BY <3>1, <3>2
  <2>3. /\ Cardinality(Writers(k, m)') <= Cardinality(Slot)
        /\ Cardinality(Writers(k, m)') \in Nat
        /\ Cardinality(Decrementers(k, m)') <= Cardinality(Decrementers(k, m))
        /\ Cardinality(Decrementers(k, m)') \in Nat
    <3>1. Writers(k, m)' \in SUBSET Slot
      BY DEF Writers
    <3> QED BY <1>1, <1>3, <3>1, Counting, SubsetsOfSlot
  <2>4. OverrunAt(k, m)'
    BY <1>1, <2>1, <2>2, <2>3, Counting DEF OverrunAt
  <2>5. UnderrunAt(k, m)'
    BY <1>1, <1>3, <1>4, <2>1, <2>3, Counting DEF UnderrunAt
  <2> QED BY <2>4, <2>5
<1>6. CASE k # key[s] \/ m # period[s]
  <2>1. Writers(k, m)' \subseteq Writers(k, m)
    BY <1>1, <1>2, <1>6 DEF Writers, TypeOK
  <2> QED BY <1>1, <1>2, <1>3, <1>4, <2>1, CellKept
<1> QED BY <1>5, <1>6

\* RefundRead: one that will decrement joins while the counter is two or more.
LEMMA RefundReadKeeps ==
    ASSUME BoundInv, TypeOK', NEW s \in Slot, RefundRead(s)
    PROVE  CellInv'
<1>1. TypeOK /\ CellInv
  BY DEF BoundInv
<1>2. /\ rows' = rows /\ key' = key /\ period' = period
      /\ pc' = [pc EXCEPT ![s] = "refundWrite"]
      /\ \A t \in Slot \ {s} : seen'[t] = seen[t]
      /\ seen'[s] = RowOf(s)
  BY <1>1 DEF RefundRead, Goto, dbVars, TypeOK
<1> SUFFICES ASSUME NEW k \in Key, NEW m \in Month
             PROVE  OverrunAt(k, m)' /\ UnderrunAt(k, m)'
  BY DEF CellInv
<1>3. Writers(k, m)' \subseteq Writers(k, m)
  BY <1>1, <1>2 DEF Writers, TypeOK
<1>4. OverrunAt(k, m) /\ UnderrunAt(k, m)
  BY <1>1 DEF CellInv
<1>5. CASE s \in Decrementers(k, m)'
  <2>1. k = key[s] /\ m = period[s] /\ seen'[s].used # 1
    BY <1>2, <1>5 DEF Decrementers
  <2>2. rows[k][m] # NoRow /\ seen'[s] = rows[k][m] /\ Used(k, m) > 0
    BY <1>1, <1>2, <2>1, Counting DEF RefundRead, NothingToRefund, RowOf
  <2>3. Used(k, m) >= 2
    BY <1>1, <2>1, <2>2, Counting DEF Used, UsedOf, Row
  <2>4. Used(k, m)' = Used(k, m)
    BY <1>2 DEF Used
  <2>5. /\ Cardinality(Writers(k, m)') <= Cardinality(Writers(k, m))
        /\ Cardinality(Writers(k, m)') \in Nat
        /\ Cardinality(Decrementers(k, m)') <= Cardinality(Slot)
        /\ Cardinality(Decrementers(k, m)') \in Nat
    <3>1. Decrementers(k, m)' \in SUBSET Slot
      BY DEF Decrementers
    <3> QED BY <1>1, <1>3, <3>1, Counting, SubsetsOfSlot
  <2>6. OverrunAt(k, m)'
    BY <1>1, <1>4, <2>4, <2>5, Counting DEF OverrunAt
  <2>7. UnderrunAt(k, m)'
    BY <1>1, <2>3, <2>4, <2>5, Counting DEF UnderrunAt
  <2> QED BY <2>6, <2>7
<1>6. CASE s \notin Decrementers(k, m)'
  <2>1. Decrementers(k, m)' \subseteq Decrementers(k, m)
    BY <1>1, <1>2, <1>6 DEF Decrementers, RowStillThere, RowOf, TypeOK
  <2> QED BY <1>1, <1>2, <1>3, <1>4, <2>1, CellKept
<1> QED BY <1>5, <1>6

\* A step that writes no row and sends no transaction on to a write.
Quiet(s) ==
    \/ \E k \in Key : Begin(s, k) \/ BeginUnlimited(s, k)
    \/ QuotaExceeded(s) \/ ConsumeConflict(s)
    \/ ProviderAnswers(s) \/ AttemptFails(s) \/ UnlimitedFails(s) \/ ProviderFails(s)
    \/ RefundNothing(s) \/ RefundConflict(s) \/ TransactionFails(s)

LEMMA QuietKeeps ==
    ASSUME BoundInv, TypeOK', NEW s \in Slot, Quiet(s)
    PROVE  CellInv'
<1>1. TypeOK /\ CellInv
  BY DEF BoundInv
<1>2. /\ rows' = rows /\ pc'[s] \notin {"write", "refundWrite"}
      /\ \A t \in Slot \ {s} :
             /\ pc'[t] = pc[t] /\ key'[t] = key[t]
             /\ period'[t] = period[t] /\ seen'[t] = seen[t]
  <2> USE DEF TypeOK, dbVars, historyVars, Goto
  <2>1. CASE \E k \in Key : Begin(s, k)
    BY <1>1, <2>1 DEF Begin
  <2>2. CASE \E k \in Key : BeginUnlimited(s, k)
    BY <1>1, <2>2 DEF BeginUnlimited, CallProvider
  <2>3. CASE QuotaExceeded(s)
    BY <1>1, <2>3 DEF QuotaExceeded, Finish
  <2>4. CASE ConsumeConflict(s)
    BY <1>1, <2>4 DEF ConsumeConflict, Finish
  <2>5. CASE ProviderAnswers(s)
    BY <1>1, <2>5 DEF ProviderAnswers, Finish
  <2>6. CASE AttemptFails(s)
    BY <1>1, <2>6 DEF AttemptFails
  <2>7. CASE UnlimitedFails(s)
    BY <1>1, <2>7 DEF UnlimitedFails, Finish
  <2>8. CASE ProviderFails(s)
    BY <1>1, <2>8 DEF ProviderFails
  <2>9. CASE RefundNothing(s)
    BY <1>1, <2>9 DEF RefundNothing, Finish
  <2>10. CASE RefundConflict(s)
    BY <1>1, <2>10 DEF RefundConflict, Finish
  <2>11. CASE TransactionFails(s)
    BY <1>1, <2>11 DEF TransactionFails, Finish
  <2> QED BY <2>1, <2>2, <2>3, <2>4, <2>5, <2>6, <2>7, <2>8, <2>9, <2>10, <2>11
             DEF Quiet
<1> QED BY <1>1, <1>2, QuietStep

LEMMA NextLimitedOnly == TypeOK /\ LimitedOnly /\ [Next]_vars => LimitedOnly'
<1> SUFFICES ASSUME TypeOK, LimitedOnly, [Next]_vars, NEW t \in Slot,
                    pc'[t] \in {"read", "write", "refundRead", "refundWrite"}
             PROVE  Limit[key'[t]] > 0
  BY DEF LimitedOnly
<1> USE DEF TypeOK, LimitedOnly, Goto
<1>1. ASSUME NEW s \in Slot, RequestStep(s) PROVE Limit[key'[t]] > 0
  <2>1. key' = key
    BY <1>1 DEF RequestStep, QuotaExceeded, ConsumeRead, ConsumeIncrement, ConsumeCreate,
        ConsumeConflict, ProviderAnswers, AttemptFails, UnlimitedFails, ProviderFails,
        RefundNothing, RefundRead, RefundDelete, RefundDecrement, RefundConflict,
        TransactionFails
  <2>2. CASE t # s
    <3>1. pc'[t] = pc[t]
      BY <1>1, <2>2 DEF RequestStep, QuotaExceeded, ConsumeRead, ConsumeIncrement,
         ConsumeCreate, ConsumeConflict, ProviderAnswers, AttemptFails, UnlimitedFails,
         ProviderFails, RefundNothing, RefundRead, RefundDelete, RefundDecrement,
         RefundConflict, TransactionFails, Finish, CallProvider
    <3> QED BY <2>1, <3>1
  <2>3. CASE t = s
    <3>1. ConsumeRead(s) \/ ProviderFails(s) \/ RefundRead(s)
      BY <1>1, <2>3 DEF RequestStep, QuotaExceeded, ConsumeIncrement,
         ConsumeCreate, ConsumeConflict, ProviderAnswers, AttemptFails, UnlimitedFails,
         RefundNothing, RefundDelete, RefundDecrement,
         RefundConflict, TransactionFails, Finish, CallProvider
    <3> QED BY <2>1, <2>3, <3>1 DEF ConsumeRead, ProviderFails, RefundRead
  <2> QED BY <2>2, <2>3
<1>2. ASSUME NEW s \in Slot, NEW k \in Key, Begin(s, k) \/ BeginUnlimited(s, k)
      PROVE  Limit[key'[t]] > 0
  <2>1. CASE t = s
    BY <1>2, <2>1 DEF Begin, BeginUnlimited, CallProvider
  <2>2. CASE t # s
    BY <1>2, <2>2 DEF Begin, BeginUnlimited, CallProvider
  <2> QED BY <2>1, <2>2
<1>3. CASE MonthEnds
  BY <1>3 DEF MonthEnds, requestVars
<1>4. CASE Restart
  BY <1>4 DEF Restart
<1>5. CASE UNCHANGED vars
  BY <1>5 DEF vars, requestVars
<1> QED BY <1>1, <1>2, <1>3, <1>4, <1>5 DEF Next

LEMMA NextBoundInv == BoundInv /\ [Next]_vars => BoundInv'
<1> SUFFICES ASSUME BoundInv, [Next]_vars PROVE BoundInv'
  OBVIOUS
<1>1. TypeOK' /\ LimitedOnly'
  BY NextTypeOK, NextLimitedOnly DEF BoundInv
<1>2. ASSUME NEW s \in Slot, RequestStep(s) PROVE CellInv'
  BY <1>1, <1>2, QuietKeeps, ConsumeReadKeeps, IncrementKeeps, CreateKeeps,
     RefundReadKeeps, DeleteKeeps, DecrementKeeps DEF RequestStep, Quiet
<1>3. ASSUME NEW s \in Slot, NEW k \in Key, Begin(s, k) \/ BeginUnlimited(s, k)
      PROVE  CellInv'
  BY <1>1, <1>3, QuietKeeps DEF Quiet
<1>4. ASSUME MonthEnds PROVE CellInv'
  BY <1>1, <1>4, QuietStep DEF MonthEnds, requestVars, BoundInv
<1>5. ASSUME Restart PROVE CellInv'
  BY <1>1, <1>5, QuietStep DEF Restart, dbVars, BoundInv
<1>6. ASSUME UNCHANGED vars PROVE CellInv'
  BY <1>1, <1>6, QuietStep DEF vars, dbVars, requestVars, BoundInv
<1>7. CellInv'
  BY <1>2, <1>3, <1>4, <1>5, <1>6 DEF Next
<1> QED BY <1>1, <1>7 DEF BoundInv

LEMMA InitBoundInv == Init => BoundInv
<1> SUFFICES ASSUME Init PROVE BoundInv
  OBVIOUS
<1>1. TypeOK /\ LimitedOnly
  BY InitTypeOK DEF Init, LimitedOnly
<1>2. ASSUME NEW k \in Key, NEW m \in Month
      PROVE  OverrunAt(k, m) /\ UnderrunAt(k, m)
  <2>1. Used(k, m) = 0
    BY DEF Init, Used, UsedOf
  <2>2. Writers(k, m) = {} /\ Decrementers(k, m) = {}
    BY DEF Init, Writers, Decrementers
  <2>3. Cardinality(Writers(k, m)) = 0
    BY <2>2, FS_EmptySet
  <2> QED BY <1>1, <2>1, <2>2, <2>3, Counting DEF OverrunAt, UnderrunAt
<1> QED BY <1>1, <1>2 DEF BoundInv, CellInv

LEMMA BoundInvBounds == BoundInv => CountersBounded
<1> SUFFICES ASSUME BoundInv, NEW k \in Key, NEW m \in Month, Limit[k] > 0
             PROVE  /\ Used(k, m) <= Limit[k] + Cardinality(Slot) - 1
                    /\ Used(k, m) >= 0 \/ Used(k, m) >= 2 - Cardinality(Slot)
  BY DEF CountersBounded
<1>1. OverrunAt(k, m) /\ UnderrunAt(k, m)
  BY DEF BoundInv, CellInv
<1> QED BY <1>1, Counting DEF BoundInv, OverrunAt, UnderrunAt

\* However the transactions of any number of requests interleave, a month's
\* counter passes its limit by less than the number of concurrent requests, and
\* falls below zero by less than that number.
THEOREM QuotaOverrunBounded == Spec => []CountersBounded
<1>1. Spec => []BoundInv
  BY InitBoundInv, NextBoundInv, PTL DEF Spec
<1> QED BY <1>1, BoundInvBounds, PTL

-----------------------------------------------------------------------------
(* The rows implement the ledger. *)

LedgerUsed == [k \in Key |-> [m \in Month |-> Used(k, m)]]

\* A step that changes the counter of one cell updates the ledger there.
LEMMA LedgerUpdate ==
    ASSUME NEW ks \in Key, NEW ms \in Month,
           \A k \in Key, m \in Month : k # ks \/ m # ms => rows'[k][m] = rows[k][m]
    PROVE  LedgerUsed' = [LedgerUsed EXCEPT ![ks][ms] = Used(ks, ms)']
<1> DEFINE u == [LedgerUsed EXCEPT ![ks][ms] = Used(ks, ms)']
<1>1. \A k \in Key, m \in Month : LedgerUsed'[k][m] = Used(k, m)'
  BY DEF LedgerUsed
<1>2. \A k \in Key, m \in Month :
          u[k][m] = IF k = ks /\ m = ms THEN Used(ks, ms)' ELSE Used(k, m)
  BY DEF LedgerUsed
<1>3. \A k \in Key, m \in Month : k # ks \/ m # ms => Used(k, m)' = Used(k, m)
  BY DEF Used
<1>4. \A k \in Key, m \in Month : LedgerUsed'[k][m] = u[k][m]
  BY <1>1, <1>2, <1>3
<1>5. /\ LedgerUsed' = [k \in Key |-> [m \in Month |-> LedgerUsed'[k][m]]]
      /\ u = [k \in Key |-> [m \in Month |-> u[k][m]]]
  <2>1. LedgerUsed' = [k \in Key |-> [m \in Month |-> LedgerUsed'[k][m]]]
    BY DEF LedgerUsed
  <2>2. u = [k \in Key |-> [m \in Month |-> u[k][m]]]
    BY DEF LedgerUsed
  <2> QED BY <2>1, <2>2
<1> HIDE DEF u
<1> QED BY <1>4, <1>5 DEF u

LEMMA OwnRowOnly ==
    ASSUME TypeOK, TypeOK', NEW s \in Slot, NEW ks \in Key, NEW ms \in Month,
           ks = key[s], ms = period[s],
           \/ ConsumeIncrement(s) \/ ConsumeCreate(s)
           \/ RefundDelete(s) \/ RefundDecrement(s)
    PROVE  LedgerUsed' = [LedgerUsed EXCEPT ![ks][ms] = Used(ks, ms)']
BY OwnStep, LedgerUpdate

\* What each row-writing step does to the counter of its cell.
LEMMA AdmitStep ==
    ASSUME BoundInv, TypeOK', NEW s \in Slot, NEW ks \in Key, NEW ms \in Month,
           ks = key[s], ms = period[s], ConsumeIncrement(s) \/ ConsumeCreate(s)
    PROVE  /\ Used(ks, ms)' = Used(ks, ms) + 1
           /\ Used(ks, ms) < Limit[ks] + (Cardinality(Slot) - 1)
<1>1. TypeOK
  BY DEF BoundInv
<1>2. Used(ks, ms)' = Used(ks, ms) + 1
  <2>1. CASE ConsumeIncrement(s)
    <3>1. rows[ks][ms] # NoRow /\ rows[ks][ms] \in Row
      BY <1>1, <2>1, Counting DEF ConsumeIncrement, RowStillThere, RowOf
    <3>2. rows'[ks][ms] = [rows[ks][ms] EXCEPT !.used = @ + 1]
      BY <1>1, <2>1 DEF ConsumeIncrement, TypeOK
    <3> QED BY <3>1, <3>2, QuotaAssumption DEF Used, UsedOf, Row
  <2>2. CASE ConsumeCreate(s)
    <3>1. rows[ks][ms] = NoRow /\ rows'[ks][ms] = [id |-> FreshId, used |-> 1]
      BY <1>1, <2>2 DEF ConsumeCreate, TypeOK
    <3>2. rows'[ks][ms] # NoRow
      <4>1. RowId \ IdsInUse # {}
        BY <2>2 DEF ConsumeCreate, IdsInUse
      <4>2. [id |-> FreshId, used |-> 1] \in Row
        BY <4>1, FreshIdType DEF Row
      <4> QED BY <3>1, <4>2, QuotaAssumption
    <3> QED BY <3>1, <3>2 DEF Used, UsedOf
  <2> QED BY <2>1, <2>2
<1>3. s \in Writers(ks, ms)
  BY DEF Writers, ConsumeIncrement, ConsumeCreate
<1>4. Cardinality(Writers(ks, ms)) >= 1
  <2>1. {} \in SUBSET Writers(ks, ms) /\ s \in Writers(ks, ms) \ {}
    BY <1>3
  <2>2. Cardinality({}) <= Cardinality(Writers(ks, ms)) - 1
    BY <1>1, <2>1, Counting, SubsetsOfSlot
  <2> QED BY <1>1, <2>2, Counting, FS_EmptySet
<1>5. Limit[ks] > 0
  BY DEF BoundInv, LimitedOnly, ConsumeIncrement, ConsumeCreate
<1>6. OverrunAt(ks, ms)
  BY DEF BoundInv, CellInv
<1>7. Used(ks, ms) < Limit[ks] + (Cardinality(Slot) - 1)
  BY <1>1, <1>4, <1>5, <1>6, Counting DEF OverrunAt
<1> QED BY <1>2, <1>7

LEMMA GiveBackStep ==
    ASSUME BoundInv, TypeOK', NEW s \in Slot, NEW ks \in Key, NEW ms \in Month,
           ks = key[s], ms = period[s], RefundDecrement(s)
    PROVE  /\ Used(ks, ms)' = Used(ks, ms) - 1
           /\ Used(ks, ms) > 1 - (Cardinality(Slot) - 1)
<1>1. TypeOK
  BY DEF BoundInv
<1>2. rows[ks][ms] # NoRow /\ rows[ks][ms] \in Row
  BY <1>1, Counting DEF RefundDecrement, RowStillThere, RowOf
<1>3. rows'[ks][ms] = [rows[ks][ms] EXCEPT !.used = @ - 1]
  BY <1>1 DEF RefundDecrement, TypeOK
<1>4. Used(ks, ms)' = Used(ks, ms) - 1
  BY <1>2, <1>3, QuotaAssumption DEF Used, UsedOf, Row
<1>5. Used(ks, ms) > 2 - Cardinality(Slot)
  BY DecrementKeeps
<1> QED BY <1>1, <1>4, <1>5, Counting

LEMMA LedgerStep == BoundInv /\ TypeOK' /\ [Next]_vars => [Ledger!Next]_LedgerUsed
<1> SUFFICES ASSUME BoundInv, TypeOK', [Next]_vars, rows' # rows
             PROVE  Ledger!Next \/ LedgerUsed' = LedgerUsed
  BY DEF LedgerUsed, Used
<1>1. TypeOK
  BY DEF BoundInv
<1>2. PICK s \in Slot : \/ ConsumeIncrement(s) \/ ConsumeCreate(s)
                        \/ RefundDelete(s) \/ RefundDecrement(s)
  BY DEF Next, RequestStep, Begin, BeginUnlimited, QuotaExceeded, ConsumeRead,
     ConsumeConflict, ProviderAnswers, AttemptFails, UnlimitedFails, ProviderFails,
     RefundNothing, RefundRead, RefundConflict, TransactionFails, MonthEnds, Restart,
     vars, dbVars
<1>3. PICK ks \in Key, ms \in Month : ks = key[s] /\ ms = period[s]
  BY <1>1, RowOfType
<1>4. LedgerUsed' = [LedgerUsed EXCEPT ![ks][ms] = Used(ks, ms)']
  BY <1>1, <1>2, <1>3, OwnRowOnly
<1>5. LedgerUsed[ks][ms] = Used(ks, ms)
  BY DEF LedgerUsed
<1>6. CASE ConsumeIncrement(s) \/ ConsumeCreate(s)
  <2>1. /\ Used(ks, ms)' = Used(ks, ms) + 1
        /\ Used(ks, ms) < Limit[ks] + (Cardinality(Slot) - 1)
    BY <1>3, <1>6, AdmitStep
  <2>2. LedgerUsed' = [LedgerUsed EXCEPT ![ks][ms] = @ + 1]
    BY <1>4, <1>5, <2>1
  <2>3. Ledger!Admit(ks, ms)
    BY <1>5, <2>1, <2>2 DEF Ledger!Admit, LedgerUsed
  <2> QED BY <2>3 DEF Ledger!Next
<1>7. CASE RefundDecrement(s)
  <2>1. /\ Used(ks, ms)' = Used(ks, ms) - 1
        /\ Used(ks, ms) > 1 - (Cardinality(Slot) - 1)
    BY <1>3, <1>7, GiveBackStep
  <2>2. LedgerUsed' = [LedgerUsed EXCEPT ![ks][ms] = @ - 1]
    BY <1>4, <1>5, <2>1
  <2>3. Ledger!GiveBack(ks, ms)
    BY <1>5, <2>1, <2>2 DEF Ledger!GiveBack, LedgerUsed
  <2> QED BY <2>3 DEF Ledger!Next
<1>8. CASE RefundDelete(s)
  <2>1. rows'[ks][ms] = NoRow
    BY <1>1, <1>3, <1>8 DEF RefundDelete, TypeOK
  <2>2. Used(ks, ms)' = 0
    BY <2>1 DEF Used, UsedOf
  <2>3. Ledger!Drop(ks, ms)
    BY <1>4, <2>2 DEF Ledger!Drop, LedgerUsed
  <2> QED BY <2>3 DEF Ledger!Next
<1> QED BY <1>2, <1>6, <1>7, <1>8

\* Every step of the service on the table is an admission, a give-back, a drop
\* or nothing for the ledger: the table implements its abstract specification.
THEOREM RowsImplementLedger == Spec => LedgerSpec
<1>1. Init => Ledger!Init
  BY DEF Init, Ledger!Init, Used, UsedOf
<1>2. Spec => []BoundInv
  BY InitBoundInv, NextBoundInv, PTL DEF Spec
<1>3. BoundInv => TypeOK
  BY DEF BoundInv
<1>4. BoundInv /\ TypeOK' /\ [Next]_vars
      => [Ledger!Next]_([k \in Key |-> [m \in Month |-> Used(k, m)]])
  BY LedgerStep DEF LedgerUsed
<1> QED BY <1>1, <1>2, <1>3, <1>4, PTL DEF Spec, LedgerSpec, Ledger!Spec

-----------------------------------------------------------------------------
(* The counter is exact until a refund. *)

LEMMA ExactStep ==
    BoundInv /\ TypeOK' /\ CounterExactUntilRefund /\ [Next]_vars => CounterExactUntilRefund'
<1> SUFFICES ASSUME BoundInv, TypeOK', CounterExactUntilRefund, [Next]_vars,
                    NEW k \in Key, NEW m \in Month, <<k, m>> \notin refunded'
             PROVE  Used(k, m)' = admitted'[k][m]
  BY DEF CounterExactUntilRefund
<1>1. TypeOK
  BY DEF BoundInv
<1>2. ASSUME NEW s \in Slot, ConsumeIncrement(s) \/ ConsumeCreate(s)
      PROVE  Used(k, m)' = admitted'[k][m]
  <2>1. refunded' = refunded /\ Charged(s)
    BY <1>2 DEF ConsumeIncrement, ConsumeCreate
  <2>2. Used(k, m) = admitted[k][m]
    BY <2>1 DEF CounterExactUntilRefund
  <2>3. key[s] \in Key /\ period[s] \in Month
    BY <1>1, RowOfType
  <2>4. CASE k = key[s] /\ m = period[s]
    <3>1. Used(k, m)' = Used(k, m) + 1
      BY <1>2, <2>4, AdmitStep
    <3>2. admitted'[k][m] = admitted[k][m] + 1
      BY <1>1, <2>1, <2>4 DEF Charged, TypeOK
    <3> QED BY <2>2, <3>1, <3>2
  <2>5. CASE k # key[s] \/ m # period[s]
    <3>1. Used(k, m)' = Used(k, m)
      BY <1>1, <1>2, <2>5, OwnStep DEF Used
    <3>2. admitted'[k][m] = admitted[k][m]
      BY <1>1, <2>1, <2>3, <2>5 DEF Charged, TypeOK
    <3> QED BY <2>2, <3>1, <3>2
  <2> QED BY <2>4, <2>5
<1>3. ASSUME NEW s \in Slot, RefundDelete(s) \/ RefundDecrement(s)
      PROVE  Used(k, m)' = admitted'[k][m]
  <2>1. /\ admitted' = admitted /\ refunded \subseteq refunded'
        /\ <<key[s], period[s]>> \in refunded'
    BY <1>3 DEF RefundDelete, RefundDecrement
  <2>2. Used(k, m)' = Used(k, m)
    BY <1>1, <1>3, <2>1, OwnStep DEF Used
  <2> QED BY <2>1, <2>2 DEF CounterExactUntilRefund
<1>4. CASE rows' = rows /\ admitted' = admitted /\ refunded' = refunded
  BY <1>4 DEF CounterExactUntilRefund, Used
<1>5. \/ rows' = rows /\ admitted' = admitted /\ refunded' = refunded
      \/ \E s \in Slot : \/ ConsumeIncrement(s) \/ ConsumeCreate(s)
                         \/ RefundDelete(s) \/ RefundDecrement(s)
  BY DEF Next, RequestStep, Begin, BeginUnlimited, QuotaExceeded, ConsumeRead,
     ConsumeConflict, ProviderAnswers, AttemptFails, UnlimitedFails, ProviderFails,
     RefundNothing, RefundRead, RefundConflict, TransactionFails, MonthEnds, Restart,
     vars, dbVars, historyVars
<1> QED BY <1>2, <1>3, <1>4, <1>5

\* No increment or create is lost and no refused request is counted: until a
\* month's first refund its counter is the number of calls let through.
THEOREM CounterExact == Spec => []CounterExactUntilRefund
<1>1. Init => CounterExactUntilRefund
  BY DEF Init, CounterExactUntilRefund, Used, UsedOf
<1>2. Spec => []BoundInv
  BY InitBoundInv, NextBoundInv, PTL DEF Spec
<1>3. BoundInv => TypeOK
  BY DEF BoundInv
<1> QED BY <1>1, <1>2, <1>3, ExactStep, PTL DEF Spec

-----------------------------------------------------------------------------
(* Who gives back. *)

\* A request of a limited feature carries the month it was charged in, from its
\* charge on until it is answered; no request is ahead of the calendar.
CarriesCharge(s) ==
    /\ period[s] <= month
    /\ pc[s] = "provider" /\ Limit[key[s]] > 0 => charge[s] \in 1..month
    /\ pc[s] \in {"refundRead", "refundWrite"} => charge[s] \in 1..period[s]

ChargeCarried == \A s \in Slot : CarriesCharge(s)

LEMMA NextChargeCarried == TypeOK /\ ChargeCarried /\ [Next]_vars => ChargeCarried'
<1> SUFFICES ASSUME TypeOK, ChargeCarried, [Next]_vars, NEW t \in Slot
             PROVE  CarriesCharge(t)'
  BY DEF ChargeCarried
<1>t. /\ month \in Nat \ {0} /\ period[t] \in Nat \ {0} /\ charge[t] \in Nat
      /\ CarriesCharge(t)
  <2>1. month \in Month /\ period[t] \in Month /\ charge[t] \in Month \cup {0}
    BY DEF TypeOK
  <2>2. \A m \in Month : m \in Nat \ {0}
    BY Constants
  <2>3. CarriesCharge(t)
    BY DEF ChargeCarried
  <2>4. month \in Nat \ {0} /\ period[t] \in Nat \ {0} /\ charge[t] \in Nat
    BY <2>1, <2>2
  <2> QED BY <2>3, <2>4
<1>1. ASSUME NEW s \in Slot, RequestStep(s) PROVE CarriesCharge(t)'
  <2>1. key' = key /\ month' = month
    BY <1>1 DEF RequestStep, QuotaExceeded, ConsumeRead, ConsumeIncrement, ConsumeCreate,
        ConsumeConflict, ProviderAnswers, AttemptFails, UnlimitedFails, ProviderFails,
        RefundNothing, RefundRead, RefundDelete, RefundDecrement, RefundConflict,
        TransactionFails, dbVars
  <2>2. CASE t # s
    <3>1. pc'[t] = pc[t] /\ period'[t] = period[t] /\ charge'[t] = charge[t]
      BY <1>1, <2>2 DEF RequestStep, QuotaExceeded, ConsumeRead, ConsumeIncrement,
         ConsumeCreate, ConsumeConflict, ProviderAnswers, AttemptFails, UnlimitedFails,
         ProviderFails, RefundNothing, RefundRead, RefundDelete, RefundDecrement,
         RefundConflict, TransactionFails, Finish, CallProvider, Charged, Goto,
         historyVars, TypeOK
    <3> QED BY <1>t, <2>1, <3>1 DEF CarriesCharge
  <2>3. CASE t = s
    <3>1. CASE Finish(s)
      <4>1. pc'[s] = "idle" /\ period'[s] = 1
        BY <3>1 DEF Finish, Goto, TypeOK
      <4> QED BY <1>t, <2>1, <2>3, <4>1 DEF CarriesCharge
    <3>2. CASE ConsumeIncrement(s) \/ ConsumeCreate(s)
      <4>1. pc'[s] = "provider" /\ period'[s] = 1 /\ charge'[s] = period[s]
        BY <3>2 DEF ConsumeIncrement, ConsumeCreate, CallProvider, Charged, Goto, TypeOK
      <4> QED BY <1>t, <2>1, <2>3, <4>1 DEF CarriesCharge
    <3>3. CASE ConsumeRead(s) \/ RefundRead(s) \/ AttemptFails(s)
      <4>1. /\ period' = period /\ charge' = charge
            /\ pc'[s] \in {"refundRead", "refundWrite"} => pc[s] \in {"refundRead", "refundWrite"}
            /\ pc'[s] = "provider" => pc[s] = "provider"
        BY <3>3 DEF ConsumeRead, RefundRead, AttemptFails, Goto, historyVars, TypeOK
      <4> QED BY <1>t, <2>1, <2>3, <4>1 DEF CarriesCharge
    <3>4. CASE ProviderFails(s)
      <4>1. /\ pc[s] = "provider" /\ Limit[key[s]] > 0 /\ pc'[s] = "refundRead"
            /\ period'[s] = month /\ charge' = charge
        BY <3>4 DEF ProviderFails, Goto, historyVars, TypeOK
      <4> QED BY <1>t, <2>1, <2>3, <4>1 DEF CarriesCharge
    <3> QED BY <1>1, <3>1, <3>2, <3>3, <3>4 DEF RequestStep, QuotaExceeded, ConsumeConflict,
               ProviderAnswers, UnlimitedFails, RefundNothing, RefundDelete, RefundDecrement,
               RefundConflict, TransactionFails
  <2> QED BY <2>2, <2>3
<1>2. ASSUME NEW s \in Slot, NEW k \in Key, Begin(s, k) \/ BeginUnlimited(s, k)
      PROVE  CarriesCharge(t)'
  <2>1. /\ month' = month /\ charge' = charge
        /\ period'[t] \in {period[t], 1, month}
        /\ t # s => pc'[t] = pc[t] /\ key'[t] = key[t] /\ period'[t] = period[t]
        /\ t = s => \/ pc'[t] = "read"
                    \/ pc'[t] = "provider" /\ ~(Limit[key'[t]] > 0)
    <3>1. ASSUME Begin(s, k)
          PROVE  /\ month' = month /\ charge' = charge
                 /\ period'[t] \in {period[t], 1, month}
                 /\ t # s => pc'[t] = pc[t] /\ key'[t] = key[t] /\ period'[t] = period[t]
                 /\ t = s => pc'[t] = "read"
      BY <3>1 DEF Begin, Goto, dbVars, historyVars, TypeOK
    <3>2. ASSUME BeginUnlimited(s, k)
          PROVE  /\ month' = month /\ charge' = charge
                 /\ period'[t] \in {period[t], 1, month}
                 /\ t # s => pc'[t] = pc[t] /\ key'[t] = key[t] /\ period'[t] = period[t]
                 /\ t = s => pc'[t] = "provider" /\ ~(Limit[key'[t]] > 0)
      <4>1. ~(Limit[k] > 0)
        BY <3>2, QuotaAssumption DEF BeginUnlimited
      <4> QED BY <3>2, <4>1 DEF BeginUnlimited, CallProvider, Goto, dbVars, historyVars, TypeOK
    <3> QED BY <1>2, <3>1, <3>2
  <2> QED BY <1>t, <2>1 DEF CarriesCharge
<1>3. CASE MonthEnds
  BY <1>t, <1>3 DEF MonthEnds, requestVars, historyVars, CarriesCharge
<1>4. CASE Restart
  BY <1>t, <1>4 DEF Restart, dbVars, CarriesCharge
<1>5. CASE UNCHANGED vars
  BY <1>t, <1>5 DEF vars, dbVars, requestVars, historyVars, CarriesCharge
<1> QED BY <1>1, <1>2, <1>3, <1>4, <1>5 DEF Next

\* Only the two writes of a refund lower a counter.
LEMMA LoweringStep ==
    ASSUME BoundInv, TypeOK', ChargeCarried, [Next]_vars, NEW k \in Key, NEW m \in Month,
           Used(k, m)' < Used(k, m)
    PROVE  \E s \in Slot :
               /\ pc[s] = "refundWrite" /\ pc'[s] = "idle"
               /\ key[s] = k
               /\ charge[s] \in 1..m
<1>1. TypeOK
  BY DEF BoundInv
<1>2. Used(k, m) \in Int
  BY <1>1, QuotaAssumption DEF TypeOK, Used, UsedOf, Row
<1>3. rows' # rows
  BY <1>2 DEF Used
<1>4. PICK s \in Slot : \/ ConsumeIncrement(s) \/ ConsumeCreate(s)
                        \/ RefundDelete(s) \/ RefundDecrement(s)
  BY <1>3 DEF Next, RequestStep, Begin, BeginUnlimited, QuotaExceeded, ConsumeRead,
     ConsumeConflict, ProviderAnswers, AttemptFails, UnlimitedFails, ProviderFails,
     RefundNothing, RefundRead, RefundConflict, TransactionFails, MonthEnds, Restart,
     vars, dbVars
<1>5. k = key[s] /\ m = period[s]
  <2>1. k # key[s] \/ m # period[s] => Used(k, m)' = Used(k, m)
    BY <1>1, <1>4, OwnStep DEF Used
  <2> QED BY <1>2, <2>1
<1>6. ~(ConsumeIncrement(s) \/ ConsumeCreate(s))
  BY <1>2, <1>5, AdmitStep
<1>7. pc[s] = "refundWrite" /\ pc'[s] = "idle"
  BY <1>1, <1>4, <1>6 DEF RefundDelete, RefundDecrement, Finish, Goto, TypeOK
<1> QED BY <1>5, <1>7 DEF ChargeCarried, CarriesCharge

\* Nothing is given back that was not paid: only the refund of a request that
\* was charged, in that month or an earlier one, lowers a counter.
THEOREM RefundsWereCharged == Spec => OnlyChargedRequestsRefund
<1>1. Init => ChargeCarried
  BY DEF Init, ChargeCarried, CarriesCharge
<1>2. Spec => []BoundInv
  BY InitBoundInv, NextBoundInv, PTL DEF Spec
<1>3. BoundInv => TypeOK
  BY DEF BoundInv
<1>4. BoundInv /\ TypeOK' /\ ChargeCarried /\ [Next]_vars =>
        [\A k \in Key, m \in Month :
           Used(k, m)' < Used(k, m) =>
               \E s \in Slot :
                   /\ pc[s] = "refundWrite" /\ pc'[s] = "idle"
                   /\ key[s] = k
                   /\ charge[s] \in 1..m]_vars
  BY LoweringStep
<1> QED BY <1>1, <1>2, <1>3, <1>4, NextChargeCarried, PTL
        DEF Spec, OnlyChargedRequestsRefund
=============================================================================
