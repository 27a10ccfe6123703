----------------------------- MODULE AiTasksProofs -----------------------------
(***************************************************************************)
(* Proofs about AiTasks, for any number of jobs, requests and contents,    *)
(* and however often the process dies.                                     *)
(*                                                                         *)
(* A charge is settled by a later step of the call that made it, and what  *)
(* that step does is decided by the provider the call resolved, not by the *)
(* flag as it is then.  So the invariant says of every call from its       *)
(* charge on that it goes to the language model (Charged), and weighs the  *)
(* calls that owe an answer or a refund against the quota in use.  Of the   *)
(* charges for one job or request it says that there is room for one more  *)
(* wherever a call may still make one (OneEach).                           *)
(***************************************************************************)
EXTENDS AiTasks, FiniteSetTheorems, TLAPS

\* Calls that are charged, or about to be, or to store or refund, are calls of
\* the language model.
Charged == \A t \in Task : pc[t] \in {"charge", "refund", "store"} => llm[t]

\* A call that may still charge is under way or to come.
MayCharge(t) == state[t] \in {"new", "waiting"} \/ pc[t] \in {"find", "lookup", "charge"}

OneEach ==
    \A t \in Task : /\ MayCharge(t) => charges[t] <= Reruns(t)
                    /\ charges[t] <= 1 + Reruns(t)
                    /\ t \in Owing => charges[t] >= 1

Inv == TypeOK /\ Charged /\ SpentIsAccounted /\ OneEach

\* A step that changes neither what calls owe nor what they have delivered.
Calm ==
    /\ Owing' = Owing /\ Delivered' = Delivered
    /\ spent' = spent /\ wasted' = wasted

-----------------------------------------------------------------------------
(* Finite sets. *)

\* Cardinalities of sets of jobs and requests.
LEMMA SubsetsOfTask ==
    ASSUME NEW T \in SUBSET Task
    PROVE  /\ Cardinality(T) \in Nat
           /\ T = {} => Cardinality(T) = 0
           /\ \A t \in Task \ T : Cardinality(T \cup {t}) = Cardinality(T) + 1
           /\ \A t \in T : Cardinality(T \ {t}) = Cardinality(T) - 1
<1>1. IsFiniteSet(T)
  <2>1. IsFiniteSet(Task)
    BY AiTasksAssumption
  <2> QED BY <2>1, FS_Subset
<1> QED BY <1>1, FS_CardinalityType, FS_EmptySet, FS_AddElement, FS_RemoveElement

\* What calls owe and have delivered can be counted.
LEMMA Countable ==
    /\ Owing \in SUBSET Task /\ Delivered \in SUBSET Task
    /\ Cardinality(Owing) \in Nat /\ Cardinality(Delivered) \in Nat
<1>1. Owing \in SUBSET Task /\ Delivered \in SUBSET Task
  BY DEF Owing, Delivered
<1> QED BY <1>1, SubsetsOfTask

-----------------------------------------------------------------------------
(* The steps of one call. *)

\* A call has a kind, and its job or request is active.
LEMMA CallIsActive ==
    ASSUME TypeOK, NEW t \in Task, pc[t] # "idle"
    PROVE  state[t] = "active" /\ kind[t] \in Kind
BY DEF TypeOK, Settled

\* A call that goes on.
LEMMA GotoTypeOK ==
    ASSUME TypeOK, NEW t \in Task, pc[t] # "idle",
           NEW label \in {"find", "lookup", "charge", "call", "refund", "store"},
           Goto(t, label), UNCHANGED <<flagVars, taskVars, cv, cache>>,
           content' \in [Task -> Content \cup {None}], llm' \in [Task -> BOOLEAN],
           spent' \in Nat, wasted' \in Nat, charges' \in [Task -> Nat]
    PROVE  TypeOK'
<1>1. state[t] = "active"
  BY CallIsActive
<1>2. pc' \in [Task -> {"idle", "find", "lookup", "charge", "call", "refund", "store"}]
  BY DEF TypeOK, Goto
<1>3. \A u \in Task : pc'[u] = "idle" <=> state[u] # "active"
  BY <1>1 DEF TypeOK, Goto
<1> QED BY <1>2, <1>3 DEF TypeOK, flagVars, taskVars

\* A call that ends.
LEMMA EndTypeOK ==
    ASSUME TypeOK, NEW t \in Task, NEW result \in Settled, pc[t] # "idle", End(t, result),
           cache' \in [Content -> Content \cup {None}], spent' \in Nat, wasted' \in Nat,
           charges' \in [Task -> Nat]
    PROVE  TypeOK'
<1>1. /\ state' \in [Task -> {"new", "waiting", "active", "stalled"} \cup Settled]
      /\ kind' \in [Task -> Kind \cup {None}]
      /\ pc' \in [Task -> {"idle", "find", "lookup", "charge", "call", "refund", "store"}]
      /\ content' \in [Task -> Content \cup {None}] /\ llm' \in [Task -> BOOLEAN]
  BY DEF TypeOK, End, Goto
<1>2. \A u \in Task : u # t => /\ state'[u] = state[u] /\ kind'[u] = kind[u] /\ pc'[u] = pc[u]
  BY DEF TypeOK, End, Goto
<1>3. state'[t] = result /\ kind'[t] = None /\ pc'[t] = "idle"
  BY DEF TypeOK, End, Goto
<1>4. \A u \in Task : kind'[u] = None <=> state'[u] \in {"new"} \cup Settled
  BY <1>2, <1>3 DEF TypeOK
<1>5. \A u \in Task : pc'[u] = "idle" <=> state'[u] # "active"
  BY <1>2, <1>3 DEF TypeOK, Settled
<1>6. \A u \in Request : state'[u] \notin {"waiting", "stalled"}
  BY <1>2, <1>3 DEF TypeOK, Settled, Task
<1> QED BY <1>1, <1>4, <1>5, <1>6 DEF TypeOK, End, flagVars

\* What the end of a call does to what is owed and delivered.
LEMMA EndEffect ==
    ASSUME TypeOK, NEW t \in Task, NEW result \in Settled, pc[t] # "idle", End(t, result)
    PROVE  /\ Owing' = Owing \ {t}
           /\ Delivered' = IF result = "completed" THEN Delivered \cup {t} ELSE Delivered
           /\ t \notin Delivered
           /\ Charged => Charged'
<1>1. state[t] = "active"
  BY CallIsActive
<1>2. /\ state'[t] = result /\ pc'[t] = "idle" /\ llm'[t] = FALSE
      /\ \A u \in Task : u # t => state'[u] = state[u] /\ pc'[u] = pc[u] /\ llm'[u] = llm[u]
  BY DEF TypeOK, End, Goto
<1>3. Owing' = Owing \ {t}
  BY <1>2 DEF Owing
<1>4. Delivered' = IF result = "completed" THEN Delivered \cup {t} ELSE Delivered
  BY <1>1, <1>2 DEF Delivered
<1>5. t \notin Delivered
  BY <1>1 DEF Delivered
<1>6. Charged => Charged'
  BY <1>2 DEF Charged
<1> QED BY <1>3, <1>4, <1>5, <1>6

\* A step that charges and refunds nothing, and after which no call may charge
\* that might not before.
LEMMA OneEachKept ==
    ASSUME OneEach, UNCHANGED <<charges, stalls>>, Owing' \in SUBSET Owing,
           \A t \in Task : MayCharge(t)' => MayCharge(t)
    PROVE  OneEach'
<1> SUFFICES ASSUME NEW t \in Task
            PROVE  /\ MayCharge(t)' => charges'[t] <= Reruns(t)'
                   /\ charges'[t] <= 1 + Reruns(t)'
                   /\ t \in Owing' => charges'[t] >= 1
  BY DEF OneEach
<1>1. Reruns(t)' = Reruns(t)
  BY DEF Reruns
<1>2. MayCharge(t)' => MayCharge(t)
  OBVIOUS
<1>3. /\ MayCharge(t) => charges[t] <= Reruns(t)
      /\ charges[t] <= 1 + Reruns(t)
      /\ t \in Owing => charges[t] >= 1
  BY DEF OneEach
<1> HIDE DEF MayCharge, Reruns, Owing
<1> QED BY <1>1, <1>2, <1>3

-----------------------------------------------------------------------------
(* The invariant. *)

LEMMA InitInv == Init => Inv
<1> SUFFICES ASSUME Init PROVE Inv
  OBVIOUS
<1>1. TypeOK
  <2>1. stalls \in [Job -> 0 .. MaxStalls]
    BY AiTasksAssumption DEF Init
  <2>2. \A t \in Task : kind[t] = None /\ state[t] = "new" /\ pc[t] = "idle"
    BY DEF Init
  <2>3. \A t \in Request : state[t] \notin {"waiting", "stalled"}
    BY <2>2 DEF Task
  <2> QED BY <2>1, <2>2, <2>3 DEF Init, TypeOK
<1>2. Charged /\ Owing = {} /\ Delivered = {}
  BY DEF Init, Charged, Owing, Delivered
<1>3. SpentIsAccounted
  BY <1>2, FS_EmptySet DEF Init, SpentIsAccounted
<1>4. OneEach
  <2> SUFFICES ASSUME NEW t \in Task PROVE charges[t] = 0 /\ Reruns(t) = 0
    BY <1>2 DEF OneEach
  <2> QED BY DEF Init, Reruns
<1> QED BY <1>1, <1>2, <1>3, <1>4 DEF Inv

\* What remains to be shown of a calm step.
LEMMA CalmInv ==
    ASSUME Inv, Calm, TypeOK', Charged', OneEach'
    PROVE  Inv'
BY DEF Inv, Calm, SpentIsAccounted

\* The process starts, the flag changes, the CV is edited or removed, an
\* analysis expires: nothing of a job, a request or a call changes.
LEMMA OutsideInv ==
    ASSUME Inv, UNCHANGED <<taskVars, callVars, quotaVars>>,
           cv' \in Content \cup {None}, cache' \in [Content -> Content \cup {None}],
           client' \in {"none", "mock", "failed", "live"}, flag' \in BOOLEAN
    PROVE  Inv'
<1>1. TypeOK' /\ Charged'
  BY DEF Inv, TypeOK, Charged, taskVars, callVars, quotaVars
<1>2. Calm
  BY DEF Calm, Owing, Delivered, taskVars, callVars, quotaVars
<1>3. OneEach'
  <2>1. \A t \in Task : MayCharge(t)' => MayCharge(t)
    BY DEF MayCharge, taskVars, callVars
  <2> QED BY <1>2, <2>1, OneEachKept DEF Inv, Calm, taskVars, quotaVars
<1> QED BY <1>1, <1>2, <1>3, CalmInv

LEMMA EnqueueInv ==
    ASSUME Inv, NEW t \in Job, NEW k \in Kinds[t], Enqueue(t, k)
    PROVE  Inv'
<1>1. t \in Task /\ k \in Kind /\ k # None
  BY AiTasksAssumption DEF Task
<1>2. \A u \in Request : state'[u] \notin {"waiting", "stalled"}
  BY AiTasksAssumption DEF Inv, TypeOK, Enqueue, Task
<1>3. TypeOK'
  BY <1>1, <1>2 DEF Inv, TypeOK, Enqueue, flagVars, callVars, quotaVars, Settled
<1>4. Charged'
  BY DEF Inv, Charged, Enqueue, callVars
<1>5. Calm
  BY <1>1 DEF Inv, TypeOK, Enqueue, Calm, Owing, Delivered, callVars, quotaVars
<1>6. OneEach'
  <2>1. \A u \in Task : MayCharge(u)' => MayCharge(u)
    BY <1>1 DEF Inv, TypeOK, Enqueue, MayCharge, callVars
  <2> QED BY <1>5, <2>1, OneEachKept DEF Inv, Calm, Enqueue, quotaVars
<1> QED BY <1>3, <1>4, <1>5, <1>6, CalmInv

LEMMA BeginInv ==
    ASSUME Inv, NEW t \in Task, Begin(t), state[t] \in {"new", "waiting"},
           kind' \in [Task -> Kind \cup {None}], kind'[t] # None,
           \A u \in Task : u # t => kind'[u] = kind[u]
    PROVE  Inv'
<1>1. pc[t] = "idle"
  BY DEF Inv, TypeOK
<1>2. /\ state' = [state EXCEPT ![t] = "active"] /\ pc' = [pc EXCEPT ![t] = "find"]
      /\ UNCHANGED <<cv, cache, client, flag, stalls, content, llm, spent, wasted, charges>>
  BY DEF Begin, Goto, flagVars, quotaVars
<1>3. TypeOK'
  <2>1. \A u \in Task : kind'[u] = None <=> state'[u] \in {"new"} \cup Settled
    BY <1>2 DEF Inv, TypeOK, Settled
  <2>2. \A u \in Task : pc'[u] = "idle" <=> state'[u] # "active"
    BY <1>2 DEF Inv, TypeOK
  <2>3. /\ state' \in [Task -> {"new", "waiting", "active", "stalled"} \cup Settled]
        /\ pc' \in [Task -> {"idle", "find", "lookup", "charge", "call", "refund", "store"}]
    BY <1>2 DEF Inv, TypeOK
  <2> QED BY <1>2, <2>1, <2>2, <2>3 DEF Inv, TypeOK
<1>4. Charged'
  BY <1>2 DEF Inv, TypeOK, Charged
<1>5. Owing' = Owing
  BY <1>1, <1>2 DEF Inv, TypeOK, Owing
<1>6. Delivered' = Delivered
  BY <1>2 DEF Inv, TypeOK, Delivered
<1>7. OneEach'
  <2>1. \A u \in Task : MayCharge(u)' => MayCharge(u)
    BY <1>2 DEF Inv, TypeOK, MayCharge
  <2> QED BY <1>2, <1>5, <2>1, OneEachKept DEF Inv
<1> QED BY <1>2, <1>3, <1>4, <1>5, <1>6, <1>7, CalmInv DEF Calm

LEMMA StalledCheckInv ==
    ASSUME Inv, NEW t \in Job, StalledCheck(t)
    PROVE  Inv'
<1>1. t \in Task
  BY DEF Task
<1>2. /\ state' \in [Task -> {"new", "waiting", "active", "stalled"} \cup Settled]
      /\ state'[t] \in {"waiting", "failed"} /\ state[t] = "stalled"
      /\ \A u \in Task : u # t => state'[u] = state[u] /\ kind'[u] = kind[u]
      /\ kind' \in [Task -> Kind \cup {None}]
      /\ kind'[t] = None <=> state'[t] = "failed"
      /\ UNCHANGED <<cv, cache, client, flag, pc, content, llm, spent, wasted, charges>>
  BY <1>1 DEF Inv, TypeOK, StalledCheck, Settled, flagVars, callVars, quotaVars
<1>3. stalls' \in [Job -> 0 .. MaxStalls]
  BY AiTasksAssumption DEF Inv, TypeOK, StalledCheck
<1>4. \A u \in Task : kind'[u] = None <=> state'[u] \in {"new"} \cup Settled
  BY <1>2 DEF Inv, TypeOK, Settled
<1>5. \A u \in Task : pc'[u] = "idle" <=> state'[u] # "active"
  BY <1>2 DEF Inv, TypeOK
<1>6. \A u \in Request : state'[u] \notin {"waiting", "stalled"}
  BY <1>2, AiTasksAssumption DEF Inv, TypeOK, Task
<1>7. TypeOK'
  BY <1>2, <1>3, <1>4, <1>5, <1>6 DEF Inv, TypeOK
<1>8. Charged' /\ Owing' = Owing
  BY <1>2 DEF Inv, Charged, Owing
<1>9. Delivered' = Delivered
  BY <1>2 DEF Delivered
<1>10. OneEach'
  <2> SUFFICES ASSUME NEW u \in Task
              PROVE  /\ MayCharge(u)' => charges'[u] <= Reruns(u)'
                     /\ charges'[u] <= 1 + Reruns(u)'
                     /\ u \in Owing' => charges'[u] >= 1
    BY DEF OneEach
  <2>1. /\ MayCharge(u) => charges[u] <= Reruns(u)
        /\ charges[u] <= 1 + Reruns(u)
        /\ u \in Owing => charges[u] >= 1
        /\ charges[u] \in Nat /\ charges'[u] = charges[u]
    BY <1>2 DEF Inv, OneEach, TypeOK
  <2>2. CASE u # t
    <3>1. MayCharge(u)' => MayCharge(u)
      BY <1>2, <2>2 DEF MayCharge
    <3>2. Reruns(u)' = Reruns(u)
      BY <2>2 DEF Reruns, StalledCheck, Inv, TypeOK
    <3> QED BY <1>8, <2>1, <3>1, <3>2
  <2>3. CASE u = t
    <3>1. CASE stalls[t] < MaxStalls
      <4>1. Reruns(t)' = Reruns(t) + 1 /\ Reruns(t) \in Nat
        BY <3>1 DEF Reruns, StalledCheck, Inv, TypeOK
      <4> QED BY <1>8, <2>1, <2>3, <4>1
    <3>2. CASE ~(stalls[t] < MaxStalls)
      <4>1. Reruns(t)' = Reruns(t)
        BY <3>2 DEF Reruns, StalledCheck
      <4>2. state'[t] = "failed" /\ pc'[t] = "idle"
        BY <1>1, <1>2, <3>2 DEF StalledCheck, Inv, TypeOK
      <4>3. ~MayCharge(t)'
        BY <4>2 DEF MayCharge
      <4> QED BY <1>8, <2>1, <2>3, <4>1, <4>3
    <3> QED BY <3>1, <3>2
  <2> QED BY <2>2, <2>3
<1> QED BY <1>2, <1>7, <1>8, <1>9, <1>10, CalmInv DEF Calm

\* The process dies: what its calls owe is lost with them.
LEMMA CrashInv ==
    ASSUME Inv, Crash
    PROVE  Inv'
<1>1. /\ Cardinality(Owing) \in Nat /\ Cardinality(Delivered) \in Nat
  BY Countable
<1>2. TypeOK'
  <2>1. wasted' \in Nat
    BY <1>1 DEF Inv, TypeOK, Crash
  <2>2. \A t \in Task : kind'[t] = None <=> state'[t] \in {"new"} \cup Settled
    <3> TAKE t \in Task
    <3>1. CASE t \in Job
      BY <3>1 DEF Inv, TypeOK, Crash, Settled
    <3>2. CASE t \in Request
      <4>1. t \notin Job
        BY <3>2, AiTasksAssumption
      <4>2. kind'[t] = None
        BY <4>1 DEF Crash
      <4>3. state[t] \in {"new", "active"} \cup Settled
        BY <3>2 DEF Inv, TypeOK
      <4>4. state'[t] = IF state[t] = "active" THEN "failed" ELSE state[t]
        BY <4>1 DEF Crash
      <4> QED BY <4>2, <4>3, <4>4 DEF Settled
    <3> QED BY <3>1, <3>2 DEF Task
  <2>3. \A t \in Task : pc'[t] = "idle" /\ state'[t] # "active"
    BY DEF Crash, Task
  <2>4. \A t \in Request : state'[t] \notin {"waiting", "stalled"}
    <3>1. \A t \in Request : t \notin Job /\ t \in Task
      BY AiTasksAssumption DEF Task
    <3> QED BY <3>1 DEF Inv, TypeOK, Crash
  <2>5. state' \in [Task -> {"new", "waiting", "active", "stalled"} \cup Settled]
    BY DEF Inv, TypeOK, Crash, Settled
  <2>6. kind' \in [Task -> Kind \cup {None}]
    BY DEF Inv, TypeOK, Crash
  <2> QED BY <2>1, <2>2, <2>3, <2>4, <2>5, <2>6 DEF Inv, TypeOK, Crash
<1>3. Charged' /\ Owing' = {}
  BY DEF Crash, Charged, Owing
<1>4. Delivered' = Delivered
  BY DEF Inv, TypeOK, Crash, Delivered
<1>5. SpentIsAccounted'
  BY <1>1, <1>3, <1>4, FS_EmptySet DEF Inv, TypeOK, SpentIsAccounted, Crash
<1>6. OneEach'
  <2>1. \A t \in Task : MayCharge(t)' => MayCharge(t)
    BY DEF Inv, TypeOK, Crash, MayCharge
  <2> QED BY <1>3, <2>1, OneEachKept DEF Inv, Crash
<1> QED BY <1>2, <1>3, <1>5, <1>6 DEF Inv

-----------------------------------------------------------------------------
\* What a call that goes on does to what is owed and delivered.
LEMMA GotoEffect ==
    ASSUME TypeOK, NEW t \in Task, pc[t] # "idle",
           NEW label \in {"lookup", "charge", "call", "refund", "store"}, Goto(t, label),
           UNCHANGED taskVars, llm' \in [Task -> BOOLEAN],
           \A u \in Task : u # t => llm'[u] = llm[u]
    PROVE  /\ Owing' = IF llm'[t] /\ label \in {"call", "refund", "store"}
                       THEN Owing \cup {t} ELSE Owing \ {t}
           /\ Delivered' = Delivered
           /\ Charged /\ (label \in {"charge", "refund", "store"} => llm'[t]) => Charged'
<1>1. pc'[t] = label /\ \A u \in Task : u # t => pc'[u] = pc[u]
  BY DEF TypeOK, Goto
<1>2. Owing' = IF llm'[t] /\ label \in {"call", "refund", "store"}
               THEN Owing \cup {t} ELSE Owing \ {t}
  BY <1>1 DEF Owing
<1>3. Delivered' = Delivered
  BY DEF Delivered, taskVars
<1>4. Charged /\ (label \in {"charge", "refund", "store"} => llm'[t]) => Charged'
  BY <1>1 DEF Charged
<1> QED BY <1>2, <1>3, <1>4

LEMMA FindInv ==
    ASSUME Inv, NEW t \in Task, Find(t)
    PROVE  Inv'
<1> DEFINE useLlm == IsEnabled /\ kind[t] # "pdf_export"
           label == AfterFind(t, useLlm)
<1>1. /\ pc[t] = "find" /\ Goto(t, label) /\ llm' = [llm EXCEPT ![t] = useLlm]
      /\ UNCHANGED <<cv, cache, flagVars, taskVars, spent, wasted, charges>>
      /\ content' \in [Task -> Content \cup {None}] /\ llm' \in [Task -> BOOLEAN]
  BY DEF Inv, TypeOK, Find, quotaVars
<1>2. kind[t] \in Kind
  BY <1>1, CallIsActive DEF Inv
<1>3. /\ label \in {"lookup", "charge", "call"}
      /\ label = "charge" => useLlm
      /\ label = "call" => ~useLlm
  BY <1>2 DEF AfterFind, Kind
<1>4. llm'[t] = useLlm /\ \A u \in Task : u # t => llm'[u] = llm[u]
  BY <1>1 DEF Inv, TypeOK
<1>5. t \notin Owing
  BY <1>1 DEF Owing
<1> HIDE DEF label, useLlm
<1>6. Owing' = Owing /\ Delivered' = Delivered /\ Charged'
  BY <1>1, <1>3, <1>4, <1>5, GotoEffect DEF Inv
<1>7. TypeOK'
  BY <1>1, <1>3, GotoTypeOK DEF Inv, TypeOK
<1>8. OneEach'
  <2>1. MayCharge(t)
    BY <1>1 DEF MayCharge
  <2>2. \A u \in Task : MayCharge(u)' => MayCharge(u)
    BY <1>1, <2>1 DEF Inv, TypeOK, MayCharge, Goto, taskVars
  <2> QED BY <1>1, <1>6, <2>2, OneEachKept DEF Inv, taskVars
<1> QED BY <1>1, <1>6, <1>7, <1>8, CalmInv DEF Calm

\* The end of a call without a refund leaves no call that may charge anew.
LEMMA EndOneEach ==
    ASSUME Inv, NEW t \in Task, NEW result \in Settled, pc[t] # "idle", End(t, result),
           charges' = charges
    PROVE  OneEach'
<1>1. Owing' = Owing \ {t}
  BY EndEffect DEF Inv
<1>2. \A u \in Task : MayCharge(u)' => MayCharge(u)
  BY DEF Inv, TypeOK, End, Goto, MayCharge, Settled
<1> QED BY <1>1, <1>2, OneEachKept DEF Inv, End

\* An end of a call that owes nothing.
LEMMA EndInv ==
    ASSUME Inv, NEW t \in Task, NEW result \in Settled, pc[t] # "idle", End(t, result),
           t \notin Owing, cache' \in [Content -> Content \cup {None}],
           UNCHANGED quotaVars
    PROVE  Inv'
<1>1. TypeOK'
  BY EndTypeOK DEF Inv, TypeOK, quotaVars
<1>2. /\ Owing' = Owing /\ t \notin Delivered /\ t \in Task \ Delivered
      /\ Delivered' = Delivered \/ Delivered' = Delivered \cup {t}
      /\ Charged'
  BY EndEffect DEF Inv
<1>3. /\ Cardinality(Owing) \in Nat /\ Cardinality(Delivered) \in Nat
      /\ Cardinality(Delivered \cup {t}) = Cardinality(Delivered) + 1
  BY <1>2, Countable, SubsetsOfTask
<1>4. SpentIsAccounted'
  <2>1. /\ Cardinality(Owing') = Cardinality(Owing)
        /\ \/ Cardinality(Delivered') = Cardinality(Delivered)
           \/ Cardinality(Delivered') = Cardinality(Delivered) + 1
    BY <1>2, <1>3
  <2>2. spent' = spent /\ wasted' = wasted /\ spent \in Nat /\ wasted \in Nat
    BY DEF Inv, TypeOK, quotaVars
  <2> QED BY <1>3, <2>1, <2>2 DEF Inv, SpentIsAccounted
<1>5. OneEach'
  BY EndOneEach DEF quotaVars
<1> QED BY <1>1, <1>2, <1>4, <1>5 DEF Inv

\* An answer that settles what the call owes.
LEMMA DeliverInv ==
    ASSUME Inv, NEW t \in Task, pc[t] # "idle", Deliver(t),
           cache' \in [Content -> Content \cup {None}], UNCHANGED quotaVars
    PROVE  Inv'
<1>1. "completed" \in Settled /\ End(t, "completed")
  BY DEF Settled, Deliver
<1>2. CASE t \notin Owing
  BY <1>1, <1>2, EndInv
<1>3. CASE t \in Owing
  <2>1. TypeOK'
    BY <1>1, EndTypeOK DEF Inv, TypeOK, quotaVars
  <2>2. /\ Owing' = Owing \ {t} /\ t \in Task \ Delivered
        /\ Delivered' = Delivered \cup {t} /\ Charged'
    BY <1>1, EndEffect DEF Inv
  <2>3. /\ Cardinality(Owing) \in Nat /\ Cardinality(Delivered) \in Nat
        /\ Cardinality(Owing \ {t}) = Cardinality(Owing) - 1
        /\ Cardinality(Delivered \cup {t}) = Cardinality(Delivered) + 1
    BY <1>3, <2>2, Countable, SubsetsOfTask
  <2>4. SpentIsAccounted'
    BY <2>2, <2>3 DEF Inv, TypeOK, SpentIsAccounted, quotaVars
  <2>5. OneEach'
    BY <1>1, EndOneEach DEF quotaVars
  <2> QED BY <2>1, <2>2, <2>4, <2>5 DEF Inv
<1> QED BY <1>2, <1>3

\* A failure of a call that owes: the charge is refunded or lost.
LEMMA ThrowOwing ==
    ASSUME Inv, NEW t \in Owing, Throw(t),
           \/ /\ spent' = spent - 1 /\ wasted' = wasted
              /\ charges' = [charges EXCEPT ![t] = @ - 1]
           \/ spent' = spent /\ wasted' = wasted + 1 /\ charges' = charges
    PROVE  Inv'
<1>1. t \in Task /\ pc[t] # "idle" /\ "failed" \in Settled /\ End(t, "failed") /\ cache' = cache
  BY DEF Settled, Throw, Owing
<1>2. Owing' = Owing \ {t} /\ Delivered' = Delivered /\ Charged'
  BY <1>1, EndEffect DEF Inv
<1>3. /\ Cardinality(Owing) \in Nat /\ Cardinality(Delivered) \in Nat
      /\ Cardinality(Owing \ {t}) = Cardinality(Owing) - 1
      /\ Cardinality(Owing \ {t}) \in Nat
  BY <1>1, Countable, SubsetsOfTask
<1>4. SpentIsAccounted' /\ spent' \in Nat /\ wasted' \in Nat
  BY <1>2, <1>3 DEF Inv, TypeOK, SpentIsAccounted
<1>5. charges[t] >= 1 /\ charges' \in [Task -> Nat]
  BY <1>1 DEF Inv, TypeOK, OneEach
<1>6. TypeOK'
  BY <1>1, <1>4, <1>5, EndTypeOK DEF Inv, TypeOK
<1>7. OneEach'
  <2>1. CASE charges' = charges
    BY <1>1, <2>1, EndOneEach
  <2>2. CASE charges' = [charges EXCEPT ![t] = @ - 1]
    <3> SUFFICES ASSUME NEW u \in Task
                PROVE  /\ MayCharge(u)' => charges'[u] <= Reruns(u)'
                       /\ charges'[u] <= 1 + Reruns(u)'
                       /\ u \in Owing' => charges'[u] >= 1
      BY DEF OneEach
    <3>1. /\ MayCharge(u) => charges[u] <= Reruns(u)
          /\ charges[u] <= 1 + Reruns(u)
          /\ u \in Owing => charges[u] >= 1
      BY DEF Inv, OneEach
    <3>2. Reruns(u)' = Reruns(u) /\ Reruns(u) \in Int
      BY <1>1 DEF Reruns, End, Inv, TypeOK
    <3>3. MayCharge(u)' => MayCharge(u)
      BY <1>1 DEF Inv, TypeOK, End, Goto, MayCharge, Settled
    <3>4. /\ charges[u] \in Nat
          /\ charges'[u] = IF u = t THEN charges[u] - 1 ELSE charges[u]
      BY <2>2 DEF Inv, TypeOK
    <3> QED BY <1>2, <3>1, <3>2, <3>3, <3>4
  <2> QED BY <2>1, <2>2
<1> QED BY <1>2, <1>4, <1>6, <1>7 DEF Inv

LEMMA CallStepInv ==
    ASSUME Inv, NEW t \in Task, CallStep(t)
    PROVE  Inv'
<1>0. cache \in [Content -> Content \cup {None}]
  BY DEF Inv, TypeOK
<1>1. CASE Find(t)
  BY <1>1, FindInv
<1>2. CASE FindFails(t) \/ LookupFails(t) \/ ChargeRefused(t)
  <2>1. /\ pc[t] \in {"find", "lookup", "charge"} /\ End(t, "failed") /\ "failed" \in Settled
        /\ cache' = cache /\ UNCHANGED quotaVars
    BY <1>2 DEF FindFails, LookupFails, ChargeRefused, Throw, Settled
  <2>2. t \notin Owing
    BY <2>1 DEF Owing
  <2> QED BY <1>0, <2>1, <2>2, EndInv
<1>3. CASE LookupHit(t)
  BY <1>0, <1>3, DeliverInv DEF LookupHit
<1>4. CASE LookupMiss(t)
  <2> DEFINE label == IF llm[t] THEN "charge" ELSE "call"
  <2>1. /\ pc[t] = "lookup" /\ Goto(t, label)
        /\ UNCHANGED <<cv, cache, flagVars, taskVars, content, llm, spent, wasted, charges>>
    BY <1>4 DEF LookupMiss, quotaVars
  <2>2. label \in {"charge", "call"} /\ (label = "charge" => llm[t]) /\ (label = "call" => ~llm[t])
    OBVIOUS
  <2>3. t \notin Owing /\ llm' \in [Task -> BOOLEAN]
    BY <2>1 DEF Owing, Inv, TypeOK
  <2> HIDE DEF label
  <2>4. Owing' = Owing /\ Delivered' = Delivered /\ Charged'
    BY <2>1, <2>2, <2>3, GotoEffect DEF Inv
  <2>5. TypeOK'
    BY <2>1, <2>2, GotoTypeOK DEF Inv, TypeOK
  <2>6. OneEach'
    <3>1. MayCharge(t)
      BY <2>1 DEF MayCharge
    <3>2. \A u \in Task : MayCharge(u)' => MayCharge(u)
      BY <2>1, <3>1 DEF Inv, TypeOK, MayCharge, Goto, taskVars
    <3> QED BY <2>1, <2>4, <3>2, OneEachKept DEF Inv, taskVars
  <2> QED BY <2>1, <2>4, <2>5, <2>6, CalmInv DEF Calm
<1>5. CASE Charge(t)
  <2>1. /\ pc[t] = "charge" /\ Goto(t, "call") /\ spent' = spent + 1
        /\ charges' = [charges EXCEPT ![t] = @ + 1]
        /\ UNCHANGED <<cv, cache, flagVars, taskVars, content, llm, wasted>>
    BY <1>5 DEF Charge
  <2>2. llm[t] /\ t \in Task \ Owing /\ llm' \in [Task -> BOOLEAN]
    BY <2>1 DEF Inv, Charged, Owing, TypeOK
  <2>3. Owing' = Owing \cup {t} /\ Delivered' = Delivered /\ Charged'
    BY <2>1, <2>2, GotoEffect DEF Inv
  <2>4. TypeOK'
    BY <2>1, GotoTypeOK DEF Inv, TypeOK
  <2>5. /\ Cardinality(Owing) \in Nat /\ Cardinality(Delivered) \in Nat
        /\ Cardinality(Owing \cup {t}) = Cardinality(Owing) + 1
    BY <2>2, Countable, SubsetsOfTask
  <2>6. SpentIsAccounted'
    BY <2>1, <2>3, <2>5 DEF Inv, TypeOK, SpentIsAccounted
  <2>7. OneEach'
    <3> SUFFICES ASSUME NEW u \in Task
                PROVE  /\ MayCharge(u)' => charges'[u] <= Reruns(u)'
                       /\ charges'[u] <= 1 + Reruns(u)'
                       /\ u \in Owing' => charges'[u] >= 1
      BY DEF OneEach
    <3>1. /\ MayCharge(u) => charges[u] <= Reruns(u)
          /\ charges[u] <= 1 + Reruns(u)
          /\ u \in Owing => charges[u] >= 1
          /\ charges[u] \in Nat
          /\ charges'[u] = IF u = t THEN charges[u] + 1 ELSE charges[u]
      BY <2>1 DEF Inv, OneEach, TypeOK
    <3>2. Reruns(u)' = Reruns(u) /\ Reruns(u) \in Nat
      BY <2>1 DEF Reruns, taskVars, Inv, TypeOK
    <3>3. CASE u # t
      <4>1. MayCharge(u)' => MayCharge(u)
        BY <2>1, <3>3 DEF MayCharge, Goto, Inv, TypeOK, taskVars
      <4> QED BY <2>3, <3>1, <3>2, <3>3, <4>1
    <3>4. CASE u = t
      <4>1. MayCharge(t)
        BY <2>1 DEF MayCharge
      <4>2. state[t] = "active"
        BY <2>1, CallIsActive DEF Inv
      <4>3. ~MayCharge(t)'
        BY <2>1, <4>2 DEF MayCharge, Goto, Inv, TypeOK, taskVars
      <4> QED BY <3>1, <3>2, <3>4, <4>1, <4>3
    <3> QED BY <3>3, <3>4
  <2> QED BY <2>3, <2>4, <2>6, <2>7 DEF Inv
<1>6. ASSUME pc[t] = "call", llm[t], NEW label \in {"store", "refund"}, Goto(t, label),
             UNCHANGED <<cv, cache, flagVars, taskVars, content, llm, quotaVars>>
      PROVE  Inv'
  <2>1. t \in Owing /\ llm' \in [Task -> BOOLEAN]
    BY <1>6 DEF Owing, Inv, TypeOK
  <2>2. Owing' = Owing /\ Delivered' = Delivered /\ Charged'
    BY <1>6, <2>1, GotoEffect DEF Inv
  <2>3. TypeOK'
    BY <1>6, GotoTypeOK DEF Inv, TypeOK, quotaVars
  <2>4. OneEach'
    <3>1. \A u \in Task : MayCharge(u)' => MayCharge(u)
      BY <1>6 DEF Inv, TypeOK, MayCharge, Goto, taskVars
    <3> QED BY <1>6, <2>2, <3>1, OneEachKept DEF Inv, taskVars, quotaVars
  <2> QED BY <1>6, <2>2, <2>3, <2>4, CalmInv DEF Calm, quotaVars
<1>7. CASE Answered(t)
  <2>1. CASE llm[t] /\ kind[t] = "ai_analyze"
    BY <1>6, <1>7, <2>1 DEF Answered
  <2>2. CASE ~(llm[t] /\ kind[t] = "ai_analyze")
    BY <1>0, <1>7, <2>2, DeliverInv DEF Answered
  <2> QED BY <2>1, <2>2
<1>8. CASE CallFails(t)
  <2>1. CASE llm[t]
    BY <1>6, <1>8, <2>1 DEF CallFails, ToRefund
  <2>2. CASE ~llm[t]
    <3>1. t \notin Owing /\ "failed" \in Settled
      BY <2>2 DEF Owing, Settled
    <3> QED BY <1>0, <1>8, <2>2, <3>1, EndInv DEF CallFails, ToRefund, Throw
  <2> QED BY <2>1, <2>2
<1>9. CASE Refund(t) \/ RefundFails(t)
  <2>1. t \in Owing
    BY <1>9 DEF Refund, RefundFails, Owing, Inv, Charged
  <2> QED BY <1>9, <2>1, ThrowOwing DEF Refund, RefundFails
<1>10. CASE Store(t)
  <2>1. content[t] \in Content \cup {None}
    BY DEF Inv, TypeOK
  <2>2. cache' \in [Content -> Content \cup {None}]
    BY <1>0, <1>10, <2>1 DEF Store
  <2> QED BY <1>10, <2>2, DeliverInv DEF Store
<1>11. CASE StoreFails(t)
  <2>1. t \in Owing
    BY <1>11 DEF StoreFails, Owing, Inv, Charged
  <2> QED BY <1>11, <2>1, ThrowOwing DEF StoreFails
<1> QED
  BY <1>1, <1>2, <1>3, <1>4, <1>5, <1>7, <1>8, <1>9, <1>10, <1>11 DEF CallStep

LEMMA NextInv == Inv /\ [Next]_vars => Inv'
<1> SUFFICES ASSUME Inv, [Next]_vars PROVE Inv'
  OBVIOUS
<1>0. /\ cv \in Content \cup {None} /\ cache \in [Content -> Content \cup {None}]
      /\ client \in {"none", "mock", "failed", "live"} /\ flag \in BOOLEAN
  BY DEF Inv, TypeOK
<1>1. CASE BootAny
  BY <1>0, <1>1, OutsideInv DEF BootAny, Boot
<1>2. CASE Synchronize
  BY <1>0, <1>2, OutsideInv DEF Synchronize
<1>3. CASE RemoveCv
  BY <1>0, <1>3, OutsideInv DEF RemoveCv, flagVars
<1>4. CASE Crash
  BY <1>4, CrashInv
<1>5. ASSUME NEW t \in Job, ProcessJob(t) PROVE Inv'
  <2>1. t \in Task /\ Begin(t) /\ kind' = kind /\ state[t] = "waiting"
    BY <1>5 DEF ProcessJob, Task
  <2>2. kind' \in [Task -> Kind \cup {None}] /\ kind'[t] # None
    BY <2>1 DEF Inv, TypeOK, Settled
  <2> QED BY <2>1, <2>2, BeginInv
<1>6. ASSUME NEW t \in Request, NEW k \in Kinds[t], Ask(t, k) PROVE Inv'
  <2>1. /\ t \in Task /\ Begin(t) /\ kind' = [kind EXCEPT ![t] = k] /\ state[t] = "new"
        /\ k \in Kind /\ k # None
    BY <1>6, AiTasksAssumption DEF Ask, Task
  <2>2. /\ kind' \in [Task -> Kind \cup {None}] /\ kind'[t] # None
        /\ \A u \in Task : u # t => kind'[u] = kind[u]
    BY <2>1 DEF Inv, TypeOK
  <2> QED BY <2>1, <2>2, BeginInv
<1>7. ASSUME NEW h \in Content, Edit(h) \/ Expire(h) PROVE Inv'
  BY <1>0, <1>7, OutsideInv DEF Edit, Expire, flagVars
<1>8. CASE UNCHANGED vars
  BY <1>0, <1>8, OutsideInv DEF vars, flagVars
<1> QED
  BY <1>1, <1>2, <1>3, <1>4, <1>5, <1>6, <1>7, <1>8, StalledCheckInv, EnqueueInv, CallStepInv
     DEF Next

-----------------------------------------------------------------------------
(* The theorems. *)

\* Every state of jobs, requests and calls has its types; in particular the
\* quota in use never falls below zero, and a job is active while, and only
\* while, a call runs for it.
THEOREM TypeCorrect == Spec => []TypeOK
<1>1. Inv => TypeOK
  BY DEF Inv
<1> QED BY InitInv, NextInv, <1>1, PTL DEF Spec

\* AiService and QueueService: every charge in use is for an answer that was
\* delivered, for a call still under way, or was lost with a crash, with an
\* analysis that could not be stored or with a refund that failed, wherever the
\* flag flips, the database fails and the process dies.
THEOREM ChargesAccounted == Spec => []SpentIsAccounted
<1>1. Inv => SpentIsAccounted
  BY DEF Inv
<1> QED BY InitInv, NextInv, <1>1, PTL DEF Spec

\* QueueService.addJob asks for one attempt, so a job takes one charge, and one
\* more for each time the worker found it stalled: what fails after the charge,
\* be it the refund or the storing of the analysis, does not charge again.
THEOREM ChargedOnce == Spec => []ChargedOncePerRun
<1>1. Inv => ChargedOncePerRun
  BY DEF Inv, OneEach, ChargedOncePerRun
<1> QED BY InitInv, NextInv, <1>1, PTL DEF Spec

=============================================================================
