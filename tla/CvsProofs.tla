------------------------------- MODULE CvsProofs -------------------------------
(***************************************************************************)
(* Proofs about Cvs, for any number of requests, CVs and titles.           *)
(*                                                                         *)
(* Why concurrent updates cannot leave more default CVs than there are     *)
(* requests: give every default CV to the request that set its flag        *)
(* (Givers).  A request that makes another CV the default began to clear   *)
(* the flags after it had set one itself, if it ever had, so it clears its *)
(* own, and every slot holds one at most.  What a request has not cleared, *)
(* and does not see to be cleared, was set by others meanwhile.            *)
(***************************************************************************)
EXTENDS Cvs, FiniteSetTheorems, TLAPS

\* What the lookups of a slug have at hand and leave behind.
Locals ==
    \A s \in Slot :
        /\ Looking(s) => title[s] \in Title
        /\ pc[s] = "insert" => chosen[s] # None
        /\ pc[s] = "idle" => chosen[s] = None

\* A request that has cleared the flags and will set one.
Setting(s) == pc[s] = "write" /\ flag[s] = "set"

\* giver[s] is the CV that slot s has made a default, and no other slot since.
Givers(giver) ==
    /\ giver \in [Slot -> Cv \cup {None}]
    /\ \A s, t \in Slot : giver[s] = giver[t] /\ giver[s] # None => s = t
    /\ \A d \in default : \E s \in Slot : giver[s] = d
    /\ \A s \in Slot : Setting(s) =>
           \A d \in default \ {target[s]} :
               d \in toClear[s] \cup cleared[s] \/ \E t \in Slot \ {s} : giver[t] = d

DefaultsGiven == \E giver : Givers(giver)

Inv == TypeOK /\ Locals

-----------------------------------------------------------------------------
(* Type correctness. *)

LEMMA Constants ==
    /\ None \notin Cv /\ None \notin Title /\ None \notin Slugs
    /\ MaxAttempts \in Nat /\ MaxAttempts >= 1
BY CvsAssumption

LEMMA InitInv == Init => Inv
BY Constants DEF Init, Inv, TypeOK, Locals, Looking, Rows

\* A request that begins.
LEMMA StartInv ==
    ASSUME Inv, NEW s \in Slot, NEW c \in Cv, NEW t \in Title \cup {None},
           NEW f \in {"set", "unset", "absent"},
           NEW label \in {"lookNew", "lookOwn", "clear", "write", "delete"},
           label \in {"lookNew", "lookOwn"} => t # None,
           Start(s, label, c, t, f)
    PROVE  Inv'
<1>1. /\ pc' = [pc EXCEPT ![s] = label] /\ target' = [target EXCEPT ![s] = c]
      /\ title' = [title EXCEPT ![s] = t] /\ flag' = [flag EXCEPT ![s] = f]
      /\ UNCHANGED <<slug, default, tries, chosen, toClear, cleared, disturbed>>
      /\ pc[s] = "idle"
  BY DEF Start, dbVars, txVars
<1>2. TypeOK'
  BY <1>1, Constants DEF Inv, TypeOK, Rows
<1>3. Locals'
  BY <1>1 DEF Inv, TypeOK, Locals, Looking
<1> QED BY <1>2, <1>3 DEF Inv

\* A request that ends.
LEMMA FinishInv ==
    ASSUME Inv, NEW s \in Slot, NEW wrote \in BOOLEAN, Finish(s, wrote),
           slug' \in [Cv -> Slugs \cup {None}],
           default' \subseteq {c \in Cv : slug'[c] # None}
    PROVE  Inv'
<1>1. /\ pc' = [pc EXCEPT ![s] = "idle"] /\ target' = [target EXCEPT ![s] = None]
      /\ title' = [title EXCEPT ![s] = None] /\ flag' = [flag EXCEPT ![s] = "absent"]
      /\ tries' = [tries EXCEPT ![s] = 0] /\ chosen' = [chosen EXCEPT ![s] = None]
      /\ toClear' = [toClear EXCEPT ![s] = {}] /\ cleared' = [cleared EXCEPT ![s] = {}]
  BY DEF Finish
<1>2. disturbed' \subseteq Slot
  BY DEF Finish, OnSlugs, Inv, TypeOK
<1>3. TypeOK'
  <2>1. tries' \in [Slot -> 0 .. MaxAttempts]
    BY <1>1, Constants DEF Inv, TypeOK
  <2>2. \A t \in Slot : pc'[t] = "idle" <=> target'[t] = None
    BY <1>1 DEF Inv, TypeOK
  <2> QED BY <1>1, <1>2, <2>1, <2>2 DEF Inv, TypeOK, Rows
<1>4. Locals'
  BY <1>1 DEF Inv, TypeOK, Locals, Looking
<1> QED BY <1>3, <1>4 DEF Inv

LEMMA RejectInv ==
    ASSUME Inv, NEW s \in Slot, Reject(s)
    PROVE  Inv'
<1>1. Finish(s, FALSE) /\ slug' = slug /\ default' = default
  BY DEF Reject, dbVars
<1> QED BY <1>1, FinishInv DEF Inv, TypeOK, Rows

\* A request that has chosen a slug.
LEMMA ChooseInv ==
    ASSUME Inv, NEW s \in Slot, NEW g \in Slugs, Looking(s), Choose(s, g)
    PROVE  Inv'
<1>1. /\ chosen' = [chosen EXCEPT ![s] = g] /\ title' = [title EXCEPT ![s] = None]
      /\ tries' = [tries EXCEPT ![s] = 0]
      /\ pc' = [pc EXCEPT ![s] = AfterLook(s, flag[s])]
      /\ UNCHANGED <<slug, default, target, flag, toClear, cleared, disturbed>>
      /\ AfterLook(s, flag[s]) \in {"insert", "clear", "write"} /\ pc[s] # "idle"
  BY DEF Choose, dbVars, txVars, AfterLook, Looking
<1>2. TypeOK'
  <2>1. tries' \in [Slot -> 0 .. MaxAttempts]
    BY <1>1, Constants DEF Inv, TypeOK
  <2> QED BY <1>1, <2>1 DEF Inv, TypeOK, Rows
<1>3. Locals'
  BY <1>1, Constants DEF Inv, TypeOK, Locals, Looking
<1> QED BY <1>2, <1>3 DEF Inv

LEMMA CandidateInv ==
    ASSUME Inv, NEW s \in Slot, CandidateTaken(s) \/ CandidateFree(s)
    PROVE  Inv'
<1>1. Looking(s) /\ tries[s] < MaxAttempts /\ title[s] \in Title /\ tries[s] \in 0 .. MaxAttempts
  BY DEF CandidateTaken, CandidateFree, Inv, Locals, TypeOK
<1>2. CASE CandidateTaken(s)
  <2>1. /\ tries' = [tries EXCEPT ![s] = @ + 1]
        /\ UNCHANGED <<slug, default, pc, target, title, flag, chosen, toClear, cleared, disturbed>>
    BY <1>2 DEF CandidateTaken, dbVars, txVars
  <2>2. tries' \in [Slot -> 0 .. MaxAttempts]
    BY <1>1, <2>1, Constants DEF Inv, TypeOK
  <2> QED BY <2>1, <2>2 DEF Inv, TypeOK, Locals, Looking, Rows
<1>3. CASE CandidateFree(s)
  <2>1. <<title[s], tries[s]>> \in Slugs
    BY <1>1, Constants DEF Slugs
  <2> QED BY <1>1, <1>3, <2>1, ChooseInv DEF CandidateFree
<1> QED BY <1>2, <1>3

LEMMA AllTakenInv ==
    ASSUME Inv, NEW s \in Slot, NEW now \in Stamp, AllTaken(s, now)
    PROVE  Inv'
<1>1. Looking(s) /\ <<title[s], now>> \in Slugs /\ Choose(s, <<title[s], now>>)
  BY DEF AllTaken, Inv, Locals, Slugs
<1> QED BY <1>1, ChooseInv

\* The insert, the update and the delete of a row.
LEMMA WriteInv ==
    ASSUME Inv, NEW s \in Slot, Insert(s) \/ Write(s) \/ Delete(s)
    PROVE  Inv'
<1>1. pc[s] \in {"insert", "write", "delete"}
  BY DEF Insert, Write, ReadyToWrite, Delete
<1>2. target[s] \in Cv /\ chosen[s] \in Slugs \cup {None}
  BY <1>1 DEF Inv, TypeOK
<1>3. CASE Insert(s)
  <2>1. /\ slug' = [slug EXCEPT ![target[s]] = chosen[s]] /\ default' = default
        /\ Finish(s, TRUE) /\ chosen[s] # None
    BY <1>3 DEF Insert, Inv, Locals
  <2>2. /\ slug' \in [Cv -> Slugs \cup {None}]
        /\ default' \subseteq {c \in Cv : slug'[c] # None}
    BY <1>2, <2>1 DEF Inv, TypeOK, Rows
  <2> QED BY <2>1, <2>2, FinishInv
<1>4. CASE Write(s)
  <2>1. /\ slug' = IF chosen[s] = None THEN slug ELSE [slug EXCEPT ![target[s]] = chosen[s]]
        /\ default' \subseteq default \cup {target[s]} /\ slug[target[s]] # None
        /\ Finish(s, chosen[s] # None)
    BY <1>4 DEF Write, NewDefaults, Rows
  <2>2. /\ slug' \in [Cv -> Slugs \cup {None}]
        /\ default' \subseteq {c \in Cv : slug'[c] # None}
    BY <1>2, <2>1 DEF Inv, TypeOK, Rows
  <2> QED BY <2>1, <2>2, FinishInv
<1>5. CASE Delete(s)
  <2>1. /\ slug' = [slug EXCEPT ![target[s]] = None] /\ default' = default \ {target[s]}
        /\ Finish(s, TRUE)
    BY <1>5 DEF Delete
  <2>2. /\ slug' \in [Cv -> Slugs \cup {None}]
        /\ default' \subseteq {c \in Cv : slug'[c] # None}
    BY <1>2, <2>1 DEF Inv, TypeOK, Rows
  <2> QED BY <2>1, <2>2, FinishInv
<1> QED BY <1>3, <1>4, <1>5

\* The steps of updateMany.
LEMMA ClearInv ==
    ASSUME Inv, NEW s \in Slot, ClearOthers(s) \/ \E c \in Cv : ClearRow(s, c)
    PROVE  Inv'
<1>1. CASE ClearOthers(s)
  BY <1>1 DEF Inv, TypeOK, Locals, Looking, Rows, ClearOthers, dbVars, slugVars
<1>2. ASSUME NEW c \in Cv, ClearRow(s, c) PROVE Inv'
  BY <1>2 DEF Inv, TypeOK, Locals, Looking, Rows, ClearRow, dbVars, slugVars
<1> QED BY <1>1, <1>2

LEMMA NextInv == Inv /\ [Next]_vars => Inv'
<1> SUFFICES ASSUME Inv, [Next]_vars PROVE Inv'
  OBVIOUS
<1>1. ASSUME NEW s \in Slot, NEW c \in Cv, NEW t \in Title, Create(s, c, t) \/ Duplicate(s, c, t)
      PROVE  Inv'
  <2>1. Start(s, "lookNew", c, t, "absent") /\ t # None
    BY <1>1, Constants DEF Create, Duplicate
  <2> QED BY <2>1, StartInv
<1>2. ASSUME NEW s \in Slot, NEW c \in Cv, NEW dto \in Dtos, Update(s, c, dto[1], dto[2])
      PROVE  Inv'
  <2>1. dto[1] \in Title \cup {None} /\ dto[2] \in {"set", "unset", "absent"}
    BY CvsAssumption
  <2>2. PICK label \in {"lookOwn", "clear", "write"} :
            /\ label = "lookOwn" => dto[1] # None
            /\ Start(s, label, c, dto[1], dto[2])
    BY <1>2 DEF Update, AfterLook, Start
  <2> QED BY <2>1, <2>2, StartInv
<1>3. ASSUME NEW s \in Slot, NEW c \in Cv, Remove(s, c) PROVE Inv'
  BY <1>3, StartInv DEF Remove
<1>4. ASSUME NEW s \in Slot, RequestStep(s) \/ Fail(s) PROVE Inv'
  <2>1. CASE InsertConflict(s) \/ WriteFails(s) \/ DeleteFails(s) \/ DeadlockVictim(s) \/ Fail(s)
    BY <2>1, RejectInv DEF InsertConflict, WriteFails, DeleteFails, DeadlockVictim, Fail
  <2> QED BY <1>4, <2>1, CandidateInv, AllTakenInv, WriteInv, ClearInv DEF RequestStep
<1>5. CASE UNCHANGED vars
  BY <1>5 DEF vars, dbVars, requestVars, slugVars, txVars, Inv, TypeOK, Locals, Looking, Rows
<1> QED BY <1>1, <1>2, <1>3, <1>4, <1>5 DEF Next

\* Every state of the CVs and their requests has its types; in particular only
\* a CV that is there is a default.
THEOREM TypeCorrect == Spec => []TypeOK
<1>1. Inv => TypeOK
  BY DEF Inv
<1> QED BY InitInv, NextInv, <1>1, PTL DEF Spec

-----------------------------------------------------------------------------
(* Default CVs. *)

\* Steps that set no flag and are not the start of an updateMany.
LEMMA GiversKept ==
    ASSUME NEW giver, Givers(giver), default' \subseteq default,
           \A s \in Slot : Setting(s)' =>
               /\ Setting(s) /\ target'[s] = target[s]
               /\ \A d \in default' : d \in toClear[s] \cup cleared[s] =>
                                          d \in toClear'[s] \cup cleared'[s]
    PROVE  Givers(giver)'
BY DEF Givers

\* The start of an updateMany: it sees every flag that is set.
LEMMA GiversSeen ==
    ASSUME NEW giver, Givers(giver), Inv, NEW s \in Slot, ClearOthers(s)
    PROVE  Givers(giver)'
<1>1. /\ UNCHANGED <<default, target, flag, cleared>>
      /\ toClear'[s] = default \ {target[s]}
      /\ \A t \in Slot : t # s => pc'[t] = pc[t] /\ toClear'[t] = toClear[t]
  BY DEF ClearOthers, dbVars, Inv, TypeOK
<1>2. ASSUME NEW t \in Slot, Setting(t)', NEW d \in default \ {target[t]}
      PROVE  d \in toClear'[t] \cup cleared'[t] \/ \E u \in Slot \ {t} : giver[u] = d
  <2>1. CASE t = s
    BY <1>1, <1>2, <2>1
  <2>2. CASE t # s
    <3>1. Setting(t)
      BY <1>1, <1>2, <2>2 DEF Setting
    <3> QED BY <1>1, <1>2, <2>2, <3>1 DEF Givers
  <2> QED BY <2>1, <2>2
<1> QED BY <1>1, <1>2 DEF Givers

\* The update that sets a flag: its slot gives up what it gave before, which it
\* has cleared, and any other slot what is now given anew.
LEMMA GiverWrites ==
    ASSUME NEW giver, Givers(giver), Inv, NEW s \in Slot, Write(s), flag[s] = "set"
    PROVE  DefaultsGiven'
<1> SUFFICES ASSUME NEW c, c = target[s] PROVE DefaultsGiven'
  OBVIOUS
<1> DEFINE new == [t \in Slot |-> IF t = s THEN c
                                  ELSE IF giver[t] = c THEN None ELSE giver[t]]
<1>1. /\ Setting(s) /\ toClear[s] = {} /\ c \in Cv /\ c # None
      /\ default' = (default \ cleared[s]) \cup {c}
      /\ c = target[s]
  BY Constants DEF Write, ReadyToWrite, Setting, NewDefaults, Rows
<1>2. /\ pc'[s] = "idle"
      /\ \A t \in Slot : t # s => /\ pc'[t] = pc[t] /\ flag'[t] = flag[t]
                                  /\ target'[t] = target[t] /\ toClear'[t] = toClear[t]
                                  /\ cleared'[t] = cleared[t]
  BY DEF Write, Finish, Inv, TypeOK
<1>3. \A d \in default' \ {c} : \E t \in Slot \ {s} : new[t] = d
  <2> TAKE d \in default' \ {c}
  <2>1. d \in default \ {c} /\ d \notin toClear[s] \cup cleared[s]
    BY <1>1
  <2>2. PICK t \in Slot \ {s} : giver[t] = d
    BY <1>1, <2>1 DEF Givers
  <2> QED BY <2>1, <2>2
<1>4. new \in [Slot -> Cv \cup {None}]
  BY <1>1 DEF Givers
<1>5. \A t, u \in Slot : new[t] = new[u] /\ new[t] # None => t = u
  <2> TAKE t, u \in Slot
  <2> SUFFICES ASSUME new[t] = new[u], new[t] # None PROVE t = u
    OBVIOUS
  <2>1. CASE t # s /\ u # s
    BY <2>1 DEF Givers
  <2>2. CASE t = s \/ u = s
    BY <1>1, <2>2
  <2> QED BY <2>1, <2>2
<1>6. \A d \in default' : \E t \in Slot : new[t] = d
  <2>1. new[s] = c
    OBVIOUS
  <2> HIDE DEF new
  <2> QED BY <1>3, <2>1
<1>7. ASSUME NEW t \in Slot, Setting(t)', NEW d \in default' \ {target'[t]}
      PROVE  d \in toClear'[t] \cup cleared'[t] \/ \E u \in Slot \ {t} : new[u] = d
  <2>1. t # s /\ Setting(t) /\ target'[t] = target[t]
    BY <1>2, <1>7 DEF Setting
  <2>2. CASE d = c
    BY <2>1, <2>2
  <2>3. CASE d # c
    <3>1. d \in default \ {target[t]}
      BY <1>1, <1>7, <2>1, <2>3
    <3>2. CASE d \in toClear[t] \cup cleared[t]
      BY <1>2, <2>1, <3>2
    <3>3. CASE d \notin toClear[t] \cup cleared[t]
      <4>1. PICK u \in Slot \ {t} : giver[u] = d
        BY <2>1, <3>1, <3>3 DEF Givers
      <4>2. PICK v \in Slot \ {s} : new[v] = d
        BY <1>3, <1>7, <2>3
      <4>3. d # None
        BY <3>1, Constants DEF Inv, TypeOK, Rows
      <4>4. giver[v] = d
        BY <4>2, <4>3
      <4>5. u = v
        BY <4>1, <4>3, <4>4 DEF Givers
      <4> QED BY <4>1, <4>2, <4>5
    <3> QED BY <3>2, <3>3
  <2> QED BY <2>2, <2>3
<1> HIDE DEF new
<1>8. Givers(new)'
  BY <1>4, <1>5, <1>6, <1>7 DEF Givers
<1> QED BY <1>8 DEF DefaultsGiven

LEMMA InitDefaultsGiven == Init => DefaultsGiven
<1> SUFFICES ASSUME Init PROVE DefaultsGiven
  OBVIOUS
<1>1. Givers([s \in Slot |-> None])
  BY DEF Init, Givers, Setting
<1> QED BY <1>1 DEF DefaultsGiven

\* An end of a request that sets no flag.
LEMMA FinishGivers ==
    ASSUME Inv, NEW giver, Givers(giver), NEW s \in Slot, NEW wrote, Finish(s, wrote),
           default' \subseteq default
    PROVE  Givers(giver)'
<1>1. \A t \in Slot : IF t = s THEN pc'[t] = "idle"
                      ELSE /\ pc'[t] = pc[t] /\ flag'[t] = flag[t] /\ target'[t] = target[t]
                           /\ toClear'[t] = toClear[t] /\ cleared'[t] = cleared[t]
  BY DEF Finish, Inv, TypeOK
<1> QED BY <1>1, GiversKept DEF Setting

LEMMA NextDefaultsGiven == Inv /\ DefaultsGiven /\ [Next]_vars => DefaultsGiven'
<1> SUFFICES ASSUME Inv, [Next]_vars, NEW giver, Givers(giver) PROVE DefaultsGiven'
  BY DEF DefaultsGiven
<1>1. Givers(giver)' => DefaultsGiven'
  BY DEF DefaultsGiven
<1>2. ASSUME NEW s \in Slot, Write(s) PROVE DefaultsGiven'
  <2>1. CASE flag[s] = "set"
    BY <1>2, <2>1, GiverWrites
  <2>2. CASE flag[s] # "set"
    BY <1>1, <1>2, <2>2, FinishGivers DEF Write, NewDefaults
  <2> QED BY <2>1, <2>2
<1>3. ASSUME NEW s \in Slot, ClearOthers(s) PROVE DefaultsGiven'
  BY <1>1, <1>3, GiversSeen
<1>4. ASSUME NEW s \in Slot, NEW c \in Cv, ClearRow(s, c) PROVE DefaultsGiven'
  <2>1. /\ UNCHANGED <<default, pc, target, flag>>
        /\ \A t \in Slot, d \in default : d \in toClear[t] \cup cleared[t] =>
                                              d \in toClear'[t] \cup cleared'[t]
    BY <1>4 DEF ClearRow, dbVars, Inv, TypeOK
  <2> QED BY <1>1, <2>1, GiversKept DEF Setting
<1>5. ASSUME NEW s \in Slot, Insert(s) \/ Delete(s) PROVE DefaultsGiven'
  BY <1>1, <1>5, FinishGivers DEF Insert, Delete
<1>6. ASSUME NEW s \in Slot, Reject(s) PROVE DefaultsGiven'
  BY <1>1, <1>6, FinishGivers DEF Reject, dbVars
<1>7. ASSUME NEW s \in Slot, NEW g, Looking(s), Choose(s, g) PROVE DefaultsGiven'
  <2>1. /\ UNCHANGED <<default, target, flag, toClear, cleared>>
        /\ \A t \in Slot : t # s => pc'[t] = pc[t]
        /\ flag[s] = "set" => pc'[s] # "write"
    BY <1>7 DEF Choose, AfterLook, dbVars, txVars, Inv, TypeOK
  <2>2. \A t \in Slot : Setting(t)' => Setting(t)
    BY <2>1 DEF Setting
  <2> QED BY <1>1, <2>1, <2>2, GiversKept
<1>8. ASSUME NEW s \in Slot, NEW c, NEW t, NEW f, NEW label, Start(s, label, c, t, f),
             f = "set" => label # "write"
      PROVE  DefaultsGiven'
  <2>1. /\ UNCHANGED <<default, toClear, cleared>>
        /\ \A u \in Slot : u # s => pc'[u] = pc[u] /\ flag'[u] = flag[u] /\ target'[u] = target[u]
        /\ flag'[s] = "set" => pc'[s] # "write"
    BY <1>8 DEF Start, dbVars, txVars, Inv, TypeOK
  <2>2. \A u \in Slot : Setting(u)' => Setting(u) /\ target'[u] = target[u]
    BY <2>1 DEF Setting
  <2> QED BY <1>1, <2>1, <2>2, GiversKept
<1>9. ASSUME NEW s \in Slot, CandidateTaken(s) PROVE DefaultsGiven'
  <2>1. UNCHANGED <<default, pc, target, flag, toClear, cleared>>
    BY <1>9 DEF CandidateTaken, dbVars, txVars
  <2> QED BY <1>1, <2>1, GiversKept DEF Setting
<1>10. CASE UNCHANGED vars
  <2>1. UNCHANGED <<default, pc, target, flag, toClear, cleared>>
    BY <1>10 DEF vars, dbVars, requestVars, txVars
  <2> QED BY <1>1, <2>1, GiversKept DEF Setting
<1>11. ASSUME NEW s \in Slot, NEW c \in Cv, NEW t, NEW f, Update(s, c, t, f) PROVE DefaultsGiven'
  <2>1. PICK label : Start(s, label, c, t, f) /\ (f = "set" => label # "write")
    BY <1>11 DEF Update, AfterLook
  <2> QED BY <1>8, <2>1
<1>12. ASSUME NEW s \in Slot, NEW c \in Cv, NEW t, Create(s, c, t) \/ Duplicate(s, c, t)
      PROVE  DefaultsGiven'
  BY <1>8, <1>12 DEF Create, Duplicate
<1>13. ASSUME NEW s \in Slot, NEW c \in Cv, Remove(s, c) PROVE DefaultsGiven'
  BY <1>8, <1>13 DEF Remove
<1>14. ASSUME NEW s \in Slot, CandidateFree(s) \/ \E now \in Stamp : AllTaken(s, now)
       PROVE  DefaultsGiven'
  BY <1>7, <1>14 DEF CandidateFree, AllTaken
<1>15. ASSUME NEW s \in Slot, InsertConflict(s) \/ WriteFails(s) \/ DeleteFails(s)
                              \/ DeadlockVictim(s) \/ Fail(s)
       PROVE  DefaultsGiven'
  BY <1>6, <1>15 DEF InsertConflict, WriteFails, DeleteFails, DeadlockVictim, Fail
<1> QED
  BY <1>2, <1>3, <1>4, <1>5, <1>9, <1>10, <1>11, <1>12, <1>13, <1>14, <1>15
     DEF Next, RequestStep

\* CvService.update: concurrent updates may each leave a default CV, but never
\* more of them than there are requests in flight at a time.
THEOREM DefaultsAreBounded == Spec => []DefaultsBounded
<1>1. Inv /\ DefaultsGiven => DefaultsBounded
  <2> SUFFICES ASSUME Inv, NEW giver, Givers(giver) PROVE DefaultsBounded
    BY DEF DefaultsGiven
  <2> DEFINE setter == [d \in default |-> CHOOSE s \in Slot : giver[s] = d]
  <2>1. \A d \in default : setter[d] \in Slot /\ giver[setter[d]] = d
    BY DEF Givers
  <2>2. setter \in Injection(default, Slot)
    <3>1. setter \in [default -> Slot]
      BY <2>1
    <3>2. \A d, e \in default : setter[d] = setter[e] => d = e
      BY <2>1
    <3> HIDE DEF setter
    <3> QED BY <3>1, <3>2 DEF Injection, IsInjective
  <2> HIDE DEF setter
  <2>3. IsFiniteSet(Slot)
    BY CvsAssumption
  <2> QED BY <2>2, <2>3, FS_Injection DEF DefaultsBounded
<1> QED BY InitInv, NextInv, InitDefaultsGiven, NextDefaultsGiven, <1>1, PTL DEF Spec

-----------------------------------------------------------------------------
(* A default is not lost, and a slug that was free stays free. *)

\* CvService.update: the flags are cleared only where one is set.
THEOREM DefaultIsNotLost == Spec => DefaultNotLost
<1>1. Inv /\ [Next]_vars =>
        [default # {} /\ default' = {} =>
             \E c \in default : slug'[c] = None \/ \E s \in Slot :
                 target[s] = c /\ flag[s] = "unset" /\ pc'[s] = "idle"]_vars
  <2> SUFFICES ASSUME Inv, [Next]_vars, default # {}, default' = {}
               PROVE  \E c \in default : slug'[c] = None \/ \E s \in Slot :
                          target[s] = c /\ flag[s] = "unset" /\ pc'[s] = "idle"
    OBVIOUS
  <2>1. ASSUME NEW s \in Slot, Write(s)
        PROVE  target[s] \in default /\ flag[s] = "unset" /\ pc'[s] = "idle"
    <3>1. default' = NewDefaults(s) /\ pc'[s] = "idle"
      BY <2>1 DEF Write, Finish, Inv, TypeOK
    <3> QED BY <3>1 DEF NewDefaults
  <2>2. ASSUME NEW s \in Slot, Delete(s)
        PROVE  target[s] \in default /\ slug'[target[s]] = None
    BY <2>2 DEF Delete, Rows, Inv, TypeOK
  <2>3. \E s \in Slot : Write(s) \/ Delete(s)
    BY DEF Next, RequestStep, vars, dbVars, Create, Duplicate, Update, Remove, Start,
           CandidateTaken, CandidateFree, AllTaken, Choose, Insert, InsertConflict,
           ClearOthers, ClearRow, WriteFails, DeleteFails, DeadlockVictim, Fail, Reject
  <2> QED BY <2>1, <2>2, <2>3
<1> QED BY InitInv, NextInv, <1>1, PTL DEF Spec, DefaultNotLost

\* A step that writes no row, and chooses no slug.
LEMMA SlugKept ==
    ASSUME Inv, AloneKeepsSlug, UNCHANGED slug,
           \A s \in Slot : chosen'[s] # None /\ s \notin disturbed' =>
               chosen'[s] = chosen[s] /\ target'[s] = target[s] /\ s \notin disturbed
    PROVE  AloneKeepsSlug'
BY DEF AloneKeepsSlug, Free

\* A step that writes a row: it disturbs all who have chosen.
LEMMA SlugDisturbed ==
    ASSUME Inv, NEW s \in Slot, Finish(s, TRUE)
    PROVE  AloneKeepsSlug'
<1>1. ASSUME NEW t \in Slot, chosen'[t] # None PROVE t \in disturbed'
  <2>1. t # s /\ chosen[t] # None
    BY <1>1 DEF Finish, Inv, TypeOK
  <2> QED BY <2>1 DEF Finish, OnSlugs
<1> QED BY <1>1 DEF AloneKeepsSlug

\* CvService.create, update and duplicate: to a request that no other one
\* overlaps, ensureUniqueSlug gives a slug that is not taken when it is used.
THEOREM LoneRequestKeepsSlug == Spec => []AloneKeepsSlug
<1>1. Init => AloneKeepsSlug
  BY DEF Init, AloneKeepsSlug
<1>2. Inv /\ AloneKeepsSlug /\ [Next]_vars => AloneKeepsSlug'
  <2> SUFFICES ASSUME Inv, AloneKeepsSlug, [Next]_vars PROVE AloneKeepsSlug'
    OBVIOUS
  <2>1. ASSUME NEW s \in Slot, NEW wrote \in BOOLEAN, Finish(s, wrote), UNCHANGED slug
        PROVE  AloneKeepsSlug'
    <3>1. \A t \in Slot : chosen'[t] # None =>
              t # s /\ chosen'[t] = chosen[t] /\ target'[t] = target[t]
      BY <2>1 DEF Finish, Inv, TypeOK
    <3>2. \A t \in Slot : t # s /\ t \notin disturbed' => t \notin disturbed
      BY <2>1 DEF Finish
    <3> QED BY <2>1, <3>1, <3>2, SlugKept
  <2>2. ASSUME NEW s \in Slot, NEW label, NEW c, NEW t, NEW f, Start(s, label, c, t, f)
        PROVE  AloneKeepsSlug'
    <3>1. chosen[s] = None /\ UNCHANGED <<slug, chosen, disturbed>>
          /\ \A u \in Slot : u # s => target'[u] = target[u]
      BY <2>2 DEF Start, dbVars, Inv, TypeOK, Locals
    <3> QED BY <3>1, SlugKept
  <2>3. ASSUME NEW s \in Slot, NEW g, s \in disturbed \/ Free(g, target[s]), Choose(s, g)
        PROVE  AloneKeepsSlug'
    <3>1. /\ UNCHANGED <<slug, target, disturbed>> /\ chosen'[s] = g
          /\ \A u \in Slot : u # s => chosen'[u] = chosen[u]
      BY <2>3 DEF Choose, dbVars, Inv, TypeOK
    <3>2. Free(g, target[s]) => Free(g, target[s])'
      BY <3>1 DEF Free
    <3> QED BY <2>3, <3>1, <3>2 DEF AloneKeepsSlug, Free
  <2>4. ASSUME NEW s \in Slot, CandidateTaken(s) \/ ClearOthers(s) \/ \E c \in Cv : ClearRow(s, c)
        PROVE  AloneKeepsSlug'
    <3>1. UNCHANGED <<slug, chosen, target, disturbed>>
      BY <2>4 DEF CandidateTaken, ClearOthers, ClearRow, dbVars, slugVars
    <3> QED BY <3>1, SlugKept
  <2>5. ASSUME NEW s \in Slot, CandidateFree(s) \/ \E now \in Stamp : AllTaken(s, now)
        PROVE  AloneKeepsSlug'
    BY <2>3, <2>5 DEF CandidateFree, AllTaken
  <2>6. ASSUME NEW s \in Slot, Insert(s) \/ Delete(s) PROVE AloneKeepsSlug'
    BY <2>6, SlugDisturbed DEF Insert, Delete
  <2>7. ASSUME NEW s \in Slot, Write(s) PROVE AloneKeepsSlug'
    <3>1. CASE chosen[s] = None
      BY <2>1, <2>7, <3>1 DEF Write
    <3>2. CASE chosen[s] # None
      BY <2>7, <3>2, SlugDisturbed DEF Write
    <3> QED BY <3>1, <3>2
  <2>8. ASSUME NEW s \in Slot, Reject(s) PROVE AloneKeepsSlug'
    BY <2>1, <2>8 DEF Reject, dbVars
  <2>9. ASSUME NEW s \in Slot, InsertConflict(s) \/ WriteFails(s) \/ DeleteFails(s)
                               \/ DeadlockVictim(s) \/ Fail(s)
        PROVE  AloneKeepsSlug'
    BY <2>8, <2>9 DEF InsertConflict, WriteFails, DeleteFails, DeadlockVictim, Fail
  <2>10. ASSUME NEW s \in Slot, NEW c \in Cv,
                (\E t \in Title : Create(s, c, t) \/ Duplicate(s, c, t))
                \/ (\E dto \in Dtos : Update(s, c, dto[1], dto[2])) \/ Remove(s, c)
         PROVE  AloneKeepsSlug'
    BY <2>2, <2>10 DEF Create, Duplicate, Update, Remove
  <2>11. CASE UNCHANGED vars
    BY <2>11, SlugKept DEF vars, dbVars, requestVars, slugVars
  <2> QED BY <2>4, <2>5, <2>6, <2>7, <2>9, <2>10, <2>11 DEF Next, RequestStep
<1> QED BY InitInv, NextInv, <1>1, <1>2, PTL DEF Spec

=============================================================================
