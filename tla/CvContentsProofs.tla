--------------------------- MODULE CvContentsProofs ---------------------------
(***************************************************************************)
(* Proofs about CvContents, for any number of requests, CVs, items, links  *)
(* and files and for lists of any length.                                  *)
(*                                                                         *)
(* Sections: a transaction is over several rows one after the other, so    *)
(* what it will commit follows from the rows it holds: no two requests     *)
(* hold one row, and a row that is held stays in its section until its     *)
(* holder commits.                                                         *)
(* Shares: a visit counts in whatever row its link leads to when it comes  *)
(* to count, which is the right one because no two shares have one link,   *)
(* which in turn rests on the unique index alone.                          *)
(* Imports: what an import has written is a prefix of what it is to write, *)
(* whatever the owner saves or removes meanwhile, because a CV is the work *)
(* of one import and its identifier is not used again.                     *)
(***************************************************************************)
EXTENDS CvContents, CvsProofs, Sequences

-----------------------------------------------------------------------------
(* A behaviour of the parts together is one of each of them. *)

LEMMA CvsSpec == ContentsSpec => Spec
<1>1. ContentsInit => Init
  BY DEF ContentsInit
<1>2. [ContentsNext]_contentVars => [Next]_vars
  BY DEF ContentsNext, CvsNext, SectionsNext, SharesNext, ImportsNext, contentVars
<1> QED BY <1>1, <1>2, PTL DEF ContentsSpec, Spec

LEMMA SectionsSpec == ContentsSpec => Sections!Spec
<1>1. ContentsInit => Sections!Init
  BY DEF ContentsInit
<1>2. [ContentsNext]_contentVars => [Sections!Next]_(Sections!vars)
  BY DEF ContentsNext, CvsNext, SectionsNext, SharesNext, ImportsNext, contentVars,
         sectionVars, Sections!vars, Sections!dbVars, Sections!listVars, Sections!txVars
<1> QED BY <1>1, <1>2, PTL DEF ContentsSpec, Sections!Spec

LEMMA SharesSpec == ContentsSpec => Shares!Spec
<1>1. ContentsInit => Shares!Init
  BY DEF ContentsInit
<1>2. [ContentsNext]_contentVars => [Shares!Next]_(Shares!vars)
  BY DEF ContentsNext, CvsNext, SectionsNext, SharesNext, ImportsNext, contentVars,
         shareVars, Shares!vars, Shares!dbVars, Shares!requestVars
<1> QED BY <1>1, <1>2, PTL DEF ContentsSpec, Shares!Spec

LEMMA ImportsSpec == ContentsSpec => Imports!Spec
<1>1. ContentsInit => Imports!Init
  BY DEF ContentsInit
<1>2. [ContentsNext]_contentVars => [Imports!Next]_(Imports!vars)
  BY DEF ContentsNext, CvsNext, SectionsNext, SharesNext, ImportsNext, contentVars,
         importVars, Imports!vars, Imports!dbVars, Imports!requestVars, Imports!historyVars
<1> QED BY <1>1, <1>2, PTL DEF ContentsSpec, Imports!Spec

\* The library's sets, seen through the instance.
LEMMA SectionFiniteSets ==
    ASSUME NEW S
    PROVE  /\ Sections!IsFiniteSet(S) <=> IsFiniteSet(S)
           /\ Sections!Cardinality(S) = Cardinality(S)
BY DEF Sections!IsFiniteSet, IsFiniteSet, Sections!Cardinality, Cardinality

-----------------------------------------------------------------------------
(* Sections. *)

\* A row is held by one request at most.
HeldOnce == \A s, t \in Slot : \A i \in held[s] \cap held[t] : s = t

\* What a request holds is in a section; what it has updated, in that of its
\* CV.  What it has inserted nobody else sees, and no other request inserts it.
RowsInv ==
    \A s \in Slot :
        /\ \A i \in held[s] : cvOf[i] # None
        /\ sectionPc[s] = "delete" => toUpdate[s] = listed[s]
        /\ sectionPc[s] \in {"idle", "delete"} => inserted[s] = {}
        /\ sectionPc[s] = "write" => \A i \in listed[s] \ toUpdate[s] :
                                  i \in held[s] /\ cvOf[i] = sectionTarget[s]
        /\ sectionPc[s] = "write" /\ inserted[s] # {} => sectionTarget[s] \in sectionCvs
        /\ \A i \in inserted[s] : cvOf[i] = None /\ \A t \in Slot \ {s} : i \notin inserted[t]

\* An item of its CV, a request names, is about to delete or has locked, unless
\* it came later than its deleteMany.
SeenInv ==
    \A s \in Slot : sectionPc[s] = "write" =>
        \A i \in Item : cvOf[i] = sectionTarget[s] =>
            i \in listed[s] \cup toDelete[s] \cup held[s] \cup late[s]

SectionsInv == Sections!TypeOK /\ HeldOnce /\ RowsInv /\ SeenInv

-----------------------------------------------------------------------------
LEMMA SectionSlotTypes ==
    ASSUME Sections!TypeOK
    PROVE  /\ listed \in [Slot -> SUBSET Item] /\ toDelete \in [Slot -> SUBSET Item]
           /\ toUpdate \in [Slot -> SUBSET Item] /\ held \in [Slot -> SUBSET Item]
           /\ inserted \in [Slot -> SUBSET Item] /\ late \in [Slot -> SUBSET Item]
BY DEF Sections!TypeOK

LEMMA SectionTypeFromSlots ==
    ASSUME sectionCvs' \subseteq SectionCv, cvOf' \in [Item -> sectionCvs' \cup {None}],
           sectionPc' \in [Slot -> {"idle", "delete", "write", "copy"}],
           sectionTarget' \in [Slot -> SectionCv \cup {None}],
           \A s \in Slot : sectionPc'[s] = "idle" <=> sectionTarget'[s] = None,
           listed' \in [Slot -> SUBSET Item], toDelete' \in [Slot -> SUBSET Item],
           toUpdate' \in [Slot -> SUBSET Item], held' \in [Slot -> SUBSET Item],
           inserted' \in [Slot -> SUBSET Item], late' \in [Slot -> SUBSET Item],
           toInsert' \in [Slot -> Nat]
    PROVE  Sections!TypeOK'
BY DEF Sections!TypeOK

LEMMA SectionsInitInv == Sections!Init => SectionsInv
<1> SUFFICES ASSUME Sections!Init PROVE SectionsInv
  OBVIOUS
<1>1. Sections!TypeOK
  BY DEF Sections!Init, Sections!TypeOK
<1>2. HeldOnce /\ RowsInv /\ SeenInv
  BY DEF Sections!Init, HeldOnce, RowsInv, SeenInv
<1> QED BY <1>1, <1>2 DEF SectionsInv

\* The beginning of a request.
LEMMA SectionStartInv ==
    ASSUME Sections!CvSectionsAssumption, SectionsInv, NEW s \in Slot, NEW label \in {"delete",
           "copy"},
           NEW c \in SectionCv, NEW ids \in SUBSET Item, NEW new \in Nat, Sections!Start(s,
                 label, c, ids, new)
    PROVE  SectionsInv'
<1>1. /\ sectionPc[s] = "idle" /\ c # None
      /\ sectionPc' = [sectionPc EXCEPT ![s] = label]
      /\ sectionTarget' = [sectionTarget EXCEPT ![s] = c]
      /\ listed' = [listed EXCEPT ![s] = ids] /\ toUpdate' = [toUpdate EXCEPT ![s] = ids]
      /\ toInsert' = [toInsert EXCEPT ![s] = new]
      /\ UNCHANGED <<sectionCvs, cvOf, toDelete, held, inserted, late>>
  BY DEF Sections!Start, Sections!dbVars, Sections!CvSectionsAssumption
<1>2. Sections!TypeOK'
  <2>1. \A t \in Slot : sectionPc'[t] = "idle" <=> sectionTarget'[t] = None
    BY <1>1 DEF SectionsInv, Sections!TypeOK
  <2> QED BY <1>1, <2>1, SectionSlotTypes, SectionTypeFromSlots DEF SectionsInv, Sections!TypeOK
<1>3. HeldOnce'
  BY <1>1 DEF SectionsInv, HeldOnce
<1>4. \A t \in Slot : sectionPc'[t] = "write" =>
          sectionPc[t] = "write" /\ UNCHANGED <<sectionTarget[t], listed[t], toUpdate[t]>>
  BY <1>1 DEF SectionsInv, Sections!TypeOK
<1>5. RowsInv'
  <2>1. \A t \in Slot : sectionPc'[t] = "delete" => toUpdate'[t] = listed'[t]
    BY <1>1 DEF SectionsInv, Sections!TypeOK, RowsInv
  <2>2. \A t \in Slot : sectionPc'[t] \in {"idle", "delete"} => inserted'[t] = {}
    BY <1>1 DEF SectionsInv, Sections!TypeOK, RowsInv
  <2> QED BY <1>1, <1>4, <2>1, <2>2 DEF SectionsInv, RowsInv
<1>6. SeenInv'
  BY <1>1, <1>4 DEF SectionsInv, SeenInv
<1> QED BY <1>2, <1>3, <1>5, <1>6 DEF SectionsInv

\* The end of a request that commits nothing.
LEMMA SectionFinish ==
    ASSUME Sections!TypeOK, NEW s \in Slot, NEW new \in SUBSET Item, Sections!Finish(s, new)
    PROVE  /\ sectionPc' \in [Slot -> {"idle", "delete", "write", "copy"}]
           /\ sectionTarget' \in [Slot -> SectionCv \cup {None}]
           /\ \A t \in Slot : sectionPc'[t] = "idle" <=> sectionTarget'[t] = None
           /\ listed' \in [Slot -> SUBSET Item] /\ toDelete' \in [Slot -> SUBSET Item]
           /\ toUpdate' \in [Slot -> SUBSET Item] /\ held' \in [Slot -> SUBSET Item]
           /\ inserted' \in [Slot -> SUBSET Item] /\ late' \in [Slot -> SUBSET Item]
           /\ toInsert' \in [Slot -> Nat]
           /\ sectionPc'[s] = "idle" /\ held'[s] = {} /\ inserted'[s] = {}
           /\ \A t \in Slot \ {s} :
                 /\ sectionPc'[t] = sectionPc[t] /\ sectionTarget'[t] = sectionTarget[t]
                 /\ listed'[t] = listed[t]
                 /\ toDelete'[t] = toDelete[t] /\ toUpdate'[t] = toUpdate[t]
                 /\ held'[t] = held[t] /\ inserted'[t] = inserted[t]
                 /\ sectionPc[t] = "write" => late'[t] = late[t] \cup new
<1>2. /\ sectionPc' = [sectionPc EXCEPT ![s] = "idle"]
      /\ sectionTarget' = [sectionTarget EXCEPT ![s] = None]
      /\ listed' = [listed EXCEPT ![s] = {}] /\ toDelete' = [toDelete EXCEPT ![s] = {}]
      /\ toUpdate' = [toUpdate EXCEPT ![s] = {}] /\ held' = [held EXCEPT ![s] = {}]
      /\ inserted' = [inserted EXCEPT ![s] = {}] /\ toInsert' = [toInsert EXCEPT ![s] = 0]
      /\ late' = [t \in Slot |-> IF t # s /\ sectionPc[t] = "write" THEN late[t] \cup new ELSE {}]
  BY DEF Sections!Finish
<1>3. late' \in [Slot -> SUBSET Item]
  BY <1>2, SectionSlotTypes
<1>4. \A t \in Slot : sectionPc'[t] = "idle" <=> sectionTarget'[t] = None
  BY <1>2 DEF Sections!TypeOK
<1> QED BY <1>2, <1>3, <1>4, SectionSlotTypes DEF Sections!TypeOK

LEMMA SectionRollbackInv == ASSUME SectionsInv, NEW s \in Slot,
                                   Sections!Rollback(s) PROVE SectionsInv'
<1>0. Sections!TypeOK
  BY DEF SectionsInv
<1>1. Sections!Finish(s, {}) /\ UNCHANGED <<sectionCvs, cvOf>>
  BY DEF Sections!Rollback, Sections!dbVars
<1>2. Sections!TypeOK'
  BY <1>0, <1>1, SectionFinish, SectionTypeFromSlots DEF Sections!TypeOK
<1>3. HeldOnce'
  BY <1>0, <1>1, SectionFinish DEF SectionsInv, HeldOnce
<1>4. RowsInv'
  BY <1>0, <1>1, SectionFinish DEF SectionsInv, RowsInv
<1>5. SeenInv'
  BY <1>0, <1>1, SectionFinish DEF SectionsInv, SeenInv
<1> QED BY <1>2, <1>3, <1>4, <1>5 DEF SectionsInv

-----------------------------------------------------------------------------
(* The steps of a transaction. *)

LEMMA DeleteUnlistedInv == ASSUME SectionsInv, NEW s \in Slot,
                                  Sections!DeleteUnlisted(s) PROVE SectionsInv'
<1>0. Sections!TypeOK
  BY DEF SectionsInv
<1>1. /\ sectionPc[s] = "delete" /\ sectionPc' = [sectionPc EXCEPT ![s] = "write"]
      /\ toDelete' = [toDelete EXCEPT ![s] = Sections!ItemsOf(sectionTarget[s]) \ listed[s]]
      /\ UNCHANGED <<sectionCvs, cvOf, sectionTarget, listed, toUpdate, toInsert, held,
            inserted, late>>
  BY DEF Sections!DeleteUnlisted, Sections!dbVars, Sections!listVars
<1>2. Sections!TypeOK'
  <2>1. Sections!ItemsOf(sectionTarget[s]) \ listed[s] \in SUBSET Item
    BY DEF Sections!ItemsOf
  <2>2. \A t \in Slot : sectionPc'[t] = "idle" <=> sectionTarget'[t] = None
    BY <1>0, <1>1 DEF Sections!TypeOK
  <2> QED BY <1>0, <1>1, <2>1, <2>2, SectionSlotTypes, SectionTypeFromSlots DEF Sections!TypeOK
<1>3. HeldOnce'
  BY <1>1 DEF SectionsInv, HeldOnce
<1>4. RowsInv'
  BY <1>0, <1>1 DEF SectionsInv, RowsInv, Sections!TypeOK
<1>5. SeenInv'
  <2>1. ASSUME NEW t \in Slot, sectionPc'[t] = "write", NEW i \in Item,
               cvOf[i] = sectionTarget[t]
        PROVE  i \in listed[t] \cup toDelete'[t] \cup held[t] \cup late[t]
    <3>1. CASE t = s
      BY <1>0, <1>1, <2>1, <3>1, SectionSlotTypes DEF Sections!ItemsOf
    <3>2. CASE t # s
      BY <1>0, <1>1, <2>1, <3>2, SectionSlotTypes DEF SectionsInv, SeenInv, Sections!TypeOK
    <3> QED BY <3>1, <3>2
  <2> QED BY <1>1, <2>1 DEF SeenInv
<1> QED BY <1>2, <1>3, <1>4, <1>5 DEF SectionsInv

LEMMA DeleteRowInv ==
    ASSUME Sections!CvSectionsAssumption, SectionsInv, NEW s \in Slot, NEW i \in Item,
           Sections!DeleteRow(s, i)
    PROVE  SectionsInv'
<1>0. Sections!TypeOK
  BY DEF SectionsInv
<1>1. /\ toDelete' = [toDelete EXCEPT ![s] = @ \ {i}]
      /\ held' = [held EXCEPT ![s] = IF cvOf[i] = None THEN @ ELSE @ \cup {i}]
      /\ \A t \in Slot \ {s} : i \notin held[t]
      /\ UNCHANGED <<sectionCvs, cvOf, sectionPc, sectionTarget, listed, toUpdate, toInsert,
            inserted, late>>
  BY DEF Sections!DeleteRow, Sections!HeldByOthers, Sections!dbVars, Sections!listVars
<1>2. Sections!TypeOK'
  BY <1>0, <1>1, SectionSlotTypes, SectionTypeFromSlots DEF Sections!TypeOK
<1>3. /\ \A t \in Slot : held[t] \subseteq held'[t] /\ held'[t] \subseteq held[t] \cup {i}
      /\ \A t \in Slot \ {s} : held'[t] = held[t]
      /\ i \in held'[s] \ held[s] => cvOf[i] # None
      /\ cvOf[i] # None => i \in held'[s]
  BY <1>0, <1>1, SectionSlotTypes
<1>4. HeldOnce'
  BY <1>1, <1>3 DEF SectionsInv, HeldOnce
<1>5. RowsInv'
  BY <1>1, <1>3 DEF SectionsInv, RowsInv
<1>6. SeenInv'
  <2>1. ASSUME NEW t \in Slot, sectionPc[t] = "write", NEW j \in Item,
               cvOf[j] = sectionTarget[t]
        PROVE  j \in listed[t] \cup toDelete'[t] \cup held'[t] \cup late[t]
    <3>1. j \in listed[t] \cup toDelete[t] \cup held[t] \cup late[t]
      BY <2>1 DEF SectionsInv, SeenInv
    <3>2. cvOf[j] # None
      BY <1>0, <2>1 DEF Sections!TypeOK
    <3>3. CASE j = i /\ t = s
      BY <1>3, <3>2, <3>3
    <3>4. CASE j # i \/ t # s
      BY <1>0, <1>1, <1>3, <3>1, <3>4, SectionSlotTypes
    <3> QED BY <3>3, <3>4
  <2> QED BY <1>1, <2>1 DEF SeenInv
<1> QED BY <1>2, <1>4, <1>5, <1>6 DEF SectionsInv

LEMMA UpdateItemInv ==
    ASSUME SectionsInv, NEW s \in Slot, NEW i \in Item, Sections!UpdateItem(s, i)
    PROVE  SectionsInv'
<1>0. Sections!TypeOK
  BY DEF SectionsInv
<1>1. /\ sectionPc[s] = "write" /\ cvOf[i] = sectionTarget[s] /\ cvOf[i] # None
      /\ toUpdate' = [toUpdate EXCEPT ![s] = @ \ {i}]
      /\ held' = [held EXCEPT ![s] = @ \cup {i}]
      /\ \A t \in Slot \ {s} : i \notin held[t]
      /\ UNCHANGED <<sectionCvs, cvOf, sectionPc, sectionTarget, listed, toDelete, toInsert,
            inserted, late>>
  BY <1>0 DEF Sections!UpdateItem, Sections!Writing, Sections!FoundInCv, Sections!HeldByOthers,
              Sections!dbVars, Sections!listVars, Sections!TypeOK
<1>2. Sections!TypeOK'
  BY <1>0, <1>1, SectionSlotTypes, SectionTypeFromSlots DEF Sections!TypeOK
<1>3. /\ held'[s] = held[s] \cup {i} /\ toUpdate'[s] = toUpdate[s] \ {i}
      /\ \A t \in Slot \ {s} : held'[t] = held[t] /\ toUpdate'[t] = toUpdate[t]
  BY <1>0, <1>1, SectionSlotTypes
<1>4. HeldOnce'
  BY <1>1, <1>3 DEF SectionsInv, HeldOnce
<1>5. RowsInv'
  BY <1>1, <1>3 DEF SectionsInv, RowsInv
<1>6. SeenInv'
  BY <1>1, <1>3 DEF SectionsInv, SeenInv
<1> QED BY <1>2, <1>4, <1>5, <1>6 DEF SectionsInv

LEMMA InsertItemInv ==
    ASSUME SectionsInv, NEW s \in Slot, NEW i \in Item, Sections!InsertItem(s, i)
    PROVE  SectionsInv'
<1>0. Sections!TypeOK
  BY DEF SectionsInv
<1>1. /\ sectionPc[s] \in {"write", "copy"}
      /\ (sectionTarget[s] \in sectionCvs \/ sectionPc[s] = "copy")
      /\ toInsert[s] > 0 /\ toInsert' = [toInsert EXCEPT ![s] = @ - 1]
      /\ cvOf[i] = None /\ \A t \in Slot : i \notin inserted[t]
      /\ inserted' = [inserted EXCEPT ![s] = @ \cup {i}]
      /\ UNCHANGED <<sectionCvs, cvOf, sectionPc, sectionTarget, listed, toDelete, toUpdate,
            held, late>>
  BY DEF Sections!InsertItem, Sections!Writing, Sections!Fresh, Sections!dbVars,
         Sections!listVars
<1>2. Sections!TypeOK'
  <2>1. toInsert' \in [Slot -> Nat]
    BY <1>0, <1>1 DEF Sections!TypeOK
  <2> QED BY <1>0, <1>1, <2>1, SectionSlotTypes, SectionTypeFromSlots DEF Sections!TypeOK
<1>3. inserted'[s] = inserted[s] \cup {i} /\ \A t \in Slot \ {s} : inserted'[t] = inserted[t]
  BY <1>0, <1>1, SectionSlotTypes
<1>4. HeldOnce'
  BY <1>1 DEF SectionsInv, HeldOnce
<1>5. RowsInv'
  BY <1>1, <1>3 DEF SectionsInv, RowsInv
<1>6. SeenInv'
  BY <1>1 DEF SectionsInv, SeenInv
<1> QED BY <1>2, <1>4, <1>5, <1>6 DEF SectionsInv

LEMMA SectionCommitInv ==
    ASSUME Sections!CvSectionsAssumption, SectionsInv, NEW s \in Slot, Sections!Commit(s)
    PROVE  SectionsInv'
<1>0. Sections!TypeOK
  BY DEF SectionsInv
<1>1. /\ sectionPc[s] \in {"write", "copy"} /\ toUpdate[s] = {}
      /\ Sections!Finish(s, inserted[s])
      /\ sectionCvs' = IF sectionPc[s] = "copy" THEN sectionCvs \cup {sectionTarget[s]}
                        ELSE sectionCvs
      /\ cvOf' = [i \in Item |-> IF i \in held[s] \ listed[s] THEN None
                                 ELSE IF i \in inserted[s] THEN sectionTarget[s] ELSE cvOf[i]]
      /\ sectionTarget[s] \in SectionCv /\ inserted[s] \in SUBSET Item
  BY <1>0, SectionSlotTypes DEF Sections!Commit, Sections!Writing, Sections!Deleted,
                                Sections!TypeOK
<1>2. Sections!TypeOK'
  <2>1. sectionCvs' \subseteq SectionCv
    BY <1>0, <1>1 DEF Sections!TypeOK
  <2>2. cvOf' \in [Item -> sectionCvs' \cup {None}]
    BY <1>0, <1>1 DEF Sections!TypeOK, SectionsInv, RowsInv
  <2> QED BY <1>0, <1>1, <2>1, <2>2, SectionFinish, SectionTypeFromSlots
<1>3. HeldOnce'
  BY <1>0, <1>1, SectionFinish DEF SectionsInv, HeldOnce
<1>4. \A t \in Slot \ {s} : \A i \in held[t] : i \in Item /\ cvOf'[i] = cvOf[i]
  BY <1>0, <1>1, SectionSlotTypes DEF SectionsInv, HeldOnce, RowsInv
<1>5. \A t \in Slot \ {s} : \A i \in inserted[t] : i \in Item /\ cvOf'[i] = None
  BY <1>0, <1>1, SectionSlotTypes DEF SectionsInv, RowsInv
<1>6. RowsInv'
  <2>1. sectionCvs \subseteq sectionCvs'
    BY <1>1
  <2>2. ASSUME NEW t \in Slot, t # s
        PROVE  /\ \A i \in held'[t] : cvOf'[i] # None
               /\ sectionPc'[t] = "write" =>
                      \A i \in listed'[t] \ toUpdate'[t] :
                          i \in held'[t] /\ cvOf'[i] = sectionTarget'[t]
               /\ \A i \in inserted'[t] : cvOf'[i] = None
    <3>1. /\ \A i \in held[t] : cvOf[i] # None
          /\ sectionPc[t] = "write" => \A i \in listed[t] \ toUpdate[t] :
                                    i \in held[t] /\ cvOf[i] = sectionTarget[t]
      BY DEF SectionsInv, RowsInv
    <3>2. /\ sectionPc'[t] = sectionPc[t] /\ sectionTarget'[t] = sectionTarget[t]
          /\ listed'[t] = listed[t]
          /\ toUpdate'[t] = toUpdate[t] /\ held'[t] = held[t] /\ inserted'[t] = inserted[t]
      BY <1>0, <1>1, <2>2, SectionFinish
    <3> QED BY <1>4, <1>5, <2>2, <3>1, <3>2
  <2>3. ASSUME NEW t \in Slot
        PROVE  /\ sectionPc'[t] = "delete" => toUpdate'[t] = listed'[t]
               /\ sectionPc'[t] \in {"idle", "delete"} => inserted'[t] = {}
               /\ sectionPc'[t] = "write" /\ inserted'[t] # {} =>
                      sectionTarget'[t] \in sectionCvs'
               /\ \A i \in inserted'[t] : \A u \in Slot \ {t} : i \notin inserted'[u]
    BY <1>0, <1>1, <2>1, SectionFinish DEF SectionsInv, RowsInv
  <2>4. sectionPc'[s] = "idle" /\ held'[s] = {} /\ inserted'[s] = {}
    BY <1>0, <1>1, SectionFinish
  <2>5. ASSUME NEW t \in Slot
        PROVE  /\ \A i \in held'[t] : cvOf'[i] # None
               /\ sectionPc'[t] = "write" =>
                      \A i \in listed'[t] \ toUpdate'[t] :
                          i \in held'[t] /\ cvOf'[i] = sectionTarget'[t]
               /\ \A i \in inserted'[t] : cvOf'[i] = None
    <3>1. CASE t = s
      BY <2>4, <3>1
    <3>2. CASE t # s
      BY <2>2, <3>2
    <3> QED BY <3>1, <3>2
  <2> QED BY <2>3, <2>5 DEF RowsInv
<1>7. SeenInv'
  <2> SUFFICES ASSUME NEW t \in Slot, sectionPc'[t] = "write", NEW i \in Item,
                      cvOf'[i] = sectionTarget'[t]
               PROVE  i \in listed'[t] \cup toDelete'[t] \cup held'[t] \cup late'[t]
    BY DEF SeenInv
  <2>1. /\ t # s /\ sectionPc[t] = "write" /\ sectionTarget'[t] = sectionTarget[t]
        /\ listed'[t] = listed[t]
        /\ toDelete'[t] = toDelete[t] /\ held'[t] = held[t]
        /\ late'[t] = late[t] \cup inserted[s]
    BY <1>0, <1>1, SectionFinish
  <2>2. sectionTarget[t] # None
    BY <1>0, <2>1 DEF Sections!TypeOK
  <2>3. i \in inserted[s] \/ cvOf[i] = sectionTarget[t]
    BY <1>1, <2>1, <2>2
  <2>4. cvOf[i] = sectionTarget[t] => i \in listed[t] \cup toDelete[t] \cup held[t] \cup late[t]
    BY <2>1 DEF SectionsInv, SeenInv
  <2> QED BY <2>1, <2>3, <2>4
<1> QED BY <1>2, <1>3, <1>6, <1>7 DEF SectionsInv

LEMMA SectionRemoveCvInv ==
    ASSUME Sections!CvSectionsAssumption, SectionsInv, NEW c \in SectionCv, Sections!RemoveCv(c)
    PROVE  SectionsInv'
<1>0. Sections!TypeOK
  BY DEF SectionsInv
<1>1. /\ sectionCvs' = sectionCvs \ {c}
      /\ cvOf' = [i \in Item |-> IF cvOf[i] = c THEN None ELSE cvOf[i]]
      /\ \A s \in Slot : \A i \in held[s] : i \in Item => cvOf[i] # c
      /\ \A s \in Slot : inserted[s] = {} \/ sectionTarget[s] # c
      /\ UNCHANGED <<sectionPc, sectionTarget, listed, toDelete, toUpdate, toInsert, held,
            inserted, late>>
      /\ c # None
  BY DEF Sections!RemoveCv, Sections!ItemsOf, Sections!listVars, Sections!txVars,
         Sections!CvSectionsAssumption
<1>2. Sections!TypeOK'
  BY <1>0, <1>1, SectionSlotTypes, SectionTypeFromSlots DEF Sections!TypeOK
<1>3. HeldOnce'
  BY <1>1 DEF SectionsInv, HeldOnce
<1>4. \A s \in Slot : \A i \in held[s] : i \in Item /\ cvOf'[i] = cvOf[i]
  BY <1>0, <1>1, SectionSlotTypes
<1>5. \A s \in Slot : \A i \in inserted[s] : cvOf'[i] = None
  BY <1>0, <1>1, SectionSlotTypes DEF SectionsInv, RowsInv
<1>6. RowsInv'
  <2>1. ASSUME NEW s \in Slot
        PROVE  /\ \A i \in held'[s] : cvOf'[i] # None
               /\ sectionPc'[s] = "write" =>
                      \A i \in listed'[s] \ toUpdate'[s] :
                          i \in held'[s] /\ cvOf'[i] = sectionTarget'[s]
               /\ sectionPc'[s] = "write" /\ inserted'[s] # {} =>
                      sectionTarget'[s] \in sectionCvs'
    BY <1>1, <1>4 DEF SectionsInv, RowsInv
  <2> QED BY <1>1, <1>5, <2>1 DEF SectionsInv, RowsInv
<1>7. SeenInv'
  <2>1. \A s \in Slot : sectionPc[s] = "write" => sectionTarget[s] # None
    BY <1>0 DEF Sections!TypeOK
  <2> QED BY <1>1, <2>1 DEF SectionsInv, SeenInv
<1> QED BY <1>2, <1>3, <1>6, <1>7 DEF SectionsInv

LEMMA SectionsNextInv ==
    Sections!CvSectionsAssumption /\ SectionsInv /\ [Sections!Next]_(Sections!vars) => SectionsInv'
<1> SUFFICES ASSUME Sections!CvSectionsAssumption, SectionsInv, [Sections!Next]_(Sections!vars)
 PROVE  SectionsInv'
  OBVIOUS
<1>1. ASSUME NEW s \in Slot, NEW c \in SectionCv,
             NEW ids \in UNION {Sections!kSubset(k, Item) : k \in 0 .. MaxKept},
                   NEW new \in 0 .. MaxNew,
             Sections!BulkUpsert(s, c, ids, new)
      PROVE  SectionsInv'
  <2>1. ids \in SUBSET Item
    BY DEF Sections!kSubset
  <2>2. new \in Nat
    BY DEF Sections!CvSectionsAssumption
  <2> QED BY <1>1, <2>1, <2>2, SectionStartInv DEF Sections!BulkUpsert
<1>2. ASSUME NEW s \in Slot, NEW source \in SectionCv, NEW c \in SectionCv,
             Sections!Duplicate(s, source, c) PROVE SectionsInv'
  <2>1. IsFiniteSet(Item) /\ Sections!ItemsOf(source) \subseteq Item
    BY SectionFiniteSets DEF Sections!ItemsOf, Sections!CvSectionsAssumption
  <2>2. Sections!Cardinality(Sections!ItemsOf(source)) \in Nat
    BY <2>1, FS_Subset, FS_CardinalityType, SectionFiniteSets
  <2> QED BY <1>2, <2>2, SectionStartInv DEF Sections!Duplicate
<1>3. ASSUME NEW s \in Slot, NEW i \in Item,
             Sections!DeleteRow(s, i) \/ Sections!UpdateItem(s, i) \/ Sections!ItemNotFound(s,
                   i) \/ Sections!InsertItem(s, i)
      PROVE  SectionsInv'
  BY <1>3, DeleteRowInv, UpdateItemInv, InsertItemInv, SectionRollbackInv
     DEF Sections!ItemNotFound
<1>4. ASSUME NEW s \in Slot, Sections!DeleteUnlisted(s) \/ Sections!Commit(s) PROVE SectionsInv'
  BY <1>4, DeleteUnlistedInv, SectionCommitInv
<1>5. ASSUME NEW s \in Slot,
             Sections!InsertFails(s) \/ Sections!DeadlockVictim(s) \/ Sections!Fail(s)
      PROVE  SectionsInv'
  BY <1>5, SectionRollbackInv DEF Sections!InsertFails, Sections!DeadlockVictim, Sections!Fail
<1>6. ASSUME NEW c \in SectionCv, Sections!RemoveCv(c) PROVE SectionsInv'
  BY <1>6, SectionRemoveCvInv
<1>7. CASE UNCHANGED Sections!vars
  <2>1. UNCHANGED <<sectionCvs, cvOf, sectionPc, sectionTarget, listed, toDelete, toUpdate,
        toInsert, held,
                    inserted, late>>
    BY <1>7 DEF Sections!vars, Sections!dbVars, Sections!listVars, Sections!txVars
  <2>2. Sections!TypeOK'
    BY <2>1, SectionSlotTypes, SectionTypeFromSlots DEF SectionsInv, Sections!TypeOK
  <2> QED BY <2>1, <2>2 DEF SectionsInv, HeldOnce, RowsInv, SeenInv
<1> QED BY <1>1, <1>2, <1>3, <1>4, <1>5, <1>6, <1>7 DEF Sections!Next, Sections!RequestStep

\* The only step that ends a request in "write" and changes a row is its commit.
LEMMA OnlyCommitEnds ==
    ASSUME SectionsInv, [Sections!Next]_(Sections!vars), NEW s \in Slot, Sections!Writing(s),
           sectionPc'[s] = "idle", Sections!dbVars' # Sections!dbVars
    PROVE  Sections!Commit(s)
<1>0. Sections!TypeOK /\ sectionPc[s] = "write"
  BY DEF SectionsInv, Sections!Writing
<1>1. ASSUME NEW t \in Slot, Sections!Commit(t) PROVE t = s
  <2>1. t # s => sectionPc'[s] = sectionPc[s]
    BY <1>0, <1>1 DEF Sections!Commit, Sections!Finish, Sections!TypeOK
  <2> QED BY <1>0, <2>1
<1>2. \/ \E t \in Slot : Sections!Commit(t)
      \/ \E c \in SectionCv : Sections!RemoveCv(c)
      \/ UNCHANGED Sections!dbVars
  BY DEF Sections!Next, Sections!RequestStep, Sections!BulkUpsert, Sections!Duplicate,
         Sections!Start, Sections!DeleteUnlisted, Sections!DeleteRow,
         Sections!UpdateItem, Sections!ItemNotFound, Sections!InsertItem, Sections!InsertFails,
         Sections!DeadlockVictim, Sections!Fail, Sections!Rollback, Sections!vars
<1>3. ASSUME NEW c \in SectionCv, Sections!RemoveCv(c) PROVE FALSE
  BY <1>0, <1>3 DEF Sections!RemoveCv
<1> QED BY <1>1, <1>2, <1>3

-----------------------------------------------------------------------------
(* Shares. *)

\* No two shares have the same link, and no link is of the future.
LinksUnique ==
    /\ \A c, d \in SectionCv :
           share[c] # None /\ share[d] # None /\ share[c].link = share[d].link => c = d
    /\ \A c \in SectionCv : share[c] # None => share[c].link \in 0 .. now
    /\ \A s \in Slot : link[s] # None => link[s] \in 0 .. now

\* What a request remembers is what its next step needs.
ShareTargets ==
    \A s \in Slot :
        /\ sharePc[s] \in {"find", "update", "create",
              "unshare"} => shareTarget[s] \in SectionCv
        /\ sharePc[s] \in {"view", "count"} => shareTarget[s] \in 0 .. MaxClock
        /\ sharePc[s] = "create" => link[s] \in 0 .. now

SharesInv == Shares!TypeOK /\ LinksUnique /\ ShareTargets

-----------------------------------------------------------------------------
\* A row read and written back with another column changed is a row.
LEMMA ShareRowType ==
    ASSUME Shares!TypeOK, NEW c \in SectionCv, share[c] # None
    PROVE  /\ share[c] \in Shares!ShareRow /\ share[c].link \in Nat /\ share[c].viewCount \in Nat
           /\ c \in sharedCvs
           /\ \A p \in BOOLEAN :
                 /\ [share[c] EXCEPT !.isPublic = p] \in Shares!ShareRow
                 /\ [share[c] EXCEPT !.isPublic = p].link = share[c].link
                 /\ [share[c] EXCEPT !.isPublic = p].viewCount = share[c].viewCount
           /\ \A n \in Nat :
                 /\ [share[c] EXCEPT !.viewCount = n] \in Shares!ShareRow
                 /\ [share[c] EXCEPT !.viewCount = n].link = share[c].link
                 /\ [share[c] EXCEPT !.viewCount = n].viewCount = n
<1>1. PICK r \in Shares!ShareRow : r = share[c]
  BY DEF Shares!TypeOK
<1> QED BY <1>1 DEF Shares!TypeOK, Shares!ShareRow

\* A live link leads to its share.
LEMMA CvOfLink ==
    ASSUME NEW g, Shares!Live(g)
    PROVE  /\ Shares!CvOf(g) \in SectionCv
           /\ share[Shares!CvOf(g)] # None /\ share[Shares!CvOf(g)].link = g
BY DEF Shares!Live, Shares!CvOf

LEMMA SharesInitInv == Shares!CvSharesAssumption /\ Shares!Init => SharesInv
BY DEF Shares!CvSharesAssumption, Shares!Init, SharesInv, Shares!TypeOK, LinksUnique,
       ShareTargets

\* A step that ends a request and leaves the shares alone.
LEMMA ShareReturnInv ==
    ASSUME SharesInv, NEW s \in Slot, Shares!Return(s)
    PROVE  SharesInv'
<1>1. /\ sharePc' = [sharePc EXCEPT ![s] = "idle"]
      /\ shareTarget' = [shareTarget EXCEPT ![s] = None]
      /\ public' = [public EXCEPT ![s] = TRUE] /\ link' = [link EXCEPT ![s] = None]
      /\ found' = [found EXCEPT ![s] = None] /\ UNCHANGED <<sharedCvs, share, now, shown>>
  BY DEF Shares!Return, Shares!Finish, Shares!Goto, Shares!dbVars
<1>2. Shares!TypeOK'
  BY <1>1 DEF SharesInv, Shares!TypeOK
<1>3. LinksUnique' /\ ShareTargets'
  BY <1>1 DEF SharesInv, Shares!TypeOK, LinksUnique, ShareTargets
<1> QED BY <1>2, <1>3 DEF SharesInv

\* A step that ends a request and writes the row of one CV, or removes it.
LEMMA ShareSaveInv ==
    ASSUME SharesInv, NEW s \in Slot, NEW c \in SectionCv,
           NEW r \in Shares!ShareRow \cup {None}, Shares!Save(s, c, r),
           shown' \in [0 .. MaxClock -> Nat],
           r # None =>
               /\ c \in sharedCvs /\ r.link \in 0 .. now
               /\ \A d \in SectionCv \ {c} : share[d] # None => share[d].link # r.link
    PROVE  SharesInv'
<1>1. /\ sharePc' = [sharePc EXCEPT ![s] = "idle"]
      /\ shareTarget' = [shareTarget EXCEPT ![s] = None]
      /\ public' = [public EXCEPT ![s] = TRUE] /\ link' = [link EXCEPT ![s] = None]
      /\ found' = [found EXCEPT ![s] = None] /\ UNCHANGED <<sharedCvs, now>>
      /\ share' = [share EXCEPT ![c] = r]
  BY DEF Shares!Save, Shares!Finish, Shares!Goto
<1>2. share'[c] = r /\ \A d \in SectionCv : d # c => share'[d] = share[d]
  BY <1>1 DEF SharesInv, Shares!TypeOK
<1>3. Shares!TypeOK'
  <2>1. share' \in [SectionCv -> Shares!ShareRow \cup {None}]
    BY <1>1 DEF SharesInv, Shares!TypeOK
  <2>2. \A d \in SectionCv : share'[d] # None => d \in sharedCvs'
    BY <1>1, <1>2 DEF SharesInv, Shares!TypeOK
  <2> QED BY <1>1, <2>1, <2>2 DEF SharesInv, Shares!TypeOK
<1>4. LinksUnique'
  <2>1. \A d, e \in SectionCv : share'[d] # None /\ share'[e] # None
                            /\ share'[d].link = share'[e].link => d = e
    BY <1>2 DEF SharesInv, LinksUnique
  <2>2. \A d \in SectionCv : share'[d] # None => share'[d].link \in 0 .. now'
    BY <1>1, <1>2 DEF SharesInv, LinksUnique
  <2>3. \A t \in Slot : link'[t] # None => link'[t] \in 0 .. now'
    BY <1>1 DEF SharesInv, Shares!TypeOK, LinksUnique
  <2> QED BY <2>1, <2>2, <2>3 DEF LinksUnique
<1>5. ShareTargets'
  BY <1>1 DEF SharesInv, Shares!TypeOK, ShareTargets
<1> QED BY <1>3, <1>4, <1>5 DEF SharesInv

\* A step that begins a request.
LEMMA ShareStartInv ==
    ASSUME Shares!CvSharesAssumption, SharesInv, NEW s \in Slot, NEW p \in BOOLEAN, NEW x,
           NEW label,
           Shares!Start(s, label, x, p),
           \/ label \in {"find", "unshare"} /\ x \in SectionCv
           \/ label = "view" /\ x \in 0 .. MaxClock
    PROVE  SharesInv'
<1>1. /\ sharePc' = [sharePc EXCEPT ![s] = label]
      /\ shareTarget' = [shareTarget EXCEPT ![s] = x]
      /\ public' = [public EXCEPT ![s] = p]
      /\ UNCHANGED <<sharedCvs, share, now, link, found, shown>>
      /\ sharePc[s] = "idle"
  BY DEF Shares!Start, Shares!Goto, Shares!dbVars
<1>2. x \in SectionCv \cup Nat /\ x # None
  BY DEF Shares!CvSharesAssumption
<1>3. Shares!TypeOK'
  <2>1. shareTarget' \in [Slot -> SectionCv \cup Nat \cup {None}]
    BY <1>1, <1>2 DEF SharesInv, Shares!TypeOK
  <2>2. \A t \in Slot : sharePc'[t] = "idle" <=> shareTarget'[t] = None
    BY <1>1, <1>2 DEF SharesInv, Shares!TypeOK
  <2> QED BY <1>1, <2>1, <2>2 DEF SharesInv, Shares!TypeOK
<1>4. LinksUnique'
  BY <1>1 DEF SharesInv, LinksUnique
<1>5. ShareTargets'
  BY <1>1 DEF SharesInv, Shares!TypeOK, ShareTargets
<1> QED BY <1>3, <1>4, <1>5 DEF SharesInv

\* A step that looks up the share of a CV, or that of a link.
LEMMA ShareLookupInv ==
    ASSUME Shares!CvSharesAssumption, SharesInv, NEW s \in Slot,
           Shares!FindShare(s) \/ Shares!FindLink(s)
    PROVE  SharesInv'
<1>1. CASE Shares!FindShare(s)
  <2>1. /\ UNCHANGED <<sharedCvs, share, now, shareTarget, public, found, shown>>
        /\ sharePc[s] = "find"
        /\ \/ sharePc' = [sharePc EXCEPT ![s] = "create"] /\ link' = [link EXCEPT ![s] = now]
           \/ sharePc' = [sharePc EXCEPT ![s] = "update"] /\ link' = link
    BY <1>1 DEF Shares!FindShare, Shares!Goto, Shares!dbVars, Shares!NewLink
  <2>2. now \in Nat
    BY DEF Shares!CvSharesAssumption, SharesInv, Shares!TypeOK
  <2>3. Shares!TypeOK'
    BY <2>1, <2>2 DEF SharesInv, Shares!TypeOK
  <2>4. LinksUnique' /\ ShareTargets'
    BY <2>1, <2>2 DEF SharesInv, Shares!TypeOK, LinksUnique, ShareTargets
  <2> QED BY <2>3, <2>4 DEF SharesInv
<1>2. CASE Shares!FindLink(s)
  <2>1. /\ UNCHANGED <<sharedCvs, share, now, shareTarget, public, link, shown>>
        /\ sharePc[s] = "view"
        /\ sharePc' = [sharePc EXCEPT ![s] = "count"]
        /\ found' = [found EXCEPT ![s] = share[Shares!CvOf(shareTarget[s])]]
        /\ Shares!Live(shareTarget[s])
    BY <1>2 DEF Shares!FindLink, Shares!Goto, Shares!dbVars, Shares!Visible, Shares!Open
  <2>2. share[Shares!CvOf(shareTarget[s])] \in Shares!ShareRow
    BY <2>1, CvOfLink, ShareRowType DEF SharesInv
  <2>3. Shares!TypeOK'
    BY <2>1, <2>2 DEF SharesInv, Shares!TypeOK
  <2>4. LinksUnique' /\ ShareTargets'
    BY <2>1 DEF SharesInv, Shares!TypeOK, LinksUnique, ShareTargets
  <2> QED BY <2>3, <2>4 DEF SharesInv
<1> QED BY <1>1, <1>2

LEMMA ShareUpdateInv ==
    ASSUME SharesInv, NEW s \in Slot, Shares!UpdateShare(s)
    PROVE  SharesInv'
<1> DEFINE c == shareTarget[s]
           r == [share[c] EXCEPT !.isPublic = public[s]]
<1>1. c \in SectionCv /\ share[c] # None /\ public[s] \in BOOLEAN /\ Shares!Save(s, c,
      r) /\ shown' = shown
  BY DEF Shares!UpdateShare, SharesInv, ShareTargets, Shares!TypeOK
<1>2. r \in Shares!ShareRow /\ r.link = share[c].link /\ c \in sharedCvs
  BY <1>1, ShareRowType DEF SharesInv
<1>3. r.link \in 0 .. now /\ \A d \in SectionCv \ {c} : share[d] # None => share[d].link # r.link
  BY <1>1, <1>2 DEF SharesInv, LinksUnique
<1>4. shown' \in [0 .. MaxClock -> Nat]
  BY <1>1 DEF SharesInv, Shares!TypeOK
<1> HIDE DEF c, r
<1> QED BY <1>1, <1>2, <1>3, <1>4, ShareSaveInv

LEMMA ShareCreateInv ==
    ASSUME SharesInv, NEW s \in Slot, Shares!CreateShare(s)
    PROVE  SharesInv'
<1> DEFINE r == [link |-> link[s], isPublic |-> public[s], viewCount |-> 0]
<1>1. /\ shareTarget[s] \in SectionCv /\ link[s] \in 0 .. now /\ public[s] \in BOOLEAN
      /\ shareTarget[s] \in sharedCvs /\ ~Shares!Live(link[s])
      /\ Shares!Save(s, shareTarget[s], r)
      /\ shown' = [shown EXCEPT ![link[s]] = 0]
  BY DEF Shares!CreateShare, Shares!Insertable, SharesInv, ShareTargets, Shares!TypeOK
<1>2. r \in Shares!ShareRow /\ r.link = link[s]
  BY <1>1 DEF Shares!ShareRow, SharesInv, Shares!TypeOK
<1>3. \A d \in SectionCv : share[d] # None => share[d].link # r.link
  BY <1>1, <1>2 DEF Shares!Live
<1>4. shown' \in [0 .. MaxClock -> Nat]
  BY <1>1 DEF SharesInv, Shares!TypeOK
<1> HIDE DEF r
<1> QED BY <1>1, <1>2, <1>3, <1>4, ShareSaveInv

LEMMA UnshareInv ==
    ASSUME SharesInv, NEW s \in Slot, Shares!Unshare(s)
    PROVE  SharesInv'
<1>1. shareTarget[s] \in SectionCv /\ Shares!Save(s, shareTarget[s],
      None) /\ shown' \in [0 .. MaxClock -> Nat]
  BY DEF Shares!Unshare, SharesInv, ShareTargets, Shares!TypeOK
<1> QED BY <1>1, ShareSaveInv

\* What counting a view does to the row of its link.
LEMMA CountEffect ==
    ASSUME SharesInv, NEW s \in Slot, Shares!CountView(s)
    PROVE  \E c \in SectionCv, r \in Shares!ShareRow :
              /\ Shares!Save(s, c, r) /\ share[c] # None /\ c \in sharedCvs
              /\ share[c].link = shareTarget[s] /\ shareTarget[s] \in 0 .. MaxClock
              /\ r.link = share[c].link /\ r.viewCount = share[c].viewCount + 1
<1> DEFINE c == Shares!CvOf(shareTarget[s])
           r == [share[c] EXCEPT !.viewCount = share[c].viewCount + 1]
<1>1. sharePc[s] = "count" /\ Shares!Live(shareTarget[s]) /\ Shares!Save(s, c, r)
  BY DEF Shares!CountView, Shares!Counted
<1>2. c \in SectionCv /\ share[c] # None /\ share[c].link = shareTarget[s]
  BY <1>1, CvOfLink
<1>3. share[c].viewCount + 1 \in Nat
  BY <1>2, ShareRowType DEF SharesInv
<1>4. /\ r \in Shares!ShareRow /\ r.link = share[c].link
      /\ r.viewCount = share[c].viewCount + 1 /\ c \in sharedCvs
  BY <1>2, <1>3, ShareRowType DEF SharesInv
<1>5. shareTarget[s] \in 0 .. MaxClock
  BY <1>1 DEF SharesInv, ShareTargets
<1> HIDE DEF c, r
<1> QED BY <1>1, <1>2, <1>4, <1>5

LEMMA ShareCountInv ==
    ASSUME SharesInv, NEW s \in Slot, Shares!CountView(s)
    PROVE  SharesInv'
<1>1. PICK c \in SectionCv, r \in Shares!ShareRow :
          /\ Shares!Save(s, c, r) /\ share[c] # None /\ c \in sharedCvs
          /\ share[c].link = shareTarget[s] /\ shareTarget[s] \in 0 .. MaxClock
          /\ r.link = share[c].link
  BY CountEffect
<1>2. r.link \in 0 .. now /\ \A d \in SectionCv \ {c} : share[d] # None => share[d].link # r.link
  BY <1>1 DEF SharesInv, LinksUnique
<1>3. shown[shareTarget[s]] + 1 \in Nat
  BY <1>1 DEF SharesInv, Shares!TypeOK
<1>4. shown' \in [0 .. MaxClock -> Nat]
  BY <1>3 DEF SharesInv, Shares!TypeOK, Shares!CountView
<1> QED BY <1>1, <1>2, <1>4, ShareSaveInv

LEMMA SharesNextInv ==
    Shares!CvSharesAssumption /\ SharesInv /\ [Shares!Next]_(Shares!vars) => SharesInv'
<1> SUFFICES ASSUME Shares!CvSharesAssumption, SharesInv, [Shares!Next]_(Shares!vars)
 PROVE  SharesInv'
  OBVIOUS
<1>1. ASSUME NEW s \in Slot, NEW c \in SectionCv, NEW p \in BOOLEAN, Shares!ShareCv(s, c, p)
      PROVE  SharesInv'
  BY <1>1, ShareStartInv DEF Shares!ShareCv
<1>2. ASSUME NEW s \in Slot, NEW c \in SectionCv, Shares!UnshareCv(s, c) PROVE SharesInv'
  BY <1>2, ShareStartInv DEF Shares!UnshareCv
<1>3. ASSUME NEW s \in Slot, NEW g \in 0 .. MaxClock, Shares!VisitLink(s, g) PROVE SharesInv'
  BY <1>3, ShareStartInv DEF Shares!VisitLink
<1>4. ASSUME NEW s \in Slot, Shares!RequestStep(s) PROVE SharesInv'
  <2>1. CASE \/ Shares!UpdateFails(s) \/ Shares!CreateFails(s)
             \/ Shares!LinkNotFound(s) \/ Shares!CountFails(s)
    BY <2>1, ShareReturnInv DEF Shares!UpdateFails, Shares!CreateFails, Shares!LinkNotFound,
                                Shares!CountFails
  <2> QED BY <1>4, <2>1, ShareLookupInv, ShareUpdateInv, ShareCreateInv, UnshareInv,
             ShareCountInv DEF Shares!RequestStep
<1>5. ASSUME NEW c \in SectionCv, Shares!RemoveCv(c) PROVE SharesInv'
  <2>1. /\ sharedCvs' = sharedCvs \ {c} /\ share' = [share EXCEPT ![c] = None]
        /\ UNCHANGED <<now, sharePc, shareTarget, public, link, found, shown>>
    BY <1>5 DEF Shares!RemoveCv, Shares!requestVars
  <2>2. Shares!TypeOK'
    BY <2>1 DEF SharesInv, Shares!TypeOK
  <2>3. LinksUnique' /\ ShareTargets'
    BY <2>1 DEF SharesInv, Shares!TypeOK, LinksUnique, ShareTargets
  <2> QED BY <2>2, <2>3 DEF SharesInv
<1>6. CASE Shares!Tick
  <2>1. /\ now' = now + 1 /\ now' \in 0 .. MaxClock /\ now \in Nat
        /\ UNCHANGED <<sharedCvs, share, sharePc, shareTarget, public, link, found, shown>>
    BY <1>6 DEF Shares!Tick, Shares!dbVars, Shares!requestVars, Shares!CvSharesAssumption,
                SharesInv, Shares!TypeOK
  <2>2. Shares!TypeOK'
    BY <2>1 DEF SharesInv, Shares!TypeOK
  <2>3. LinksUnique' /\ ShareTargets'
    BY <2>1 DEF SharesInv, LinksUnique, ShareTargets
  <2> QED BY <2>2, <2>3 DEF SharesInv
<1>7. CASE UNCHANGED Shares!vars
  <2>1. UNCHANGED <<sharedCvs, share, now, sharePc, shareTarget, public, link, found, shown>>
    BY <1>7 DEF Shares!vars, Shares!dbVars, Shares!requestVars
  <2> QED BY <2>1 DEF SharesInv, Shares!TypeOK, LinksUnique, ShareTargets
<1> QED BY <1>1, <1>2, <1>3, <1>4, <1>5, <1>6, <1>7 DEF Shares!Next

-----------------------------------------------------------------------------
(* Views. *)

\* A step that changes neither counts nor the shares but to remove one.
CountsKept ==
    /\ shown' = shown
    /\ \A c \in SectionCv : share'[c] # None =>
           /\ share[c] # None
           /\ share'[c].link = share[c].link /\ share'[c].viewCount = share[c].viewCount

\* All steps are of that kind but the insert of a share and the count of a view.
LEMMA MostStepsKeepCounts ==
    ASSUME SharesInv, [Shares!Next]_(Shares!vars)
    PROVE  \/ CountsKept
           \/ \E s \in Slot : Shares!CreateShare(s) \/ Shares!CountView(s)
<1>1. share' = share /\ shown' = shown => CountsKept
  BY DEF CountsKept
<1>2. ASSUME NEW s \in Slot, Shares!UpdateShare(s) PROVE CountsKept
  <2>1. /\ shareTarget[s] \in SectionCv /\ share[shareTarget[s]] # None /\ public[s] \in BOOLEAN
        /\ share' = [share EXCEPT ![shareTarget[s]] =
                         [share[shareTarget[s]] EXCEPT !.isPublic = public[s]]]
        /\ shown' = shown
    BY <1>2 DEF Shares!UpdateShare, Shares!Save, SharesInv, ShareTargets, Shares!TypeOK
  <2>2. /\ share'[shareTarget[s]].link = share[shareTarget[s]].link
        /\ share'[shareTarget[s]].viewCount = share[shareTarget[s]].viewCount
        /\ \A c \in SectionCv : c # shareTarget[s] => share'[c] = share[c]
    BY <2>1, ShareRowType DEF SharesInv, Shares!TypeOK
  <2> QED BY <2>1, <2>2 DEF CountsKept
<1>3. ASSUME NEW s \in Slot, Shares!Unshare(s) PROVE CountsKept
  BY <1>3 DEF Shares!Unshare, Shares!Save, CountsKept, SharesInv, Shares!TypeOK
<1>4. ASSUME NEW c \in SectionCv, Shares!RemoveCv(c) PROVE CountsKept
  BY <1>4 DEF Shares!RemoveCv, CountsKept, SharesInv, Shares!TypeOK
<1>5. ASSUME NEW s \in Slot,
             Shares!FindShare(s) \/ Shares!UpdateFails(s) \/ Shares!CreateFails(s) \/ Shares!FindLink(s)
                               \/ Shares!LinkNotFound(s) \/ Shares!CountFails(s)
      PROVE  share' = share /\ shown' = shown
  BY <1>5 DEF Shares!FindShare, Shares!UpdateFails, Shares!CreateFails, Shares!FindLink,
              Shares!LinkNotFound, Shares!CountFails, Shares!Return,
              Shares!dbVars
<1>6. ASSUME NEW s \in Slot, Shares!RequestStep(s)
      PROVE  CountsKept \/ Shares!CreateShare(s) \/ Shares!CountView(s)
  BY <1>1, <1>2, <1>3, <1>5, <1>6 DEF Shares!RequestStep
<1>7. ASSUME NEW s \in Slot, NEW label, NEW x, NEW p, Shares!Start(s, label, x, p)
      PROVE  CountsKept
  BY <1>1, <1>7 DEF Shares!Start, Shares!dbVars
<1>8. CASE Shares!Tick \/ UNCHANGED Shares!vars
  BY <1>1, <1>8 DEF Shares!Tick, Shares!vars, Shares!dbVars
<1> QED BY <1>4, <1>6, <1>7, <1>8 DEF Shares!Next, Shares!ShareCv, Shares!UnshareCv,
                                      Shares!VisitLink

LEMMA ViewsStayCounted ==
    Shares!CvSharesAssumption /\ SharesInv /\ Shares!ViewsCounted /\ [Shares!Next]_(Shares!vars)
        => Shares!ViewsCounted'
<1> SUFFICES ASSUME Shares!CvSharesAssumption, SharesInv, Shares!ViewsCounted,
                    [Shares!Next]_(Shares!vars),
                    NEW c \in SectionCv, share'[c] # None
             PROVE  share'[c].viewCount = shown'[share'[c].link]
  BY DEF Shares!ViewsCounted
<1>1. CASE CountsKept
  BY <1>1 DEF CountsKept, Shares!ViewsCounted
<1>2. ASSUME NEW s \in Slot, Shares!CreateShare(s)
      PROVE  share'[c].viewCount = shown'[share'[c].link]
  <2>1. /\ shareTarget[s] \in SectionCv /\ link[s] \in 0 .. now /\ ~Shares!Live(link[s])
        /\ share' = [share EXCEPT ![shareTarget[s]] =
                        [link |-> link[s], isPublic |-> public[s], viewCount |-> 0]]
        /\ shown' = [shown EXCEPT ![link[s]] = 0]
    BY <1>2 DEF Shares!CreateShare, Shares!Save, Shares!Insertable, SharesInv, ShareTargets
  <2>2. link[s] \in 0 .. MaxClock
    BY <2>1 DEF Shares!CvSharesAssumption, SharesInv, Shares!TypeOK
  <2>3. CASE c = shareTarget[s]
    BY <2>1, <2>2, <2>3 DEF SharesInv, Shares!TypeOK
  <2>4. CASE c # shareTarget[s]
    <3>1. share'[c] = share[c] /\ share[c].link # link[s]
      BY <2>1, <2>4 DEF SharesInv, Shares!TypeOK, Shares!Live
    <3>2. share[c].link \in 0 .. MaxClock
      BY <3>1 DEF Shares!CvSharesAssumption, SharesInv, LinksUnique, Shares!TypeOK
    <3> QED BY <2>1, <3>1, <3>2 DEF SharesInv, Shares!TypeOK, Shares!ViewsCounted
  <2> QED BY <2>3, <2>4
<1>3. ASSUME NEW s \in Slot, Shares!CountView(s)
      PROVE  share'[c].viewCount = shown'[share'[c].link]
  <2>1. PICK d \in SectionCv, r \in Shares!ShareRow :
            /\ Shares!Save(s, d, r) /\ share[d] # None
            /\ share[d].link = shareTarget[s] /\ shareTarget[s] \in 0 .. MaxClock
            /\ r.link = share[d].link /\ r.viewCount = share[d].viewCount + 1
    BY <1>3, CountEffect
  <2>2. /\ share' = [share EXCEPT ![d] = r]
        /\ shown' = [shown EXCEPT ![shareTarget[s]] = shown[shareTarget[s]] + 1]
    BY <1>3, <2>1 DEF Shares!CountView, Shares!Save
  <2>3. CASE c = d
    BY <2>1, <2>2, <2>3 DEF SharesInv, Shares!TypeOK, Shares!ViewsCounted
  <2>4. CASE c # d
    <3>1. share'[c] = share[c] /\ share[c].link # shareTarget[s]
      BY <2>1, <2>2, <2>4 DEF SharesInv, Shares!TypeOK, LinksUnique
    <3>2. shown'[share[c].link] = shown[share[c].link]
      <4>1. share[c].link \in 0 .. MaxClock
        BY <3>1 DEF Shares!CvSharesAssumption, SharesInv, LinksUnique, Shares!TypeOK
      <4> QED BY <2>2, <3>1, <4>1 DEF SharesInv, Shares!TypeOK
    <3> QED BY <3>1, <3>2 DEF Shares!ViewsCounted
  <2> QED BY <2>3, <2>4
<1> QED BY <1>1, <1>2, <1>3, MostStepsKeepCounts

-----------------------------------------------------------------------------
(* Imports. *)

\* The first k of the parts, in the order of a file import.
FirstParts(k) == {Imports!Order[i] : i \in 1 .. k}

\* The import in slot s has made a CV and is filling it.
AtWork(s) == importPc[s] \in {"fill", "createInfo"}

\* What the requests remember: an import at work has a CV of its own, which it
\* makes of the parts it has read, the personal information among them.
ImportLocals ==
    \A s \in Slot :
        /\ AtWork(s) => /\ importTarget[s] \in ImportCv \ whole
                        /\ parts[s] = meant[importTarget[s]]
                        /\ \A t \in Slot \ {s} : importTarget[t] # importTarget[s]
        /\ ~AtWork(s) => importTarget[s] = None
        /\ AtWork(s) \/ importPc[s] = "create" => "info" \in parts[s]
        /\ importPc[s] \in {"idle", "create", "copy", "createInfo"} => step[s] = 0
        /\ importPc[s] = "copy" => parts[s] # {}

\* How far an import at work has come; the owner may have saved the personal
\* information before it.
ImportProgress ==
    \A s \in Slot : AtWork(s) /\ importTarget[s] \in importedCvs =>
        IF step[s] = 0 THEN filled[importTarget[s]] \subseteq {"info"}
        ELSE filled[importTarget[s]] \cap parts[s] = parts[s] \cap FirstParts(step[s])

\* A CV is made of something, also when it is no longer there; one of a file
\* has its personal information.
ImportMade ==
    /\ \A c \in ImportCv \ importedCvs : filled[c] = {}
    /\ \A c \in importedCvs \cup whole : meant[c] # {}
    /\ \A c \in importedCvs \cap whole : meant[c] \subseteq filled[c]
    /\ \A c \in importedCvs \ whole : "info" \in meant[c]

ImportsInv ==
    /\ Imports!TypeOK /\ ImportLocals /\ ImportProgress /\ ImportMade
    /\ Imports!ImportedWholeOrPrefix

LEMMA ImportOrder ==
    /\ Len(Imports!Order) = 5 /\ Imports!Order[1] = "info" /\ Imports!Part = FirstParts(5)
    /\ Len(Imports!Fetches) = 4
    /\ \A i \in 1 .. 5 : Imports!Order[i] \in Imports!Part
    /\ \A i \in 1 .. 4 : Imports!Fetches[i] \in Imports!Part
    /\ FirstParts(0) = {} /\ FirstParts(1) = {"info"}
    /\ \A k \in 0 .. 4 : FirstParts(k + 1) = FirstParts(k) \cup {Imports!Order[k + 1]}
<1>1. Len(Imports!Order) = 5 /\ DOMAIN Imports!Order = 1 .. 5
  BY DEF Imports!Order
<1>2. Imports!Order[1] = "info" /\ Imports!Order[2] = "experience" /\ Imports!Order[3] = "education"
      /\ Imports!Order[4] = "skills" /\ Imports!Order[5] = "projects"
  BY DEF Imports!Order
<1>3. Len(Imports!Fetches) = 4 /\ Imports!Fetches[1] = "info" /\ Imports!Fetches[2] = "experience"
      /\ Imports!Fetches[3] = "education" /\ Imports!Fetches[4] = "skills"
  BY DEF Imports!Fetches
<1>4. Imports!Part = FirstParts(5)
  BY <1>1 DEF Imports!Part, FirstParts
<1>5. \A i \in 1 .. 5 : Imports!Order[i] \in Imports!Part
  BY <1>4 DEF FirstParts
<1>6. \A i \in 1 .. 4 : Imports!Fetches[i] \in Imports!Part
  <2>1. \A i \in 1 .. 4 : Imports!Fetches[i] = Imports!Order[i]
    BY <1>2, <1>3
  <2> QED BY <1>5, <2>1
<1>7. \A k \in 0 .. 4 : FirstParts(k + 1) = FirstParts(k) \cup {Imports!Order[k + 1]}
  BY DEF FirstParts
<1>8. FirstParts(0) = {} /\ FirstParts(1) = {"info"}
  BY <1>2 DEF FirstParts
<1> QED BY <1>1, <1>2, <1>3, <1>4, <1>5, <1>6, <1>7, <1>8

LEMMA ImportsInitInv == Imports!Init => ImportsInv
<1> SUFFICES ASSUME Imports!Init PROVE ImportsInv
  OBVIOUS
<1>1. Imports!TypeOK
  BY ImportOrder DEF Imports!Init, Imports!TypeOK
<1>2. ImportLocals /\ ImportProgress /\ ImportMade /\ Imports!ImportedWholeOrPrefix
  BY DEF Imports!Init, ImportLocals, AtWork, ImportProgress, ImportMade,
         Imports!ImportedWholeOrPrefix
<1> QED BY <1>1, <1>2 DEF ImportsInv

\* A step of a request that has no CV yet, or of one that reads.
LEMMA ImportReadInv ==
    ASSUME Imports!CvImportsAssumption, ImportsInv, NEW s \in Slot,
           \/ \E label \in {"create", "copy", "fetch"}, p \in SUBSET Imports!Part :
                 /\ Imports!Begin(s, label, p)
                 /\ label = "create" => "info" \in p
                 /\ label = "copy" => p # {}
           \/ Imports!FetchPart(s)
           \/ Imports!FetchNothing(s)
    PROVE  ImportsInv'
<1>1. /\ ~AtWork(s) /\ importPc'[s] \in {"create", "copy", "fetch"}
      /\ importPc' \in [Slot -> {"idle", "create", "fill", "createInfo", "copy", "fetch"}]
      /\ parts' \in [Slot -> SUBSET Imports!Part] /\ step' \in [Slot -> 0 .. Len(Imports!Order)]
      /\ importPc'[s] = "create" => "info" \in parts'[s]
      /\ importPc'[s] = "copy" => parts'[s] # {}
      /\ importPc'[s] # "fetch" => step'[s] = 0
      /\ \A t \in Slot \ {s} :
             importPc'[t] = importPc[t] /\ parts'[t] = parts[t] /\ step'[t] = step[t]
      /\ UNCHANGED <<importedCvs, filled, profile, importTarget, meant, whole, failed>>
  <2>1. CASE \E label \in {"create", "copy", "fetch"}, p \in SUBSET Imports!Part :
                 /\ Imports!Begin(s, label, p)
                 /\ label = "create" => "info" \in p
                 /\ label = "copy" => p # {}
    BY <2>1 DEF Imports!Begin, Imports!Goto, Imports!dbVars, Imports!historyVars, ImportsInv,
                Imports!TypeOK, ImportLocals, AtWork
  <2>2. CASE Imports!FetchPart(s)
    <3>1. /\ step[s] \in 0 .. 3 /\ step[s] + 1 \in 0 .. Len(Imports!Order)
          /\ Imports!Fetches[step[s] + 1] \in Imports!Part
      BY <2>2, ImportOrder DEF Imports!FetchPart, Imports!Fetching, ImportsInv, Imports!TypeOK
    <3> QED BY <2>2, <3>1 DEF Imports!FetchPart, Imports!Fetching, Imports!dbVars,
                              Imports!historyVars, ImportsInv, Imports!TypeOK, AtWork
  <2>3. CASE Imports!FetchNothing(s)
    <3>1. step[s] + 1 \in 0 .. Len(Imports!Order)
      BY <2>3, ImportOrder DEF Imports!FetchNothing, Imports!Fetching, ImportsInv,
                               Imports!TypeOK
    <3> QED BY <2>3, <3>1 DEF Imports!FetchNothing, Imports!Fetching, Imports!dbVars,
                              Imports!historyVars, ImportsInv, Imports!TypeOK, AtWork
  <2> QED BY <2>1, <2>2, <2>3
<1>2. \A t \in Slot : AtWork(t)' <=> AtWork(t)
  BY <1>1 DEF AtWork
<1>3. Imports!TypeOK'
  BY <1>1 DEF ImportsInv, Imports!TypeOK
<1>4. ImportLocals'
  BY <1>1, <1>2 DEF ImportsInv, ImportLocals
<1>5. ImportProgress' /\ ImportMade' /\ Imports!ImportedWholeOrPrefix'
  BY <1>1, <1>2 DEF ImportsInv, ImportProgress, ImportMade, Imports!ImportedWholeOrPrefix,
                    Imports!Running
<1> QED BY <1>3, <1>4, <1>5 DEF ImportsInv

\* A step that makes a CV.
LEMMA ImportNewRowInv ==
    ASSUME Imports!CvImportsAssumption, ImportsInv, NEW s \in Slot, NEW c \in ImportCv,
           Imports!CreateCv(s, c) \/ Imports!CopyProfile(s, c)
    PROVE  ImportsInv'
<1>1. /\ c \notin importedCvs /\ meant[c] = {} /\ filled[c] = {} /\ c \notin whole /\ c # None
      /\ \A t \in Slot : importTarget[t] # c
      /\ importedCvs' = importedCvs \cup {c} /\ meant' = [meant EXCEPT ![c] = parts[s]]
      /\ parts[s] \subseteq Imports!Part
      /\ parts[s] # {} /\ ~AtWork(s) /\ importTarget[s] = None /\ UNCHANGED <<profile, failed>>
  <2>1. c \notin importedCvs /\ meant[c] = {} /\ importPc[s] \in {"create",
        "copy"} /\ importedCvs' = importedCvs \cup {c}
        /\ meant' = [meant EXCEPT ![c] = parts[s]] /\ UNCHANGED <<profile, failed>>
    BY DEF Imports!CreateCv, Imports!CopyProfile, Imports!NewRow
  <2>2. \A t \in Slot : importTarget[t] # c
    BY <2>1 DEF ImportsInv, ImportLocals, Imports!CvImportsAssumption
  <2> QED BY <2>1, <2>2 DEF ImportsInv, Imports!TypeOK, ImportLocals, ImportMade, AtWork,
                            Imports!CvImportsAssumption
<1>2. \A d \in ImportCv \ {c} : meant'[d] = meant[d]
  BY <1>1 DEF ImportsInv, Imports!TypeOK
<1>3. meant'[c] = parts[s] /\ meant' \in [ImportCv -> SUBSET Imports!Part]
  BY <1>1 DEF ImportsInv, Imports!TypeOK
<1>4. CASE Imports!CreateCv(s, c)
  <2>1. /\ importPc[s] = "create" /\ importPc' = [importPc EXCEPT ![s] = "fill"]
        /\ importTarget' = [importTarget EXCEPT ![s] = c]
        /\ UNCHANGED <<filled, parts, step, whole>>
        /\ "info" \in parts[s] /\ step[s] = 0
    BY <1>4 DEF Imports!CreateCv, Imports!Goto, ImportsInv, ImportLocals
  <2>2. Imports!TypeOK'
    BY <1>1, <1>3, <2>1 DEF ImportsInv, Imports!TypeOK
  <2>3. /\ importTarget'[s] = c /\ AtWork(s)' /\ importPc'[s] = "fill"
        /\ \A t \in Slot \ {s} : importTarget'[t] = importTarget[t] /\ importPc'[t] = importPc[t]
                                 /\ (AtWork(t)' <=> AtWork(t))
    BY <2>1 DEF AtWork, ImportsInv, Imports!TypeOK
  <2>4. ImportLocals'
    <3>1. ASSUME NEW t \in Slot, t # s, AtWork(t)
          PROVE  meant'[importTarget[t]] = meant[importTarget[t]]
      BY <1>1, <1>2, <3>1 DEF ImportsInv, ImportLocals
    <3>2. ASSUME NEW t \in Slot, t # s
          PROVE  /\ AtWork(t)' => /\ importTarget'[t] \in ImportCv \ whole'
                                  /\ parts'[t] = meant'[importTarget'[t]]
                                  /\ \A u \in Slot \ {t} : importTarget'[u] # importTarget'[t]
                 /\ ~AtWork(t)' => importTarget'[t] = None
                 /\ AtWork(t)' \/ importPc'[t] = "create" => "info" \in parts'[t]
                 /\ importPc'[t] \in {"idle", "create", "copy", "createInfo"} => step'[t] = 0
                 /\ importPc'[t] = "copy" => parts'[t] # {}
      <4>1. \A u \in Slot \ {t} : AtWork(t) => importTarget'[u] # importTarget'[t]
        BY <1>1, <2>3, <3>2 DEF ImportsInv, ImportLocals
      <4> QED BY <2>1, <2>3, <3>1, <3>2, <4>1 DEF ImportsInv, ImportLocals
    <3>3. /\ importTarget'[s] \in ImportCv \ whole' /\ parts'[s] = meant'[importTarget'[s]]
          /\ \A u \in Slot \ {s} : importTarget'[u] # importTarget'[s]
      BY <1>1, <1>3, <2>1, <2>3
    <3> QED BY <2>1, <2>3, <3>2, <3>3 DEF ImportLocals
  <2>5. ImportProgress'
    BY <1>1, <2>1, <2>3 DEF ImportsInv, ImportProgress
  <2>6. ImportMade'
    BY <1>1, <1>2, <1>3, <2>1 DEF ImportsInv, ImportMade
  <2>7. Imports!ImportedWholeOrPrefix'
    <3>1. ASSUME NEW d \in importedCvs, Imports!Running(d) PROVE Imports!Running(d)'
      BY <1>1, <2>3, <3>1 DEF Imports!Running, ImportsInv, Imports!TypeOK,
                              Imports!CvImportsAssumption
    <3>2. Imports!Running(c)' /\ filled'[c] \cap meant'[c] = meant'[c] \cap FirstParts(0)
      BY <1>1, <2>1, <2>3, ImportOrder DEF Imports!Running
    <3>3. 0 \in 0 .. Len(Imports!Order)
      BY ImportOrder
    <3>4. \A d \in importedCvs : d \in ImportCv \ {c}
      BY <1>1 DEF ImportsInv, Imports!TypeOK
    <3> QED BY <1>1, <1>2, <2>1, <3>1, <3>2, <3>3, <3>4
            DEF ImportsInv, Imports!ImportedWholeOrPrefix, FirstParts
  <2> QED BY <2>2, <2>4, <2>5, <2>6, <2>7 DEF ImportsInv
<1>5. CASE Imports!CopyProfile(s, c)
  <2>1. /\ filled' = [filled EXCEPT ![c] = parts[s]] /\ whole' = whole \cup {c}
        /\ importPc' = [importPc EXCEPT ![s] = "idle"] /\ parts' = [parts EXCEPT ![s] = {}]
        /\ importTarget' = [importTarget EXCEPT ![s] = None] /\ step' = [step EXCEPT ![s] = 0]
    BY <1>5 DEF Imports!CopyProfile, Imports!Finish, Imports!Goto
  <2>2. Imports!TypeOK'
    BY <1>1, <1>3, <2>1, ImportOrder DEF ImportsInv, Imports!TypeOK
  <2>3. /\ filled'[c] = parts[s] /\ \A d \in ImportCv \ {c} : filled'[d] = filled[d]
        /\ importPc'[s] = "idle" /\ step'[s] = 0
        /\ \A t \in Slot : importTarget'[t] = importTarget[t] /\ (AtWork(t)' <=> AtWork(t))
        /\ \A t \in Slot \ {s} :
             importPc'[t] = importPc[t] /\ parts'[t] = parts[t] /\ step'[t] = step[t]
    BY <1>1, <2>1 DEF AtWork, ImportsInv, Imports!TypeOK
  <2>4. \A t \in Slot : AtWork(t) => t # s /\ importTarget[t] \in ImportCv \ {c}
    BY <1>1 DEF ImportsInv, ImportLocals
  <2>5. ImportLocals'
    BY <1>2, <2>1, <2>3, <2>4 DEF ImportsInv, ImportLocals
  <2>6. ImportProgress'
    BY <1>1, <2>3, <2>4 DEF ImportsInv, ImportProgress
  <2>7. ImportMade'
    BY <1>1, <1>2, <1>3, <2>1, <2>3 DEF ImportsInv, Imports!TypeOK, ImportMade
  <2>8. \A d \in ImportCv : Imports!Running(d)' <=> Imports!Running(d)
    BY <2>3 DEF Imports!Running
  <2>9. importedCvs \subseteq ImportCv \ {c}
    BY <1>1 DEF ImportsInv, Imports!TypeOK
  <2>10. Imports!ImportedWholeOrPrefix'
    BY <1>1, <1>2, <1>3, <2>1, <2>3, <2>8, <2>9 DEF ImportsInv, Imports!ImportedWholeOrPrefix
  <2> QED BY <2>2, <2>5, <2>6, <2>7, <2>10 DEF ImportsInv
<1> QED BY <1>4, <1>5

\* A step of the import in slot s of its CV, which comes to the next part.
LEMMA ImportFillInv ==
    ASSUME Imports!CvImportsAssumption, ImportsInv, NEW s \in Slot,
           Imports!SkipPart(s) \/ Imports!FillPart(s) \/ Imports!CreateInfo(s)
    PROVE  ImportsInv'
<1> DEFINE c == importTarget[s]
           p == Imports!Order[step[s] + 1]
<1>1. /\ AtWork(s) /\ step[s] \in 0 .. 4 /\ c \in ImportCv \ whole /\ c # None
      /\ p \in Imports!Part /\ parts[s] = meant[c] /\ parts[s] \subseteq Imports!Part
      /\ step' = [step EXCEPT ![s] = step[s] + 1] /\ "info" \in parts[s]
      /\ step[s] = 0 => p = "info"
      /\ UNCHANGED <<importedCvs, profile, parts, importTarget, meant, whole, failed>>
  <2>1. AtWork(s) /\ step[s] \in 0 .. 4
    BY ImportOrder DEF Imports!SkipPart, Imports!FillPart, Imports!CreateInfo, Imports!Filling,
                       AtWork, ImportsInv, Imports!TypeOK, ImportLocals
  <2> QED BY <2>1, ImportOrder DEF Imports!SkipPart, Imports!FillPart, Imports!CreateInfo,
                                   Imports!Save, Imports!dbVars, Imports!historyVars,
                                  ImportsInv, Imports!TypeOK, ImportLocals,
                                  Imports!CvImportsAssumption
<1>2. \/ importPc' = importPc /\ filled' = filled /\ p \notin parts[s]
      \/ /\ importPc' = [importPc EXCEPT ![s] = "fill"]
         /\ filled' = [filled EXCEPT ![c] = filled[c] \cup {p}]
         /\ c \in importedCvs
  <2>1. CASE Imports!SkipPart(s)
    BY <2>1 DEF Imports!SkipPart, Imports!Needed, Imports!dbVars, Imports!historyVars
  <2>2. CASE Imports!FillPart(s)
    BY <2>2 DEF Imports!FillPart, Imports!Save, Imports!Goto
  <2>3. CASE Imports!CreateInfo(s)
    BY <1>1, <2>3 DEF Imports!CreateInfo, Imports!Save, Imports!Goto, ImportsInv, ImportLocals
  <2> QED BY <2>1, <2>2, <2>3
<1>3. /\ importPc'[s] = "fill" /\ step'[s] = step[s] + 1
      /\ importPc' \in [Slot -> {"idle", "create", "fill", "createInfo", "copy", "fetch"}]
      /\ \A t \in Slot \ {s} : importPc'[t] = importPc[t] /\ step'[t] = step[t]
      /\ \A t \in Slot : AtWork(t)' <=> AtWork(t)
  BY <1>1, <1>2 DEF ImportsInv, Imports!TypeOK, AtWork, ImportLocals, Imports!SkipPart,
                    Imports!Filling
<1>4. /\ filled' \in [ImportCv -> SUBSET Imports!Part]
      /\ \A d \in ImportCv : filled[d] \subseteq filled'[d]
      /\ \A d \in ImportCv \ {c} : filled'[d] = filled[d]
      /\ c \notin importedCvs => filled' = filled
      /\ filled'[c] \cap parts[s] = (filled[c] \cup {p}) \cap parts[s]
      /\ filled'[c] \subseteq filled[c] \cup {p}
  <2>1. filled \in [ImportCv -> SUBSET Imports!Part] /\ c \in ImportCv /\ p \in Imports!Part
    BY <1>1 DEF ImportsInv, Imports!TypeOK
  <2>2. CASE filled' = filled /\ p \notin parts[s]
    BY <2>1, <2>2
  <2>3. CASE filled' = [filled EXCEPT ![c] = filled[c] \cup {p}] /\ c \in importedCvs
    <3> HIDE DEF c, p
    <3> QED BY <2>1, <2>3
  <2> QED BY <1>2, <2>2, <2>3
<1>5. Imports!TypeOK'
  <2>1. step' \in [Slot -> 0 .. Len(Imports!Order)]
    BY <1>1, ImportOrder DEF ImportsInv, Imports!TypeOK
  <2> QED BY <1>1, <1>3, <1>4, <2>1 DEF ImportsInv, Imports!TypeOK
<1>6. ImportLocals'
  BY <1>1, <1>3 DEF ImportsInv, ImportLocals, AtWork
<1>7. c \in importedCvs => filled'[c] \cap parts[s] = parts[s] \cap FirstParts(step[s] + 1)
  <2>1. FirstParts(step[s] + 1) = FirstParts(step[s]) \cup {p}
    BY <1>1, ImportOrder
  <2>2. CASE step[s] = 0
    <3>1. c \in importedCvs => filled[c] \subseteq {"info"}
      BY <1>1, <2>2 DEF ImportsInv, ImportProgress
    <3> QED BY <1>1, <1>4, <2>1, <2>2, <3>1, ImportOrder
  <2>3. CASE step[s] # 0
    <3>1. c \in importedCvs => filled[c] \cap parts[s] = parts[s] \cap FirstParts(step[s])
      BY <1>1, <2>3 DEF ImportsInv, ImportProgress
    <3> QED BY <1>4, <2>1, <3>1
  <2> QED BY <2>2, <2>3
<1>8. ImportProgress'
  <2>1. ASSUME NEW t \in Slot, t # s, AtWork(t)
        PROVE  filled'[importTarget[t]] = filled[importTarget[t]]
    BY <1>4, <2>1 DEF ImportsInv, ImportLocals, c
  <2> HIDE DEF c, p
  <2> QED BY <1>1, <1>3, <1>7, <2>1 DEF ImportsInv, ImportProgress, c
<1>9. ImportMade'
  <2>1. \A d \in importedCvs : d \in ImportCv
    BY DEF ImportsInv, Imports!TypeOK
  <2>2. \A d \in ImportCv \ importedCvs : filled'[d] = filled[d]
    BY <1>1, <1>4
  <2> HIDE DEF c, p
  <2> QED BY <1>1, <1>4, <2>1, <2>2 DEF ImportsInv, ImportMade
<1>10. Imports!ImportedWholeOrPrefix'
  <2> SUFFICES ASSUME NEW d \in importedCvs
               PROVE  \/ meant[d] \subseteq filled'[d]
                      \/ /\ d \notin whole
                         /\ Imports!Running(d) \/ d \in failed
                         /\ \E k \in 0 .. Len(Imports!Order) :
                               filled'[d] \cap meant[d] = meant[d] \cap FirstParts(k)
    BY <1>1 DEF Imports!ImportedWholeOrPrefix, FirstParts, Imports!Running
  <2>1. CASE d = c
    BY <1>1, <1>7, <2>1, ImportOrder DEF Imports!Running
  <2>2. CASE d # c
    <3>1. d \in ImportCv
      BY DEF ImportsInv, Imports!TypeOK
    <3> QED BY <1>4, <2>2, <3>1 DEF ImportsInv, Imports!ImportedWholeOrPrefix, FirstParts
  <2> QED BY <2>1, <2>2
<1> QED BY <1>5, <1>6, <1>8, <1>9, <1>10 DEF ImportsInv

\* The personal information of the CV has no row yet.
LEMMA ImportFindNoInfoInv ==
    ASSUME ImportsInv, NEW s \in Slot, Imports!FindNoInfo(s)
    PROVE  ImportsInv'
<1>1. /\ importPc[s] = "fill" /\ step[s] = 0
      /\ importPc' = [importPc EXCEPT ![s] = "createInfo"]
      /\ UNCHANGED <<importedCvs, filled, profile, parts, importTarget, step, meant, whole,
            failed>>
  BY DEF Imports!FindNoInfo, Imports!Filling, Imports!Goto, Imports!dbVars, Imports!historyVars
<1>2. \A t \in Slot : (AtWork(t)' <=> AtWork(t)) /\ (t # s => importPc'[t] = importPc[t])
  BY <1>1 DEF AtWork, ImportsInv, Imports!TypeOK
<1>3. Imports!TypeOK'
  BY <1>1 DEF ImportsInv, Imports!TypeOK
<1>4. ImportLocals'
  BY <1>1, <1>2 DEF ImportsInv, Imports!TypeOK, ImportLocals, AtWork
<1>5. ImportProgress' /\ ImportMade' /\ Imports!ImportedWholeOrPrefix'
  BY <1>1, <1>2 DEF ImportsInv, ImportProgress, ImportMade, Imports!ImportedWholeOrPrefix,
                    Imports!Running
<1> QED BY <1>3, <1>4, <1>5 DEF ImportsInv

\* The end of a request: of an import that is done, of one that fails, or of
\* the fetch of a profile.
LEMMA ImportFinishInv ==
    ASSUME Imports!CvImportsAssumption, ImportsInv, NEW s \in Slot,
           Imports!Done(s) \/ Imports!StoreProfile(s) \/ Imports!Fail(s)
    PROVE  ImportsInv'
<1>1. /\ importPc' = [importPc EXCEPT ![s] = "idle"] /\ parts' = [parts EXCEPT ![s] = {}]
      /\ importTarget' = [importTarget EXCEPT ![s] = None] /\ step' = [step EXCEPT ![s] = 0]
      /\ UNCHANGED <<importedCvs, filled, meant, whole>>
      /\ profile' \subseteq Imports!Part /\ failed \subseteq failed'
      /\ failed' \subseteq ImportCv
      /\ \/ importTarget[s] = None
         \/ importTarget[s] \in failed'
         \/ importPc[s] = "fill" /\ step[s] = 5 /\ importTarget[s] \in importedCvs
  BY ImportOrder DEF Imports!Done, Imports!StoreProfile, Imports!Fail, Imports!Finish,
                     Imports!Goto, Imports!dbVars, Imports!historyVars, ImportsInv,
                     Imports!TypeOK,
                    ImportLocals, AtWork
<1>2. /\ ~AtWork(s)' /\ importPc'[s] = "idle" /\ importTarget'[s] = None /\ step'[s] = 0
      /\ \A t \in Slot \ {s} : /\ importPc'[t] = importPc[t] /\ step'[t] = step[t]
                               /\ parts'[t] = parts[t]
                               /\ importTarget'[t] = importTarget[t]
                               /\ (AtWork(t)' <=> AtWork(t))
  BY <1>1 DEF AtWork, ImportsInv, Imports!TypeOK
<1>3. Imports!TypeOK'
  BY <1>1, ImportOrder DEF ImportsInv, Imports!TypeOK
<1>4. ImportLocals'
  <2>1. ASSUME NEW t \in Slot, AtWork(t)', NEW u \in Slot \ {t}
        PROVE  importTarget'[u] # importTarget'[t]
    BY <1>2, <2>1 DEF ImportsInv, ImportLocals, Imports!CvImportsAssumption
  <2> QED BY <1>1, <1>2, <2>1 DEF ImportsInv, ImportLocals
<1>5. ImportProgress' /\ ImportMade'
  BY <1>1, <1>2 DEF ImportsInv, ImportProgress, ImportMade
<1>6. Imports!ImportedWholeOrPrefix'
  <2>1. ASSUME NEW c \in importedCvs, c # importTarget[s]
        PROVE  Imports!Running(c)' <=> Imports!Running(c)
    BY <1>2, <2>1 DEF Imports!Running, ImportsInv, Imports!TypeOK, Imports!CvImportsAssumption
  <2>2. ASSUME NEW c \in importedCvs, c = importTarget[s]
        PROVE  c \in failed' \/ meant[c] \subseteq filled[c]
    <3>1. c \in ImportCv /\ c # None
      BY DEF ImportsInv, Imports!TypeOK, Imports!CvImportsAssumption
    <3>2. CASE importPc[s] = "fill" /\ step[s] = 5
      <4>1. AtWork(s) /\ parts[s] = meant[c] /\ parts[s] \subseteq Imports!Part
        BY <2>2, <3>2 DEF AtWork, ImportsInv, Imports!TypeOK, ImportLocals
      <4>2. filled[c] \cap parts[s] = parts[s] \cap FirstParts(5)
        BY <2>2, <3>2, <4>1 DEF ImportsInv, ImportProgress
      <4> QED BY <4>1, <4>2, ImportOrder
    <3> QED BY <1>1, <2>2, <3>1, <3>2
  <2> QED BY <1>1, <2>1, <2>2 DEF ImportsInv, Imports!ImportedWholeOrPrefix
<1> QED BY <1>3, <1>4, <1>5, <1>6 DEF ImportsInv

\* The owner saves the personal information of a CV.
LEMMA ImportSaveInfoInv ==
    ASSUME ImportsInv, NEW c \in ImportCv, Imports!SaveInfo(c)
    PROVE  ImportsInv'
<1>1. /\ c \in importedCvs /\ filled' = [filled EXCEPT ![c] = filled[c] \cup {"info"}]
      /\ UNCHANGED <<importedCvs, profile, importPc, parts, importTarget, step, meant, whole,
            failed>>
  BY DEF Imports!SaveInfo, Imports!requestVars, Imports!historyVars
<1>2. /\ "info" \in Imports!Part /\ "info" \in FirstParts(1)
      /\ \A k \in 1 .. 5 : "info" \in FirstParts(k)
  BY ImportOrder DEF FirstParts
<1>3. Imports!TypeOK'
  BY <1>1, <1>2 DEF ImportsInv, Imports!TypeOK
<1>4. ImportLocals'
  BY <1>1 DEF ImportsInv, ImportLocals, AtWork
<1>5. /\ filled'[c] = filled[c] \cup {"info"}
      /\ \A d \in ImportCv \ {c} : filled'[d] = filled[d]
  BY <1>1 DEF ImportsInv, Imports!TypeOK
<1>6. ImportProgress'
  <2> SUFFICES ASSUME NEW s \in Slot, AtWork(s), importTarget[s] \in importedCvs
               PROVE  IF step[s] = 0 THEN filled'[importTarget[s]] \subseteq {"info"}
                      ELSE filled'[importTarget[s]] \cap parts[s] = parts[s] \cap FirstParts(step[s])
    BY <1>1 DEF ImportProgress, AtWork
  <2>1. CASE importTarget[s] # c
    BY <1>5, <2>1 DEF ImportsInv, Imports!TypeOK, ImportProgress
  <2>2. CASE importTarget[s] = c /\ step[s] = 0
    BY <1>5, <2>2 DEF ImportsInv, ImportProgress
  <2>3. CASE importTarget[s] = c /\ step[s] # 0
    <3>1. step[s] \in 1 .. 5
      BY <2>3, ImportOrder DEF ImportsInv, Imports!TypeOK
    <3> QED BY <1>2, <1>5, <2>3, <3>1 DEF ImportsInv, ImportProgress
  <2> QED BY <2>1, <2>2, <2>3
<1>7. ImportMade'
  BY <1>1, <1>5 DEF ImportsInv, Imports!TypeOK, ImportMade
<1>8. Imports!ImportedWholeOrPrefix'
  <2> SUFFICES ASSUME NEW d \in importedCvs
               PROVE  \/ meant[d] \subseteq filled'[d]
                      \/ /\ d \notin whole
                         /\ Imports!Running(d) \/ d \in failed
                         /\ \E k \in 0 .. Len(Imports!Order) :
                               filled'[d] \cap meant[d] = meant[d] \cap FirstParts(k)
    BY <1>1 DEF Imports!ImportedWholeOrPrefix, FirstParts, Imports!Running
  <2>1. \/ meant[d] \subseteq filled[d]
        \/ /\ d \notin whole
           /\ Imports!Running(d) \/ d \in failed
           /\ \E k \in 0 .. Len(Imports!Order) : filled[d] \cap meant[d] = meant[d] \cap FirstParts(k)
    BY DEF ImportsInv, Imports!ImportedWholeOrPrefix, FirstParts
  <2>2. d \in ImportCv
    BY DEF ImportsInv, Imports!TypeOK
  <2>3. CASE d # c \/ meant[d] \subseteq filled[d]
    BY <1>5, <2>1, <2>2, <2>3
  <2>4. CASE d = c /\ ~(meant[d] \subseteq filled[d])
    <3>1. PICK k \in 0 .. Len(Imports!Order) : filled[c] \cap meant[c] = meant[c] \cap FirstParts(k)
      BY <2>1, <2>4
    <3>2. "info" \in meant[c]
      BY <1>1, <2>1, <2>4 DEF ImportsInv, ImportMade
    <3>3. CASE k = 0
      <4>1. filled'[c] \cap meant[c] = meant[c] \cap FirstParts(1)
        BY <1>5, <3>1, <3>2, <3>3, ImportOrder
      <4> QED BY <2>1, <2>4, <4>1, ImportOrder
    <3>4. CASE k # 0
      <4>1. k \in 1 .. 5
        BY <3>4, ImportOrder
      <4>2. filled'[c] \cap meant[c] = meant[c] \cap FirstParts(k)
        BY <1>2, <1>5, <3>1, <3>2, <4>1
      <4> QED BY <2>1, <2>4, <4>2
    <3> QED BY <3>3, <3>4
  <2> QED BY <2>3, <2>4
<1> QED BY <1>3, <1>4, <1>6, <1>7, <1>8 DEF ImportsInv

LEMMA ImportRemoveCvInv ==
    ASSUME ImportsInv, NEW c \in ImportCv, Imports!RemoveCv(c)
    PROVE  ImportsInv'
<1>1. /\ importedCvs' = importedCvs \ {c} /\ filled' = [filled EXCEPT ![c] = {}]
      /\ UNCHANGED <<profile, importPc, parts, importTarget, step, meant, whole, failed>>
  BY DEF Imports!RemoveCv, Imports!requestVars, Imports!historyVars
<1>2. filled'[c] = {} /\ \A d \in ImportCv \ {c} : filled'[d] = filled[d]
  BY <1>1 DEF ImportsInv, Imports!TypeOK
<1>3. Imports!TypeOK'
  BY <1>1 DEF ImportsInv, Imports!TypeOK
<1>4. ImportLocals'
  BY <1>1 DEF ImportsInv, ImportLocals, AtWork
<1>5. \A d \in importedCvs' : d \in importedCvs /\ d \in ImportCv \ {c}
  BY <1>1 DEF ImportsInv, Imports!TypeOK
<1>6. ImportProgress'
  BY <1>1, <1>2, <1>5 DEF ImportsInv, ImportProgress, AtWork
<1>7. ImportMade' /\ Imports!ImportedWholeOrPrefix'
  BY <1>1, <1>2, <1>5 DEF ImportsInv, ImportMade, Imports!ImportedWholeOrPrefix, Imports!Running
<1> QED BY <1>3, <1>4, <1>6, <1>7 DEF ImportsInv

LEMMA ImportsNextInv ==
    ASSUME Imports!CvImportsAssumption, ImportsInv, [Imports!Next]_(Imports!vars)
    PROVE  ImportsInv'
<1>1. ASSUME NEW s \in Slot, NEW p \in FileContents, Imports!ImportFile(s, p) PROVE ImportsInv'
  <2>1. "info" \in Imports!Part /\ p \cup {"info"} \in SUBSET Imports!Part
    BY ImportOrder DEF Imports!CvImportsAssumption
  <2> QED BY <1>1, <2>1, ImportReadInv DEF Imports!ImportFile
<1>2. ASSUME NEW s \in Slot, Imports!ImportLinkedIn(s) \/ Imports!FetchProfile(s)
      PROVE  ImportsInv'
  <2>1. profile \in SUBSET Imports!Part
    BY DEF ImportsInv, Imports!TypeOK
  <2> QED BY <1>2, <2>1, ImportReadInv DEF Imports!ImportLinkedIn, Imports!FetchProfile
<1>3. ASSUME NEW s \in Slot, Imports!FetchPart(s) \/ Imports!FetchNothing(s) PROVE ImportsInv'
  BY <1>3, ImportReadInv
<1>4. ASSUME NEW s \in Slot, NEW c \in ImportCv, Imports!CreateCv(s,
             c) \/ Imports!CopyProfile(s, c) PROVE ImportsInv'
  BY <1>4, ImportNewRowInv
<1>5. ASSUME NEW s \in Slot, Imports!SkipPart(s) \/ Imports!FillPart(s) \/ Imports!CreateInfo(s)
      PROVE  ImportsInv'
  BY <1>5, ImportFillInv
<1>6. ASSUME NEW s \in Slot, Imports!FindNoInfo(s) PROVE ImportsInv'
  BY <1>6, ImportFindNoInfoInv
<1>7. ASSUME NEW s \in Slot, Imports!Done(s) \/ Imports!StoreProfile(s) \/ Imports!Fail(s)
      PROVE  ImportsInv'
  BY <1>7, ImportFinishInv
<1>8. ASSUME NEW c \in ImportCv, Imports!SaveInfo(c) \/ Imports!RemoveCv(c) PROVE ImportsInv'
  BY <1>8, ImportSaveInfoInv, ImportRemoveCvInv
<1>9. CASE UNCHANGED Imports!vars
  <2>1. UNCHANGED <<importedCvs, filled, profile, importPc, parts, importTarget, step, meant,
        whole, failed>>
    BY <1>9 DEF Imports!vars, Imports!dbVars, Imports!requestVars, Imports!historyVars
  <2> QED BY <2>1 DEF ImportsInv, Imports!TypeOK, ImportLocals, ImportProgress, ImportMade,
                      Imports!ImportedWholeOrPrefix, Imports!Running, AtWork
<1> QED BY <1>1, <1>2, <1>3, <1>4, <1>5, <1>6, <1>7, <1>8, <1>9 DEF Imports!Next

-----------------------------------------------------------------------------
(* The invariants, and the theorems. *)

LEMMA SectionsInvariant == ContentsSpec => []SectionsInv
<1>1. SectionsInv /\ [Sections!Next]_(Sections!vars) => SectionsInv'
  BY PartsAssumption, SectionsNextInv
<1> QED BY SectionsSpec, SectionsInitInv, <1>1, PTL DEF Sections!Spec

LEMMA SharesInvariant == ContentsSpec => []SharesInv
<1>1. Shares!Init => SharesInv
  BY PartsAssumption, SharesInitInv
<1>2. SharesInv /\ [Shares!Next]_(Shares!vars) => SharesInv'
  BY PartsAssumption, SharesNextInv
<1> QED BY SharesSpec, <1>1, <1>2, PTL DEF Shares!Spec

LEMMA ImportsInvariant == ContentsSpec => []ImportsInv
<1>1. ImportsInv /\ [Imports!Next]_(Imports!vars) => ImportsInv'
  BY PartsAssumption, ImportsNextInv
<1> QED BY ImportsSpec, ImportsInitInv, <1>1, PTL DEF Imports!Spec

\* Every state of the rows of CVs, of their items, links and imports and of
\* their requests has its types.
THEOREM PartsTypeCorrect == ContentsSpec => []PartsTypeOK
<1>1. SectionsInv => Sections!TypeOK
  BY DEF SectionsInv
<1>2. SharesInv => Shares!TypeOK
  BY DEF SharesInv
<1>3. ImportsInv => Imports!TypeOK
  BY DEF ImportsInv
<1> QED BY CvsSpec, TypeCorrect, SectionsInvariant, SharesInvariant, ImportsInvariant,
           <1>1, <1>2, <1>3, PTL DEF PartsTypeOK

\* CvService's bulk upserts: what a list names is in its section when the
\* upsert commits, whatever other requests delete and insert.
THEOREM ListsSurvive == ContentsSpec => ListSurvives
<1>1. SectionsInv /\ [Sections!Next]_(Sections!vars) =>
        [\A s \in Slot :
             Sections!Writing(s) /\ sectionPc'[s] = "idle" /\ Sections!dbVars' # Sections!dbVars
                 => \A i \in listed[s] : cvOf'[i] = sectionTarget[s]]_(Sections!vars)
  <2> SUFFICES ASSUME SectionsInv, [Sections!Next]_(Sections!vars), NEW s \in Slot,
                      Sections!Writing(s), sectionPc'[s] = "idle",
                      Sections!dbVars' # Sections!dbVars, NEW i \in listed[s]
               PROVE  cvOf'[i] = sectionTarget[s]
    OBVIOUS
  <2>1. Sections!Commit(s)
    BY OnlyCommitEnds
  <2>2. /\ sectionPc[s] = "write" /\ toUpdate[s] = {} /\ i \in Item /\ i \notin Sections!Deleted(s)
        /\ cvOf'[i] = IF i \in inserted[s] THEN sectionTarget[s] ELSE cvOf[i]
    BY <2>1, SectionSlotTypes DEF SectionsInv, Sections!Commit, Sections!Writing, Sections!Deleted
  <2> QED BY <2>2 DEF SectionsInv, RowsInv
<1> QED BY SectionsSpec, SectionsInvariant, <1>1, PTL
        DEF Sections!Spec, ListSurvives, Sections!ListSurvives

\* And what it leaves out is gone, but for what came after its deleteMany.
THEOREM OmittedAreGone == ContentsSpec => OmittedItemsGo
<1>1. SectionsInv /\ [Sections!Next]_(Sections!vars) =>
        [\A s \in Slot :
             Sections!Writing(s) /\ sectionPc'[s] = "idle" /\ Sections!dbVars' # Sections!dbVars
                 => \A i \in Item : cvOf'[i] = sectionTarget[s] =>
                        i \in listed[s] \cup inserted[s] \cup late[s]]_(Sections!vars)
  <2> SUFFICES ASSUME SectionsInv, [Sections!Next]_(Sections!vars), NEW s \in Slot,
                      Sections!Writing(s), sectionPc'[s] = "idle",
                      Sections!dbVars' # Sections!dbVars, NEW i \in Item,
                      cvOf'[i] = sectionTarget[s]
               PROVE  i \in listed[s] \cup inserted[s] \cup late[s]
    OBVIOUS
  <2>1. Sections!Commit(s)
    BY OnlyCommitEnds
  <2>2. sectionPc[s] = "write" /\ toDelete[s] = {} /\ sectionTarget[s] # None
    BY DEF SectionsInv, Sections!TypeOK, Sections!Writing
  <2>3. cvOf'[i] = IF i \in held[s] \ listed[s] THEN None
                   ELSE IF i \in inserted[s] THEN sectionTarget[s] ELSE cvOf[i]
    BY <2>1 DEF Sections!Commit, Sections!Deleted
  <2>4. i \in inserted[s] \/ (cvOf[i] = sectionTarget[s] /\ i \notin held[s] \ listed[s])
    BY <2>2, <2>3
  <2>5. cvOf[i] = sectionTarget[s] => i \in listed[s] \cup held[s] \cup late[s]
    BY <2>2 DEF SectionsInv, SeenInv
  <2> QED BY <2>4, <2>5
<1> QED BY SectionsSpec, SectionsInvariant, <1>1, PTL
        DEF Sections!Spec, OmittedItemsGo, Sections!OmittedItemsGo

\* CvService.getPublicCv: however many visitors overlap each other and the
\* owner's changes, the count of a share is that of those who were shown its CV.
THEOREM EveryViewCounted == ContentsSpec => []ViewsCounted
<1>1. Shares!Init => Shares!ViewsCounted
  BY DEF Shares!Init, Shares!ViewsCounted
<1>2. SharesInv /\ Shares!ViewsCounted /\ [Shares!Next]_(Shares!vars) => Shares!ViewsCounted'
  BY PartsAssumption, ViewsStayCounted
<1> QED BY SharesSpec, SharesInvariant, <1>1, <1>2, PTL DEF Shares!Spec, ViewsCounted

\* CvService.shareCv and unshareCv: a link that is dead stays dead, unless a
\* request that made it in the same millisecond has yet to insert it.
THEOREM DeadLinksStayDead == ContentsSpec => DeadLinkStaysDead
<1>1. SharesInv /\ [Shares!Next]_(Shares!vars) =>
        [\A g \in 0 .. MaxClock : Shares!Dead(g) => Shares!Dead(g)']_(Shares!vars)
  <2> SUFFICES ASSUME SharesInv, [Shares!Next]_(Shares!vars), NEW g \in 0 .. MaxClock,
                      Shares!Dead(g) PROVE Shares!Dead(g)'
    OBVIOUS
  <2>1. now' >= now /\ now \in Nat /\ now' \in Nat
    <3>1. now \in Nat
      BY PartsAssumption DEF Shares!CvSharesAssumption, SharesInv, Shares!TypeOK
    <3>2. now' = now \/ now' = now + 1
      BY DEF Shares!Next, Shares!vars, Shares!ShareCv, Shares!UnshareCv, Shares!VisitLink,
             Shares!Start, Shares!RequestStep, Shares!FindShare,
             Shares!UpdateShare, Shares!UpdateFails, Shares!CreateShare, Shares!CreateFails,
             Shares!Unshare, Shares!FindLink,
             Shares!LinkNotFound, Shares!CountView, Shares!CountFails, Shares!RemoveCv,
             Shares!Tick, Shares!Save, Shares!Return, Shares!Finish
    <3> QED BY <3>1, <3>2
  <2>2. \A c \in SectionCv : share'[c] # None => share'[c].link # g
    <3>1. CASE CountsKept
      BY <3>1 DEF CountsKept, Shares!Dead, Shares!Live
    <3>2. ASSUME NEW s \in Slot, Shares!CreateShare(s), NEW c \in SectionCv, share'[c] # None
          PROVE  share'[c].link # g
      <4>1. share' = [share EXCEPT ![shareTarget[s]] =
                          [link |-> link[s], isPublic |-> public[s], viewCount |-> 0]]
        BY <3>2 DEF Shares!CreateShare, Shares!Save
      <4> QED BY <3>2, <4>1 DEF SharesInv, Shares!TypeOK, Shares!Dead, Shares!Live
    <3>3. ASSUME NEW s \in Slot, Shares!CountView(s), NEW c \in SectionCv, share'[c] # None
          PROVE  share'[c].link # g
      <4>1. PICK d \in SectionCv, r \in Shares!ShareRow :
                Shares!Save(s, d, r) /\ share[d] # None /\ r.link = share[d].link
        BY <3>3, CountEffect
      <4>2. share' = [share EXCEPT ![d] = r]
        BY <4>1 DEF Shares!Save
      <4> QED BY <3>3, <4>1, <4>2 DEF SharesInv, Shares!TypeOK, Shares!Dead, Shares!Live
    <3> QED BY <3>1, <3>2, <3>3, MostStepsKeepCounts
  <2>3. \A t \in Slot : link'[t] = link[t] \/ link'[t] = None \/ link'[t] = now
    BY DEF SharesInv, Shares!TypeOK, Shares!Next, Shares!vars, Shares!requestVars,
           Shares!ShareCv, Shares!UnshareCv, Shares!VisitLink, Shares!Start,
           Shares!RequestStep, Shares!FindShare, Shares!NewLink, Shares!UpdateShare,
           Shares!UpdateFails, Shares!CreateShare, Shares!CreateFails,
           Shares!Unshare, Shares!FindLink, Shares!LinkNotFound, Shares!CountView,
           Shares!CountFails, Shares!RemoveCv, Shares!Tick, Shares!Save,
           Shares!Return, Shares!Finish
  <2>4. g # None /\ g < now
    BY PartsAssumption DEF Shares!CvSharesAssumption, Shares!Dead
  <2> QED BY <2>1, <2>2, <2>3, <2>4 DEF Shares!Dead, Shares!Live
<1> QED BY SharesSpec, SharesInvariant, <1>1, PTL
        DEF Shares!Spec, DeadLinkStaysDead, Shares!DeadLinkStaysDead

\* CvFileImportService and CvImportService: what an import has made is whole,
\* or a prefix of what it was to be and the import runs or has failed.
THEOREM ImportsWholeOrPrefix == ContentsSpec => []ImportedWholeOrPrefix
<1>1. ImportsInv => Imports!ImportedWholeOrPrefix
  BY DEF ImportsInv
<1> QED BY ImportsInvariant, <1>1, PTL DEF ImportedWholeOrPrefix

=============================================================================
