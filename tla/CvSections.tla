------------------------------ MODULE CvSections ------------------------------
(***************************************************************************)
(* The items of a list section of CVs: CvService's bulkUpsertExperiences   *)
(* and its six siblings (education, skills, certifications, projects,      *)
(* languages, custom sections), which are the same code over seven tables, *)
(* and the part of duplicate that copies a section.                        *)
(*                                                                         *)
(* A bulk upsert is one transaction under READ COMMITTED: a delete of the  *)
(* items the list does not name, then an update or an insert for each item *)
(* of the list.  What it deletes is what its first statement sees; a row   *)
(* that another transaction has written is waited for and looked at again, *)
(* and of transactions that wait for one another PostgreSQL aborts one.    *)
(* What an item says is left out: the properties are about which items a   *)
(* CV has.  Requests without access to the CV change nothing.              *)
(***************************************************************************)
EXTENDS Integers, FiniteSets, FiniteSetsExt

CONSTANTS
    Slot,     \* concurrent requests
    Cv,       \* identifiers of CVs
    Item,     \* identifiers of items
    MaxKept,  \* bound: identifiers in one list
    MaxNew,   \* bound: new items in one list
    NoCv      \* the CV of an item that is not there

\* What the composing module assumes.
CvSectionsAssumption ==
    /\ IsFiniteSet(Slot) /\ Slot # {}
    /\ IsFiniteSet(Item)
    /\ MaxKept \in Nat /\ MaxNew \in Nat
    /\ NoCv \notin Cv

VARIABLES
    cvs,        \* the CVs that have a row
    cvOf,       \* cvOf[i]: the CV whose section has item i
    pc,         \* pc[s]: what the request in slot s does next
    target,     \* target[s]: the CV it writes
    listed,     \* listed[s]: the identifiers in its list
    toDelete,   \* toDelete[s]: rows its deleteMany has not yet deleted
    toUpdate,   \* toUpdate[s]: listed items it has not yet updated
    toInsert,   \* toInsert[s]: how many items it has yet to insert
    held,       \* held[s]: rows it has deleted or updated and not committed
    inserted,   \* inserted[s]: rows it has inserted and not committed
    late        \* history: late[s], items committed since the delete of s began

dbVars == <<cvs, cvOf>>
listVars == <<target, listed>>
txVars == <<toDelete, toUpdate, toInsert, held, inserted>>
vars == <<dbVars, pc, listVars, txVars, late>>

-----------------------------------------------------------------------------
ItemsOf(c) == {i \in Item : cvOf[i] = c}

\* The state has the types of the columns and variables it stands for.
TypeOK ==
    /\ cvs \subseteq Cv
    /\ cvOf \in [Item -> cvs \cup {NoCv}]
    /\ pc \in [Slot -> {"idle", "delete", "write", "copy"}]
    /\ target \in [Slot -> Cv \cup {NoCv}]
    /\ \A s \in Slot : pc[s] = "idle" <=> target[s] = NoCv
    /\ \A f \in {listed, toDelete, toUpdate, held, inserted, late} : f \in [Slot -> SUBSET Item]
    /\ toInsert \in [Slot -> Nat]

Init ==
    /\ cvs \in SUBSET Cv
    /\ cvOf \in [Item -> cvs \cup {NoCv}]
    /\ pc = [s \in Slot |-> "idle"]
    /\ target = [s \in Slot |-> NoCv]
    /\ listed = [s \in Slot |-> {}]
    /\ toDelete = [s \in Slot |-> {}]
    /\ toUpdate = [s \in Slot |-> {}]
    /\ toInsert = [s \in Slot |-> 0]
    /\ held = [s \in Slot |-> {}]
    /\ inserted = [s \in Slot |-> {}]
    /\ late = [s \in Slot |-> {}]

-----------------------------------------------------------------------------
\* Identifiers a new item may get: UUIDs, never used before.
Fresh == {i \in Item : /\ cvOf[i] = NoCv
                       /\ \A s \in Slot : i \notin listed[s] \cup toDelete[s] \cup inserted[s]}

\* Bound: the model has identifiers left for the new items.
Room(ids, new) ==
    MapThenSumSet(LAMBDA s : toInsert[s], Slot) + new <= Cardinality(Fresh \ ids)

Start(s, label, c, ids, new) ==
    /\ pc[s] = "idle"
    /\ Room(ids, new)
    /\ pc' = [pc EXCEPT ![s] = label]
    /\ target' = [target EXCEPT ![s] = c]
    /\ listed' = [listed EXCEPT ![s] = ids]
    /\ toUpdate' = [toUpdate EXCEPT ![s] = ids]
    /\ toInsert' = [toInsert EXCEPT ![s] = new]
    /\ UNCHANGED <<dbVars, toDelete, held, inserted, late>>

\* bulkUpsert...: findCvOrThrow has found the CV; a list of items to keep, by
\* identifier, which may name items of no CV or of another one, and new items.
BulkUpsert(s, c, ids, new) ==
    /\ c \in cvs
    /\ Start(s, "delete", c, ids, new)

\* duplicate: the source's items are read, to be inserted for a new CV.
Duplicate(s, source, c) ==
    /\ source \in cvs
    /\ c \in Cv \ cvs
    /\ \A t \in Slot : target[t] # c
    /\ Start(s, "copy", c, {}, Cardinality(ItemsOf(source)))

\* The transaction of s is over, and with it the request.
Finish(s, new) ==
    /\ pc' = [pc EXCEPT ![s] = "idle"]
    /\ target' = [target EXCEPT ![s] = NoCv]
    /\ listed' = [listed EXCEPT ![s] = {}]
    /\ toDelete' = [toDelete EXCEPT ![s] = {}]
    /\ toUpdate' = [toUpdate EXCEPT ![s] = {}]
    /\ toInsert' = [toInsert EXCEPT ![s] = 0]
    /\ held' = [held EXCEPT ![s] = {}]
    /\ inserted' = [inserted EXCEPT ![s] = {}]
    /\ late' = [t \in Slot |-> IF t # s /\ pc[t] = "write" THEN late[t] \cup new ELSE {}]

Rollback(s) ==
    /\ Finish(s, {})
    /\ UNCHANGED dbVars

-----------------------------------------------------------------------------
HeldByOthers(i, s) == \E t \in Slot \ {s} : i \in held[t]

\* deleteMany starts: it sees the items committed by now.
DeleteUnlisted(s) ==
    /\ pc[s] = "delete"
    /\ pc' = [pc EXCEPT ![s] = "write"]
    /\ toDelete' = [toDelete EXCEPT ![s] = ItemsOf(target[s]) \ listed[s]]
    /\ UNCHANGED <<dbVars, listVars, toUpdate, toInsert, held, inserted, late>>

\* deleteMany has the lock of row i; a row deleted meanwhile is skipped.
DeleteRow(s, i) ==
    /\ i \in toDelete[s]
    /\ ~HeldByOthers(i, s)
    /\ toDelete' = [toDelete EXCEPT ![s] = @ \ {i}]
    /\ held' = [held EXCEPT ![s] = IF cvOf[i] = NoCv THEN @ ELSE @ \cup {i}]
    /\ UNCHANGED <<dbVars, pc, listVars, toUpdate, toInsert, inserted, late>>

Writing(s) == pc[s] = "write" /\ toDelete[s] = {}

\* Mutant: updateMany looks for the identifier alone.
FoundById(s, i) == cvOf[i] # NoCv

\* updateMany looks for the identifier and the CV.
FoundInCv(s, i) == cvOf[i] = target[s]

\* It has found the item.
UpdateItem(s, i) ==
    /\ Writing(s)
    /\ i \in toUpdate[s]
    /\ ~HeldByOthers(i, s)
    /\ FoundInCv(s, i)
    /\ toUpdate' = [toUpdate EXCEPT ![s] = @ \ {i}]
    /\ held' = [held EXCEPT ![s] = @ \cup {i}]
    /\ UNCHANGED <<dbVars, pc, listVars, toDelete, toInsert, inserted, late>>

\* It has found none: BadRequestException, and the transaction is rolled back.
ItemNotFound(s, i) ==
    /\ Writing(s)
    /\ i \in toUpdate[s]
    /\ ~HeldByOthers(i, s)
    /\ ~FoundInCv(s, i)
    /\ Rollback(s)

\* An item without identifier, or one copied by duplicate, is created.
InsertItem(s, i) ==
    /\ Writing(s) \/ pc[s] = "copy"
    /\ toInsert[s] > 0
    /\ target[s] \in cvs \/ pc[s] = "copy"
    /\ i \in Fresh
    /\ inserted' = [inserted EXCEPT ![s] = @ \cup {i}]
    /\ toInsert' = [toInsert EXCEPT ![s] = @ - 1]
    /\ UNCHANGED <<dbVars, pc, listVars, toDelete, toUpdate, held, late>>

\* The CV was removed: the new item refers to no row.
InsertFails(s) ==
    /\ Writing(s)
    /\ toInsert[s] > 0
    /\ target[s] \notin cvs
    /\ Rollback(s)

\* Mutant: the items the list leaves out are not deleted.
Kept(s) == {}

\* The items s has deleted.
Deleted(s) == held[s] \ listed[s]

Commit(s) ==
    /\ Writing(s) \/ pc[s] = "copy"
    /\ toUpdate[s] = {} /\ toInsert[s] = 0
    /\ cvs' = IF pc[s] = "copy" THEN cvs \cup {target[s]} ELSE cvs
    /\ cvOf' = [i \in Item |-> IF i \in Deleted(s) THEN NoCv
                               ELSE IF i \in inserted[s] THEN target[s] ELSE cvOf[i]]
    /\ Finish(s, inserted[s])

-----------------------------------------------------------------------------
\* The row of c is deleted and takes its items along; it waits for the
\* transactions that hold or reference them.
RemoveCv(c) ==
    /\ c \in cvs
    /\ \A s \in Slot : held[s] \cap ItemsOf(c) = {} /\ (inserted[s] = {} \/ target[s] # c)
    /\ cvs' = cvs \ {c}
    /\ cvOf' = [i \in Item |-> IF cvOf[i] = c THEN NoCv ELSE cvOf[i]]
    /\ UNCHANGED <<pc, listVars, txVars, late>>

\* s waits for a row that t holds.
WaitsFor(s, t) ==
    /\ s # t
    /\ pc[s] = "write"
    /\ held[t] \cap (IF toDelete[s] # {} THEN toDelete[s] ELSE toUpdate[s]) # {}

Deadlocked(s) == \E D \in SUBSET Slot : /\ s \in D
                                        /\ \A t \in D : \E u \in D : WaitsFor(t, u)

\* PostgreSQL aborts a transaction that is part of a deadlock.
DeadlockVictim(s) ==
    /\ Deadlocked(s)
    /\ Rollback(s)

\* A statement fails, or the process stops: the transaction is rolled back.
Fail(s) ==
    /\ pc[s] # "idle"
    /\ Rollback(s)

RequestStep(s) ==
    \/ DeleteUnlisted(s)
    \/ \E i \in Item : DeleteRow(s, i) \/ UpdateItem(s, i) \/ ItemNotFound(s, i) \/ InsertItem(s, i)
    \/ InsertFails(s)
    \/ Commit(s)
    \/ DeadlockVictim(s)

Next ==
    \/ \E s \in Slot :
        \/ \E c \in Cv, ids \in UNION {kSubset(k, Item) : k \in 0 .. MaxKept}, new \in 0 .. MaxNew :
               BulkUpsert(s, c, ids, new)
        \/ \E source, c \in Cv : Duplicate(s, source, c)
        \/ RequestStep(s)
        \/ Fail(s)
    \/ \E c \in Cv : RemoveCv(c)

Spec == Init /\ [][Next]_vars

-----------------------------------------------------------------------------
\* What a list leaves out is gone when its upsert commits, except items that
\* requests running at the same time have added since its delete: two lists
\* saved together are merged, an older item is never brought back.
OmittedItemsGo ==
    [][\A s \in Slot : Writing(s) /\ pc'[s] = "idle" /\ dbVars' # dbVars =>
           \A i \in Item : cvOf'[i] = target[s] =>
               i \in listed[s] \cup inserted[s] \cup late[s]]_vars

\* All or nothing: when an upsert commits, every item its list names is in the
\* section of its CV, also if other requests delete items, or the list names
\* items of another CV.
ListSurvives ==
    [][\A s \in Slot : Writing(s) /\ pc'[s] = "idle" /\ dbVars' # dbVars =>
           \A i \in listed[s] : cvOf'[i] = target[s]]_vars

=============================================================================
