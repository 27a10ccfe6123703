--------------------------------- MODULE Cvs ---------------------------------
(***************************************************************************)
(* The CVs of one user: CvService's create, update, remove and duplicate,  *)
(* with ensureUniqueSlug and the flag that marks the default CV.           *)
(*                                                                         *)
(* Statements run under PostgreSQL's READ COMMITTED.  The only transaction *)
(* of several statements here is the one of update: the first clears the   *)
(* flag of the other CVs, the second writes the CV itself.  A statement    *)
(* sees the rows committed when it starts; a row it wants to write that    *)
(* another transaction has written is waited for and looked at again, and  *)
(* of transactions that wait for one another PostgreSQL aborts one.        *)
(*                                                                         *)
(* A slug is a title, as generateSlug writes it, and the number or time    *)
(* appended to it.  Requests for the CV of another user (403) or for none  *)
(* (404) change nothing and are left out; what a CV holds is in CvSections *)
(* and CvShares.                                                           *)
(***************************************************************************)
EXTENDS Integers, FiniteSets

CONSTANTS
    Slot,         \* concurrent requests
    Cv,           \* identifiers of CVs
    Title,        \* titles, as slugs
    MaxAttempts,  \* candidates ensureUniqueSlug looks up (20 in the code)
    Stamp,        \* times it may append when they are all taken
    Dtos,         \* update requests: a title or None, and isDefault
    None          \* no row, no title, no slug, no CV

Slugs == Title \X ((0 .. MaxAttempts - 1) \cup Stamp)

ASSUME CvsAssumption ==
    /\ IsFiniteSet(Slot) /\ Slot # {}
    /\ IsFiniteSet(Cv)
    /\ MaxAttempts \in Nat \ {0}
    /\ None \notin Cv \cup Title \cup Slugs
    /\ Stamp \cap Nat = {}
    /\ Dtos \subseteq (Title \cup {None}) \X {"set", "unset", "absent"}

VARIABLES
    slug,        \* slug[c]: the slug of the row of c, None when there is no row
    default,     \* the CVs whose isDefault is set
    pc,          \* pc[s]: what the request in slot s does next
    target,      \* target[s]: the CV it writes
    title,       \* title[s]: the title it gives it, if any
    flag,        \* flag[s]: isDefault of its dto: "set", "unset" or "absent"
    tries,       \* tries[s]: the candidates found taken
    chosen,      \* chosen[s]: the slug ensureUniqueSlug returned
    toClear,     \* toClear[s]: rows of its updateMany not yet written
    cleared,     \* cleared[s]: rows it has written, and holds until it commits
    disturbed    \* history: the requests during which another one wrote a row

dbVars == <<slug, default>>
slugVars == <<title, tries, chosen>>
txVars == <<toClear, cleared>>
requestVars == <<pc, target, flag, slugVars, txVars>>
vars == <<dbVars, requestVars, disturbed>>

-----------------------------------------------------------------------------
Rows == {c \in Cv : slug[c] # None}

\* The state has the types of the columns and variables it stands for.
TypeOK ==
    /\ slug \in [Cv -> Slugs \cup {None}]
    /\ default \subseteq Rows
    /\ pc \in [Slot -> {"idle", "lookNew", "lookOwn", "insert", "clear", "write",
                        "delete"}]
    /\ target \in [Slot -> Cv \cup {None}]
    /\ \A s \in Slot : pc[s] = "idle" <=> target[s] = None
    /\ title \in [Slot -> Title \cup {None}]
    /\ flag \in [Slot -> {"set", "unset", "absent"}]
    /\ tries \in [Slot -> 0 .. MaxAttempts]
    /\ chosen \in [Slot -> Slugs \cup {None}]
    /\ toClear \in [Slot -> SUBSET Cv]
    /\ cleared \in [Slot -> SUBSET Cv]
    /\ disturbed \subseteq Slot

Init ==
    /\ slug = [c \in Cv |-> None]
    /\ default = {}
    /\ pc = [s \in Slot |-> "idle"]
    /\ target = [s \in Slot |-> None]
    /\ title = [s \in Slot |-> None]
    /\ flag = [s \in Slot |-> "absent"]
    /\ tries = [s \in Slot |-> 0]
    /\ chosen = [s \in Slot |-> None]
    /\ toClear = [s \in Slot |-> {}]
    /\ cleared = [s \in Slot |-> {}]
    /\ disturbed = {}

-----------------------------------------------------------------------------
\* Identifiers a new row may get: UUIDs, never used before.
Fresh == {c \in Cv : /\ slug[c] = None
                     /\ \A s \in Slot : c # target[s] /\ c \notin toClear[s]}

Start(s, label, c, t, f) ==
    /\ pc[s] = "idle"
    /\ pc' = [pc EXCEPT ![s] = label]
    /\ target' = [target EXCEPT ![s] = c]
    /\ title' = [title EXCEPT ![s] = t]
    /\ flag' = [flag EXCEPT ![s] = f]
    /\ UNCHANGED <<dbVars, tries, chosen, txVars, disturbed>>

\* What s wrote, requests that choose or have chosen a slug may have read.
OnSlugs == {t \in Slot : title[t] # None \/ chosen[t] # None}

\* The request returns or throws; its transaction, if any, is over.
Finish(s, wrote) ==
    /\ pc' = [pc EXCEPT ![s] = "idle"]
    /\ target' = [target EXCEPT ![s] = None]
    /\ title' = [title EXCEPT ![s] = None]
    /\ flag' = [flag EXCEPT ![s] = "absent"]
    /\ tries' = [tries EXCEPT ![s] = 0]
    /\ chosen' = [chosen EXCEPT ![s] = None]
    /\ toClear' = [toClear EXCEPT ![s] = {}]
    /\ cleared' = [cleared EXCEPT ![s] = {}]
    /\ disturbed' = (disturbed \cup (IF wrote THEN OnSlugs ELSE {})) \ {s}

\* Nothing is written: an error, or a transaction rolled back.
Reject(s) ==
    /\ Finish(s, FALSE)
    /\ UNCHANGED dbVars

-----------------------------------------------------------------------------
\* CvService.create, and the creations of the two imports.
Create(s, c, t) ==
    /\ c \in Fresh
    /\ Start(s, "lookNew", c, t, "absent")

\* CvService.duplicate of a CV that is there.
Duplicate(s, c, t) ==
    /\ Rows # {}
    /\ Create(s, c, t)

\* An update that makes its CV the default clears the others first.
AfterLook(s, f) == IF pc[s] = "lookNew" THEN "insert"
                   ELSE IF f = "set" THEN "clear" ELSE "write"

\* CvService.update: findCvOrThrow has found the row.
Update(s, c, t, f) ==
    /\ c \in Rows
    /\ Start(s, IF t = None THEN AfterLook(s, f) ELSE "lookOwn", c, t, f)

\* CvService.remove: findCvOrThrow has found the row.
Remove(s, c) ==
    /\ c \in Rows
    /\ Start(s, "delete", c, None, "absent")

-----------------------------------------------------------------------------
(* ensureUniqueSlug: one lookup of (userId, slug) per candidate. *)

Looking(s) == pc[s] \in {"lookNew", "lookOwn"}

\* No other CV has the slug g.
Free(g, c) == \A d \in Cv \ {c} : slug[d] # g

CandidateTaken(s) ==
    /\ Looking(s)
    /\ tries[s] < MaxAttempts
    /\ ~Free(<<title[s], tries[s]>>, target[s])
    /\ tries' = [tries EXCEPT ![s] = @ + 1]
    /\ UNCHANGED <<dbVars, pc, target, title, flag, chosen, txVars, disturbed>>

\* It returns g, and its own variables are gone.
Choose(s, g) ==
    /\ chosen' = [chosen EXCEPT ![s] = g]
    /\ title' = [title EXCEPT ![s] = None]
    /\ tries' = [tries EXCEPT ![s] = 0]
    /\ pc' = [pc EXCEPT ![s] = AfterLook(s, flag[s])]
    /\ UNCHANGED <<dbVars, target, flag, txVars, disturbed>>

CandidateFree(s) ==
    /\ Looking(s)
    /\ tries[s] < MaxAttempts
    /\ Free(<<title[s], tries[s]>>, target[s])
    /\ Choose(s, <<title[s], tries[s]>>)

\* Mutant: the fallback appends no time.
LastCandidate(s, now) ==
    /\ Looking(s)
    /\ tries[s] = MaxAttempts
    /\ Choose(s, <<title[s], MaxAttempts - 1>>)

\* The time is appended; only requests that overlap see the same millisecond.
AllTaken(s, now) ==
    /\ Looking(s)
    /\ tries[s] = MaxAttempts
    /\ s \in disturbed \/ Free(<<title[s], now>>, target[s])
    /\ Choose(s, <<title[s], now>>)

-----------------------------------------------------------------------------
\* The insert of create or duplicate; a slug taken meanwhile is a conflict.
Insert(s) ==
    /\ pc[s] = "insert"
    /\ Free(chosen[s], target[s])
    /\ slug' = [slug EXCEPT ![target[s]] = chosen[s]]
    /\ UNCHANGED default
    /\ Finish(s, TRUE)

InsertConflict(s) ==
    /\ pc[s] = "insert"
    /\ ~Free(chosen[s], target[s])
    /\ Reject(s)

\* updateMany starts: it sees the default CVs committed by now.
ClearOthers(s) ==
    /\ pc[s] = "clear"
    /\ pc' = [pc EXCEPT ![s] = "write"]
    /\ toClear' = [toClear EXCEPT ![s] = default \ {target[s]}]
    /\ UNCHANGED <<dbVars, target, flag, slugVars, cleared, disturbed>>

Held(c, s) == \E t \in Slot \ {s} : c \in cleared[t]

\* updateMany has the lock of row c: it clears it if it is still a default.
ClearRow(s, c) ==
    /\ c \in toClear[s]
    /\ ~Held(c, s)
    /\ toClear' = [toClear EXCEPT ![s] = @ \ {c}]
    /\ cleared' = [cleared EXCEPT ![s] = IF c \in default THEN @ \cup {c} ELSE @]
    /\ UNCHANGED <<dbVars, pc, target, flag, slugVars, disturbed>>

ReadyToWrite(s) == pc[s] = "write" /\ toClear[s] = {} /\ ~Held(target[s], s)

\* Mutant: making a CV the default leaves the others what they are.
DefaultsAdded(s) == IF flag[s] = "set" THEN default \cup {target[s]} ELSE default

NewDefaults(s) ==
    CASE flag[s] = "set" -> (default \ cleared[s]) \cup {target[s]}
      [] flag[s] = "unset" -> default \ {target[s]}
      [] OTHER -> default

\* update of the CV itself, and the commit.
Write(s) ==
    /\ ReadyToWrite(s)
    /\ target[s] \in Rows
    /\ chosen[s] = None \/ Free(chosen[s], target[s])
    /\ slug' = IF chosen[s] = None THEN slug ELSE [slug EXCEPT ![target[s]] = chosen[s]]
    /\ default' = NewDefaults(s)
    /\ Finish(s, chosen[s] # None)

\* Mutant: the flags are cleared outside the transaction.
WriteFailsHalfway(s) ==
    /\ ReadyToWrite(s)
    /\ target[s] \notin Rows
    /\ default' = default \ cleared[s]
    /\ UNCHANGED slug
    /\ Finish(s, TRUE)

\* The row or the slug has gone: the transaction is rolled back.
WriteFails(s) ==
    /\ ReadyToWrite(s)
    /\ target[s] \notin Rows \/ (chosen[s] # None /\ ~Free(chosen[s], target[s]))
    /\ Reject(s)

\* Mutant: the flag is kept elsewhere than in the row.
DeleteRowOnly(s) ==
    /\ pc[s] = "delete"
    /\ ~Held(target[s], s)
    /\ target[s] \in Rows
    /\ slug' = [slug EXCEPT ![target[s]] = None]
    /\ UNCHANGED default
    /\ Finish(s, TRUE)

Delete(s) ==
    /\ pc[s] = "delete"
    /\ ~Held(target[s], s)
    /\ target[s] \in Rows
    /\ slug' = [slug EXCEPT ![target[s]] = None]
    /\ default' = default \ {target[s]}
    /\ Finish(s, TRUE)

DeleteFails(s) ==
    /\ pc[s] = "delete"
    /\ target[s] \notin Rows
    /\ Reject(s)

-----------------------------------------------------------------------------
\* A row s waits for is held by t.
WaitsFor(s, t) == /\ s # t
                  /\ cleared[t] \cap (IF toClear[s] # {} THEN toClear[s] ELSE {target[s]}) # {}
                  /\ pc[s] \in {"write", "delete"}

Deadlocked(s) == \E D \in SUBSET Slot : /\ s \in D
                                        /\ \A t \in D : \E u \in D : WaitsFor(t, u)

\* PostgreSQL aborts a transaction that is part of a deadlock.
DeadlockVictim(s) ==
    /\ Deadlocked(s)
    /\ Reject(s)

\* A statement fails, or the process stops: what is not committed is lost.
Fail(s) ==
    /\ pc[s] # "idle"
    /\ Reject(s)

RequestStep(s) ==
    \/ CandidateTaken(s)
    \/ CandidateFree(s)
    \/ \E now \in Stamp : AllTaken(s, now)
    \/ Insert(s)
    \/ InsertConflict(s)
    \/ ClearOthers(s)
    \/ \E c \in Cv : ClearRow(s, c)
    \/ Write(s)
    \/ WriteFails(s)
    \/ Delete(s)
    \/ DeleteFails(s)
    \/ DeadlockVictim(s)

Next ==
    \E s \in Slot :
        \/ \E c \in Cv, t \in Title : Create(s, c, t)
        \/ \E c \in Cv, t \in Title : Duplicate(s, c, t)
        \/ \E c \in Cv, dto \in Dtos : Update(s, c, dto[1], dto[2])
        \/ \E c \in Cv : Remove(s, c)
        \/ RequestStep(s)
        \/ Fail(s)

Spec == Init /\ [][Next]_vars

-----------------------------------------------------------------------------
\* update may leave several default CVs, one for each update that ran at the
\* same time, and never more; without overlap there is one.
DefaultsBounded == Cardinality(default) <= Cardinality(Slot)

\* A user who has a default CV has one until it is removed or its flag is
\* unset: update's transaction never clears the flags without setting one.
DefaultNotLost ==
    [][default # {} /\ default' = {} =>
           \E c \in default : slug'[c] = None \/ \E s \in Slot :
               target[s] = c /\ flag[s] = "unset" /\ pc'[s] = "idle"]_vars

\* ensureUniqueSlug returns, to a request that no other one overlaps, a slug
\* the insert or the update will not find taken.
AloneKeepsSlug ==
    \A s \in Slot : chosen[s] # None /\ s \notin disturbed => Free(chosen[s], target[s])

=============================================================================
