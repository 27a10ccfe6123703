------------------------------- MODULE CvShares -------------------------------
(***************************************************************************)
(* The public link of CVs: CvService's shareCv, unshareCv, getShareInfo    *)
(* and getPublicCv.  Every statement is a transaction of its own, and      *)
(* requests interleave between the lookup of a share and the write.        *)
(*                                                                         *)
(* A link's slug is made of the time alone (the first digits of a UUIDv7   *)
(* are a time too), so two links of one millisecond would be the same and  *)
(* the unique index refuses the second.  Requests of a user without access *)
(* to the CV change nothing and are left out.                              *)
(***************************************************************************)
EXTENDS Integers, FiniteSets

CONSTANTS
    Slot,      \* concurrent requests
    Cv,        \* identifiers of CVs
    MaxClock,  \* bound: the last millisecond
    MaxViews,  \* bound: views of one link
    Nothing    \* no share, no CV, no link

\* What the composing module assumes.
CvSharesAssumption ==
    /\ IsFiniteSet(Slot) /\ Slot # {}
    /\ MaxClock \in Nat /\ MaxViews \in Nat
    /\ Nothing \notin Cv \cup Nat

ShareRow == [link : Nat, isPublic : BOOLEAN, viewCount : Nat]

VARIABLES
    cvs,       \* the CVs that have a row
    share,     \* share[c]: the row of cv_shares of CV c
    now,       \* the clock, in milliseconds
    pc,        \* pc[s]: what the request in slot s does next
    target,    \* target[s]: its CV, or the link it visits
    public,    \* public[s]: isPublic of its dto
    link,      \* link[s]: the link it has made, to be inserted
    found,     \* found[s]: the row its lookup returned
    shown      \* history: shown[g], visitors shown a CV by the share of link g

dbVars == <<cvs, share>>
requestVars == <<pc, target, public, link, found>>
vars == <<dbVars, now, requestVars, shown>>

-----------------------------------------------------------------------------
Live(g) == \E c \in Cv : share[c] # Nothing /\ share[c].link = g

CvOf(g) == CHOOSE c \in Cv : share[c] # Nothing /\ share[c].link = g

Open(g) == Live(g) /\ share[CvOf(g)].isPublic

\* The state has the types of the columns and variables it stands for.
TypeOK ==
    /\ cvs \subseteq Cv
    /\ share \in [Cv -> ShareRow \cup {Nothing}]
    /\ \A c \in Cv : share[c] # Nothing => c \in cvs
    /\ now \in 0 .. MaxClock
    /\ pc \in [Slot -> {"idle", "find", "update", "create", "unshare", "view", "count"}]
    /\ target \in [Slot -> Cv \cup Nat \cup {Nothing}]
    /\ \A s \in Slot : pc[s] = "idle" <=> target[s] = Nothing
    /\ public \in [Slot -> BOOLEAN]
    /\ link \in [Slot -> Nat \cup {Nothing}]
    /\ found \in [Slot -> ShareRow \cup {Nothing}]
    /\ shown \in [0 .. MaxClock -> Nat]

Init ==
    /\ cvs = Cv
    /\ share = [c \in Cv |-> Nothing]
    /\ now = 0
    /\ pc = [s \in Slot |-> "idle"]
    /\ target = [s \in Slot |-> Nothing]
    /\ public = [s \in Slot |-> TRUE]
    /\ link = [s \in Slot |-> Nothing]
    /\ found = [s \in Slot |-> Nothing]
    /\ shown = [g \in 0 .. MaxClock |-> 0]

-----------------------------------------------------------------------------
Goto(s, label) == pc' = [pc EXCEPT ![s] = label]

Start(s, label, c, p) ==
    /\ pc[s] = "idle"
    /\ Goto(s, label)
    /\ target' = [target EXCEPT ![s] = c]
    /\ public' = [public EXCEPT ![s] = p]
    /\ UNCHANGED <<dbVars, now, link, found, shown>>

Finish(s) ==
    /\ Goto(s, "idle")
    /\ target' = [target EXCEPT ![s] = Nothing]
    /\ public' = [public EXCEPT ![s] = TRUE]
    /\ link' = [link EXCEPT ![s] = Nothing]
    /\ found' = [found EXCEPT ![s] = Nothing]
    /\ UNCHANGED now

\* A request that has thrown or has nothing to write.
Return(s) ==
    /\ Finish(s)
    /\ UNCHANGED <<dbVars, shown>>

\* A request that has written the row r of CV c.
Save(s, c, r) ==
    /\ share' = [share EXCEPT ![c] = r]
    /\ Finish(s)
    /\ UNCHANGED cvs

-----------------------------------------------------------------------------
\* shareCv and unshareCv: findCvOrThrow has found the CV.
ShareCv(s, c, p) == c \in cvs /\ Start(s, "find", c, p)

UnshareCv(s, c) == c \in cvs /\ Start(s, "unshare", c, TRUE)

\* getPublicCv, of a link made in an earlier millisecond.  Bound: MaxViews.
VisitLink(s, g) ==
    /\ g < now
    /\ shown[g] + Cardinality({t \in Slot : target[t] = g}) < MaxViews
    /\ Start(s, "view", g, TRUE)

\* Mutant: a link made of the identifier of the CV.
LinkOfCv(s) == 0

\* The link a share would get: the time.
NewLink(s) == now

FindShare(s) ==
    /\ pc[s] = "find"
    /\ IF share[target[s]] = Nothing
       THEN Goto(s, "create") /\ link' = [link EXCEPT ![s] = NewLink(s)]
       ELSE Goto(s, "update") /\ UNCHANGED link
    /\ UNCHANGED <<dbVars, now, target, public, found, shown>>

\* The share is updated if it is still there.
UpdateShare(s) ==
    /\ pc[s] = "update"
    /\ share[target[s]] # Nothing
    /\ Save(s, target[s], [share[target[s]] EXCEPT !.isPublic = public[s]])
    /\ UNCHANGED shown

UpdateFails(s) ==
    /\ pc[s] = "update"
    /\ share[target[s]] = Nothing
    /\ Return(s)

\* The unique indexes on cvId and shareSlug admit the new row.
Insertable(s) == target[s] \in cvs /\ share[target[s]] = Nothing /\ ~Live(link[s])

CreateShare(s) ==
    /\ pc[s] = "create"
    /\ Insertable(s)
    /\ Save(s, target[s], [link |-> link[s], isPublic |-> public[s], viewCount |-> 0])
    /\ shown' = [shown EXCEPT ![link[s]] = 0]

CreateFails(s) ==
    /\ pc[s] = "create"
    /\ ~Insertable(s)
    /\ Return(s)

Unshare(s) ==
    /\ pc[s] = "unshare"
    /\ Save(s, target[s], Nothing)
    /\ UNCHANGED shown

-----------------------------------------------------------------------------
\* The link leads to a share that is public.
Visible(g) == Open(g)

FindLink(s) ==
    /\ pc[s] = "view"
    /\ Visible(target[s])
    /\ Goto(s, "count")
    /\ found' = [found EXCEPT ![s] = share[CvOf(target[s])]]
    /\ UNCHANGED <<dbVars, now, target, public, link, shown>>

\* NotFoundException.
LinkNotFound(s) ==
    /\ pc[s] = "view"
    /\ ~Visible(target[s])
    /\ Return(s)

\* Mutant: the count is written from the row that was read.
CountFromRead(s) == found[s].viewCount + 1

\* viewCount: { increment: 1 }
Counted(s) == share[CvOf(target[s])].viewCount + 1

\* The view is counted in the row the link has now, and the CV read is shown.
CountView(s) ==
    /\ pc[s] = "count"
    /\ Live(target[s])
    /\ Save(s, CvOf(target[s]), [share[CvOf(target[s])] EXCEPT !.viewCount = Counted(s)])
    /\ shown' = [shown EXCEPT ![target[s]] = @ + 1]

\* It was unshared meanwhile: the update, and so the visit, fails.
CountFails(s) ==
    /\ pc[s] = "count"
    /\ ~Live(target[s])
    /\ Return(s)

-----------------------------------------------------------------------------
\* The CV's row is deleted, and its share with it.
RemoveCv(c) ==
    /\ c \in cvs
    /\ cvs' = cvs \ {c}
    /\ share' = [share EXCEPT ![c] = Nothing]
    /\ UNCHANGED <<now, requestVars, shown>>

\* Bound: MaxClock milliseconds.
Tick ==
    /\ now < MaxClock
    /\ now' = now + 1
    /\ UNCHANGED <<dbVars, requestVars, shown>>

RequestStep(s) ==
    \/ FindShare(s) \/ UpdateShare(s) \/ UpdateFails(s)
    \/ CreateShare(s) \/ CreateFails(s) \/ Unshare(s)
    \/ FindLink(s) \/ LinkNotFound(s) \/ CountView(s) \/ CountFails(s)

Next ==
    \/ \E s \in Slot :
        \/ \E c \in Cv, p \in BOOLEAN : ShareCv(s, c, p)
        \/ \E c \in Cv : UnshareCv(s, c)
        \/ \E g \in 0 .. MaxClock : VisitLink(s, g)
        \/ RequestStep(s)
    \/ \E c \in Cv : RemoveCv(c)
    \/ Tick

Spec == Init /\ [][Next]_vars

-----------------------------------------------------------------------------
\* The count of a share is that of the visitors who were shown its CV, however
\* visits overlap each other and the owner's changes.
ViewsCounted == \A c \in Cv : share[c] # Nothing => share[c].viewCount = shown[share[c].link]

\* The link is dead, and no request is about to insert it.
Dead(g) == g < now /\ ~Live(g) /\ \A s \in Slot : link[s] # g

\* Once a link is dead it stays dead: only a request that made the same link
\* in the same millisecond, and is still running, can bring it back.
DeadLinkStaysDead == [][\A g \in 0 .. MaxClock : Dead(g) => Dead(g)']_vars

=============================================================================
