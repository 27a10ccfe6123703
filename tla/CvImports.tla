------------------------------ MODULE CvImports ------------------------------
(***************************************************************************)
(* CVs made from a resume file (CvFileImportService.importFromFile) or     *)
(* from a stored LinkedIn profile (CvImportService.importFromLinkedIn),    *)
(* with CvService.upsertPersonalInfo, and how the profile gets there       *)
(* (LinkedinCvService.importForUser).                                      *)
(*                                                                         *)
(* A file import is a sequence of calls of CvService, each with its own    *)
(* transactions: when one fails, or the process stops, the CV stays as far *)
(* as it has come.  A LinkedIn import writes the CV in one transaction.    *)
(* The profile is fetched part by part, and a part that cannot be fetched  *)
(* is stored as empty, whatever the row held before.                       *)
(* What a part says is left out, but for who wrote it; ResumeText is about *)
(* how a text is cut into parts, Cvs about slugs, CvSections about several *)
(* writers of one section.                                                 *)
(***************************************************************************)
EXTENDS Integers, Sequences, FiniteSets

CONSTANTS
    Slot,      \* concurrent requests
    Cv,        \* identifiers of CVs
    Contents,  \* bound: sets of parts a file may have
    None       \* no CV

\* What a file import fills, in its order; only the first always.
Order == <<"info", "experience", "education", "skills", "projects">>

\* What importForUser fetches, in its order; the first it must have.
Fetches == <<"info", "experience", "education", "skills">>

Part == {Order[i] : i \in DOMAIN Order}

\* What the composing module assumes.
CvImportsAssumption == None \notin Cv /\ Contents \subseteq SUBSET Part

VARIABLES
    cvs,       \* the CVs that have a row
    filled,    \* filled[c]: the parts of c that have been saved
    profile,   \* the parts of the stored LinkedIn profile
    pc,        \* pc[s]: what the request in slot s does next
    parts,     \* parts[s]: the parts it has read, from the file or the profile
    target,    \* target[s]: the CV it has made
    step,      \* step[s]: how many parts, in order, it is done with
    meant,     \* history: meant[c], the parts c was to be made of
    whole,     \* history: the CVs made by a LinkedIn import
    failed     \* history: the CVs whose import did not come to its end

dbVars == <<cvs, filled, profile>>
requestVars == <<pc, parts, target, step>>
historyVars == <<meant, whole, failed>>
vars == <<dbVars, requestVars, historyVars>>

-----------------------------------------------------------------------------
\* The state has the types of the columns and variables it stands for.
TypeOK ==
    /\ cvs \subseteq Cv
    /\ filled \in [Cv -> SUBSET Part]
    /\ profile \subseteq Part
    /\ pc \in [Slot -> {"idle", "create", "fill", "createInfo", "copy", "fetch"}]
    /\ parts \in [Slot -> SUBSET Part]
    /\ target \in [Slot -> Cv \cup {None}]
    /\ step \in [Slot -> 0 .. Len(Order)]
    /\ meant \in [Cv -> SUBSET Part]
    /\ whole \subseteq Cv /\ failed \subseteq Cv

Init ==
    /\ cvs = {}
    /\ filled = [c \in Cv |-> {}]
    /\ profile = {}
    /\ pc = [s \in Slot |-> "idle"]
    /\ parts = [s \in Slot |-> {}]
    /\ target = [s \in Slot |-> None]
    /\ step = [s \in Slot |-> 0]
    /\ meant = [c \in Cv |-> {}]
    /\ whole = {}
    /\ failed = {}

-----------------------------------------------------------------------------
Goto(s, label) == pc' = [pc EXCEPT ![s] = label]

Begin(s, label, p) ==
    /\ pc[s] = "idle"
    /\ Goto(s, label)
    /\ parts' = [parts EXCEPT ![s] = p]
    /\ UNCHANGED <<dbVars, target, step, historyVars>>

Finish(s) ==
    /\ Goto(s, "idle")
    /\ parts' = [parts EXCEPT ![s] = {}]
    /\ target' = [target EXCEPT ![s] = None]
    /\ step' = [step EXCEPT ![s] = 0]

\* An import is at work on c.
Running(c) == \E s \in Slot : target[s] = c

\* A new row for a CV, made of the parts p.
NewRow(c, p) ==
    /\ c \in Cv \ cvs
    /\ meant[c] = {}
    /\ cvs' = cvs \cup {c}
    /\ meant' = [meant EXCEPT ![c] = p]

-----------------------------------------------------------------------------
(* importFromFile *)

\* The text is long enough and has been parsed; its contact details and its
\* beginning make the personal information.
ImportFile(s, p) == Begin(s, "create", p \cup {"info"})

\* CvService.create
CreateCv(s, c) ==
    /\ pc[s] = "create"
    /\ NewRow(c, parts[s])
    /\ Goto(s, "fill")
    /\ target' = [target EXCEPT ![s] = c]
    /\ UNCHANGED <<filled, profile, parts, step, whole, failed>>

\* The part the import has come to has entries.
Needed(s) == Order[step[s] + 1] \in parts[s]

Filling(s) == pc[s] = "fill" /\ step[s] < Len(Order)

SkipPart(s) ==
    /\ Filling(s)
    /\ ~Needed(s)
    /\ step' = [step EXCEPT ![s] = @ + 1]
    /\ UNCHANGED <<dbVars, pc, parts, target, historyVars>>

Save(s, p) ==
    /\ filled' = [filled EXCEPT ![target[s]] = @ \cup {p}]
    /\ step' = [step EXCEPT ![s] = @ + 1]
    /\ Goto(s, "fill")
    /\ UNCHANGED <<cvs, profile, parts, target, historyVars>>

\* The bulk upsert of the next section, which replaces what it finds there; or
\* upsertPersonalInfo, where there is a row to update.
FillPart(s) ==
    /\ Filling(s)
    /\ Needed(s)
    /\ target[s] \in cvs
    /\ step[s] = 0 => "info" \in filled[target[s]]
    /\ Save(s, Order[step[s] + 1])

\* upsertPersonalInfo has found no row.
FindNoInfo(s) ==
    /\ Filling(s)
    /\ step[s] = 0
    /\ target[s] \in cvs
    /\ "info" \notin filled[target[s]]
    /\ Goto(s, "createInfo")
    /\ UNCHANGED <<dbVars, parts, target, step, historyVars>>

\* The unique index on cvId admits the row.
CreateInfo(s) ==
    /\ pc[s] = "createInfo"
    /\ target[s] \in cvs
    /\ "info" \notin filled[target[s]]
    /\ Save(s, "info")

\* findOne, and the answer.
Done(s) ==
    /\ pc[s] = "fill"
    /\ step[s] = Len(Order)
    /\ target[s] \in cvs
    /\ Finish(s)
    /\ UNCHANGED <<dbVars, historyVars>>

-----------------------------------------------------------------------------
(* importFromLinkedIn *)

\* The stored profile is read.
ImportLinkedIn(s) == profile # {} /\ Begin(s, "copy", profile)

\* Mutant: the statements are not one transaction.
CopyHalf(s, c) ==
    /\ pc[s] = "copy"
    /\ NewRow(c, parts[s])
    /\ filled' = [filled EXCEPT ![c] = {"info"}]
    /\ whole' = whole \cup {c}
    /\ Finish(s)
    /\ UNCHANGED <<profile, failed>>

\* The transaction commits.
CopyProfile(s, c) ==
    /\ pc[s] = "copy"
    /\ NewRow(c, parts[s])
    /\ filled' = [filled EXCEPT ![c] = parts[s]]
    /\ whole' = whole \cup {c}
    /\ Finish(s)
    /\ UNCHANGED <<profile, failed>>

(* importForUser *)

\* The user's LinkedIn account is connected and its token is there.
FetchProfile(s) == Begin(s, "fetch", {})

Fetching(s) == pc[s] = "fetch" /\ step[s] < Len(Fetches)

\* The next part is fetched.
FetchPart(s) ==
    /\ Fetching(s)
    /\ parts' = [parts EXCEPT ![s] = @ \cup {Fetches[step[s] + 1]}]
    /\ step' = [step EXCEPT ![s] = @ + 1]
    /\ UNCHANGED <<dbVars, pc, target, historyVars>>

\* It is forbidden, times out or has nothing in it: it is taken for empty,
\* unless it is the first.
FetchNothing(s) ==
    /\ Fetching(s)
    /\ step[s] > 0
    /\ step' = [step EXCEPT ![s] = @ + 1]
    /\ UNCHANGED <<dbVars, pc, parts, target, historyVars>>

\* The upsert of the row of the user and the URL.
StoreProfile(s) ==
    /\ pc[s] = "fetch" /\ step[s] = Len(Fetches)
    /\ profile' = parts[s]
    /\ Finish(s)
    /\ UNCHANGED <<cvs, filled, historyVars>>

-----------------------------------------------------------------------------
\* The user, who sees the CV as soon as it has a row, saves the personal
\* information too, or removes the CV.
SaveInfo(c) ==
    /\ c \in cvs
    /\ filled' = [filled EXCEPT ![c] = @ \cup {"info"}]
    /\ UNCHANGED <<cvs, profile, requestVars, historyVars>>

RemoveCv(c) ==
    /\ c \in cvs
    /\ cvs' = cvs \ {c}
    /\ filled' = [filled EXCEPT ![c] = {}]
    /\ UNCHANGED <<profile, requestVars, historyVars>>

\* A call rejects (the CV was removed, its personal information was created
\* meanwhile, a slug was taken), a statement fails, or the process stops.
Fail(s) ==
    /\ pc[s] # "idle"
    /\ failed' = failed \cup ({target[s]} \ {None})
    /\ Finish(s)
    /\ UNCHANGED <<dbVars, meant, whole>>

Next ==
    \/ \E s \in Slot :
        \/ \E p \in Contents : ImportFile(s, p)
        \/ \E c \in Cv : CreateCv(s, c) \/ CopyProfile(s, c)
        \/ ImportLinkedIn(s)
        \/ SkipPart(s) \/ FillPart(s) \/ FindNoInfo(s) \/ CreateInfo(s) \/ Done(s)
        \/ FetchProfile(s) \/ FetchPart(s) \/ FetchNothing(s) \/ StoreProfile(s)
        \/ Fail(s)
    \/ \E c \in Cv : SaveInfo(c) \/ RemoveCv(c)

Spec == Init /\ [][Next]_vars

-----------------------------------------------------------------------------
\* A CV that an import has made has all the parts it was to be made of, or its
\* import has failed and it has the first of them: the order of the calls is
\* also that of what is lost.  A LinkedIn import leaves no such remains.
ImportedWholeOrPrefix ==
    \A c \in cvs :
        \/ meant[c] \subseteq filled[c]
        \/ /\ c \notin whole
           /\ Running(c) \/ c \in failed
           /\ \E k \in 0 .. Len(Order) : filled[c] \cap meant[c] = meant[c] \cap {Order[i] : i \in 1 .. k}

=============================================================================
