------------------------------- MODULE Avatars -------------------------------
(***************************************************************************)
(* The avatar of one user: the column avatarUrl and the files of           *)
(* AvatarStorageService, which no transaction covers.                      *)
(*                                                                         *)
(* An upload lists the user's files, deletes them side by side, writes a   *)
(* new one with a random name, and then stores its URL; the deletion of    *)
(* the account lists and deletes, too.  The first unlink that finds no     *)
(* file ends the wait for the others, which go on in the background.       *)
(***************************************************************************)
EXTENDS Integers, FiniteSets

CONSTANTS
    Slot,       \* concurrent requests
    File,       \* names of files that begin with the user's id
    Elsewhere,  \* any URL of another site, or none
    Gone        \* the URL of an account that is deleted

\* What the composing module assumes.
AvatarsAssumption == Gone \notin File \cup {Elsewhere} /\ Elsewhere \notin File

VARIABLES
    url,        \* avatarUrl of the user's row
    files,      \* the files in the upload directory
    pc,         \* pc[s]: what the request in slot s does next
    deletes,    \* the requests that delete the account
    toUnlink,   \* toUnlink[s]: files s is deleting and waits for
    behind,     \* files whose unlink goes on behind the requests' backs
    written,    \* written[s]: the file s has written
    overlapped, \* history: the requests that have run beside another one
    excused     \* history: what last touched the avatar overlapped, failed, or
                \* named a file itself

requestVars == <<pc, deletes, toUnlink, written>>
vars == <<url, files, requestVars, behind, overlapped, excused>>

-----------------------------------------------------------------------------
\* The state has the types of the columns and variables it stands for.
TypeOK ==
    /\ url \in File \cup {Elsewhere, Gone}
    /\ files \subseteq File /\ behind \subseteq File
    /\ pc \in [Slot -> {"idle", "list", "unlink", "write", "store", "deleteRow"}]
    /\ deletes \subseteq {s \in Slot : pc[s] # "idle"}
    /\ toUnlink \in [Slot -> SUBSET File]
    /\ written \in [Slot -> SUBSET File]
    /\ overlapped \subseteq {s \in Slot : pc[s] # "idle"}
    /\ excused \in BOOLEAN

Init ==
    /\ url = Elsewhere
    /\ files = {} /\ behind = {}
    /\ pc = [s \in Slot |-> "idle"]
    /\ deletes = {}
    /\ toUnlink = [s \in Slot |-> {}]
    /\ written = [s \in Slot |-> {}]
    /\ overlapped = {}
    /\ excused = FALSE

-----------------------------------------------------------------------------
Busy == {s \in Slot : pc[s] # "idle"}

Goto(s, label) == pc' = [pc EXCEPT ![s] = label]

\* The JWT guard has found the user.
Start(s) ==
    /\ pc[s] = "idle"
    /\ url # Gone
    /\ Goto(s, "list")
    /\ overlapped' = IF Busy = {} THEN overlapped ELSE Busy \cup {s}
    /\ UNCHANGED <<url, files, toUnlink, behind, written, excused>>

UploadAvatar(s) == Start(s) /\ UNCHANGED deletes

DeleteMe(s) == Start(s) /\ deletes' = deletes \cup {s}

\* Mutant: a request that has ended still counts as one that deletes.
EndHalfway(s, well) ==
    /\ Goto(s, "idle")
    /\ UNCHANGED deletes
    /\ toUnlink' = [toUnlink EXCEPT ![s] = {}]
    /\ behind' = behind \cup toUnlink[s]
    /\ written' = [written EXCEPT ![s] = {}]
    /\ overlapped' = overlapped \ {s}
    /\ excused' = (~well \/ s \in overlapped)

\* The request answers or throws; unlinks it has begun go on.
End(s, well) ==
    /\ Goto(s, "idle")
    /\ deletes' = deletes \ {s}
    /\ toUnlink' = [toUnlink EXCEPT ![s] = {}]
    /\ behind' = behind \cup toUnlink[s]
    /\ written' = [written EXCEPT ![s] = {}]
    /\ overlapped' = overlapped \ {s}
    /\ excused' = (~well \/ s \in overlapped)

-----------------------------------------------------------------------------
\* readdir, and an unlink begins for each of the user's files.
ListFiles(s) ==
    /\ pc[s] = "list"
    /\ Goto(s, "unlink")
    /\ toUnlink' = [toUnlink EXCEPT ![s] = files]
    /\ UNCHANGED <<url, files, deletes, behind, written, overlapped, excused>>

Unlink(s, f) ==
    /\ f \in toUnlink[s] \cap files
    /\ files' = files \ {f}
    /\ toUnlink' = [toUnlink EXCEPT ![s] = @ \ {f}]
    /\ UNCHANGED <<url, pc, deletes, behind, written, overlapped, excused>>

\* ENOENT is taken for a missing directory: the request waits no longer.
UnlinkNothing(s, f) ==
    /\ f \in toUnlink[s] \ files
    /\ toUnlink' = [toUnlink EXCEPT ![s] = {}]
    /\ behind' = behind \cup (toUnlink[s] \ {f})
    /\ UNCHANGED <<url, files, pc, deletes, written, overlapped, excused>>

UnlinkBehind(f) ==
    /\ f \in behind
    /\ behind' = behind \ {f}
    /\ files' = files \ {f}
    /\ UNCHANGED <<url, requestVars, overlapped, excused>>

\* deleteExisting returns.
Unlinked(s) ==
    /\ pc[s] = "unlink"
    /\ toUnlink[s] = {}
    /\ Goto(s, IF s \in deletes THEN "deleteRow" ELSE "write")
    /\ UNCHANGED <<url, files, deletes, toUnlink, behind, written, overlapped, excused>>

\* Mutant: the name has no random part.
SameName == {CHOOSE f \in File : TRUE}

\* Eight random bytes: names never used before.
NewNames ==
    File \ (files \cup behind \cup {url} \cup UNION {toUnlink[s] \cup written[s] : s \in Slot})

WriteFile(s, f) ==
    /\ pc[s] = "write"
    /\ f \in NewNames
    /\ files' = files \cup {f}
    /\ written' = [written EXCEPT ![s] = {f}]
    /\ Goto(s, "store")
    /\ UNCHANGED <<url, deletes, toUnlink, behind, overlapped, excused>>

\* updateProfile stores the URL, if the account is still there.
StoreUrl(s) ==
    /\ pc[s] = "store"
    /\ url # Gone
    /\ url' \in written[s]
    /\ UNCHANGED files
    /\ End(s, TRUE)

\* The row is deleted.
DeleteRow(s) ==
    /\ pc[s] = "deleteRow"
    /\ url # Gone
    /\ url' = Gone
    /\ UNCHANGED files
    /\ End(s, TRUE)

\* "User not found"
UserNotFound(s) ==
    /\ pc[s] \in {"store", "deleteRow"}
    /\ url = Gone
    /\ UNCHANGED <<url, files>>
    /\ End(s, FALSE)

\* A file cannot be deleted or written, or the database fails.
Fail(s) ==
    /\ pc[s] \in {"unlink", "write", "store", "deleteRow"}
    /\ UNCHANGED <<url, files>>
    /\ End(s, FALSE)

\* A sign-in with a picture, or an update of the profile, overwrites the URL;
\* the file of the old one stays.  The update checks nothing: it may name any
\* file.
SetUrl(u) ==
    /\ url # Gone
    /\ url' = u
    /\ excused' = (excused \/ u \in File)
    /\ UNCHANGED <<files, requestVars, behind, overlapped>>

Next ==
    \/ \E s \in Slot :
        \/ UploadAvatar(s) \/ DeleteMe(s)
        \/ ListFiles(s) \/ Unlinked(s)
        \/ StoreUrl(s) \/ DeleteRow(s) \/ UserNotFound(s) \/ Fail(s)
        \/ \E f \in File : Unlink(s, f) \/ UnlinkNothing(s, f) \/ WriteFile(s, f)
    \/ \E f \in File : UnlinkBehind(f)
    \/ \E u \in File \cup {Elsewhere} : SetUrl(u)

Spec == Init /\ [][Next]_vars

-----------------------------------------------------------------------------
\* The file an avatar's URL names is there, and no file of a deleted account
\* is, unless a request is under way, or the last one failed, overlapped
\* another or named the file itself; unlinks that go on behind the requests'
\* backs never delete the file of a later upload.
AvatarThere ==
    Busy = {} /\ ~excused =>
        /\ url \in File => url \in files
        /\ url = Gone => files \subseteq behind

=============================================================================
