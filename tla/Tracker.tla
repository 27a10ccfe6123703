------------------------------- MODULE Tracker -------------------------------
(***************************************************************************)
(* What a user keeps track of: jobs (JobsService) and the progress of      *)
(* skills (SkillsService.updateProgress).  A request reads the row, makes  *)
(* up its mind, and then writes the columns its dto names, each statement  *)
(* in a transaction of its own.                                            *)
(*                                                                         *)
(* Both rows have a date that is set when the status first becomes a       *)
(* certain one: appliedAt with APPLIED, startedAt with learning.  Requests *)
(* for another user's job, which change nothing, other columns, notes and  *)
(* the reports made of the rows are left out.                              *)
(***************************************************************************)
EXTENDS Integers, FiniteSets

CONSTANTS
    Slot,      \* concurrent requests
    Job,       \* identifiers of jobs
    Skill,     \* names of skills
    Levels,    \* levels of a skill a dto may have
    MaxClock,  \* bound: the last time
    None       \* no row, no date, not in the dto

\* OFFER and REJECTED are like INTERVIEW.
JobStatus == {"SAVED", "APPLIED", "INTERVIEW"}

SkillStatus == {"not_started", "learning", "completed"}

Item == Job \cup Skill

Time == 0 .. MaxClock

Row == [status : JobStatus \cup SkillStatus, date : Time \cup {None}, level : Nat]

\* What the composing module assumes.
TrackerAssumption ==
    /\ Levels \subseteq Nat
    /\ MaxClock \in Nat
    /\ Job \cap Skill = {}
    /\ None \notin Item \cup Row \cup Nat \cup STRING

VARIABLES
    row,    \* row[x]: the row of job or skill x
    now,    \* the clock
    pc,     \* pc[s]: what the request in slot s does next
    item,   \* item[s]: the job or skill it is about
    dto,    \* dto[s]: the status and the level it is given
    date,   \* date[s]: the date it has decided to write
    first,  \* history: when the status of x first was the one that is dated
    raced   \* history: jobs and skills that two requests were about at once

requestVars == <<pc, item, dto, date>>
vars == <<row, now, requestVars, first, raced>>

-----------------------------------------------------------------------------
Dto == [status : JobStatus \cup SkillStatus \cup {None}, level : Levels \cup {None}]

NoDto == [status |-> None, level |-> None]

\* The state has the types of the columns and variables it stands for.
TypeOK ==
    /\ row \in [Item -> Row \cup {None}]
    /\ now \in Time
    /\ pc \in [Slot -> {"idle", "find", "write", "create", "delete"}]
    /\ item \in [Slot -> Item \cup {None}]
    /\ dto \in [Slot -> Dto \cup {NoDto}]
    /\ date \in [Slot -> Time \cup {None}]
    /\ first \in [Item -> Time \cup {None}]
    /\ raced \subseteq Item

Init ==
    /\ row = [x \in Item |-> None]
    /\ now = 0
    /\ pc = [s \in Slot |-> "idle"]
    /\ item = [s \in Slot |-> None]
    /\ dto = [s \in Slot |-> NoDto]
    /\ date = [s \in Slot |-> None]
    /\ first = [x \in Item |-> None]
    /\ raced = {}

-----------------------------------------------------------------------------
Given(a, b) == IF a = None THEN b ELSE a

\* The status that is dated.
Dated == {"APPLIED", "learning"}

About(x) == {s \in Slot : item[s] = x}

\* History of a write that gives x the status st and was decided at time t.
Note(x, st, t) ==
    first' = IF st \in Dated /\ first[x] = None THEN [first EXCEPT ![x] = t] ELSE first

Start(s, label, x, d) ==
    /\ pc[s] = "idle"
    /\ pc' = [pc EXCEPT ![s] = label]
    /\ item' = [item EXCEPT ![s] = x]
    /\ dto' = [dto EXCEPT ![s] = d]
    /\ raced' = IF About(x) = {} THEN raced ELSE raced \cup {x}
    /\ UNCHANGED <<row, now, date, first>>

Finish(s) ==
    /\ pc' = [pc EXCEPT ![s] = "idle"]
    /\ item' = [item EXCEPT ![s] = None]
    /\ dto' = [dto EXCEPT ![s] = NoDto]
    /\ date' = [date EXCEPT ![s] = None]
    /\ UNCHANGED now

\* It throws, and has written nothing.
Throw(s) ==
    /\ Finish(s)
    /\ UNCHANGED <<row, first, raced>>

-----------------------------------------------------------------------------
\* JobsService.create, of a job with a new identifier.
CreateJob(j, st) ==
    /\ row[j] = None /\ About(j) = {}
    /\ row' = [row EXCEPT ![j] = [status |-> st, date |-> IF st = "APPLIED" THEN now ELSE None,
                                  level |-> 0]]
    /\ first' = [first EXCEPT ![j] = IF st = "APPLIED" THEN now ELSE None]
    /\ raced' = raced \ {j}
    /\ UNCHANGED <<now, requestVars>>

\* update and updateStatus
UpdateJob(s, j, st) == Start(s, "find", j, [status |-> st, level |-> None])

UpdateProgress(s, k, st, level) == Start(s, "find", k, [status |-> st, level |-> level])

RemoveJob(s, j) == row[j] # None /\ Start(s, "delete", j, NoDto)

\* Mutant: the date is set whenever the status is given.
DateAnew(s) == IF dto[s].status \in Dated THEN now ELSE None

\* The date to write, if the row that was read has none.
NewDate(s) ==
    LET old == IF row[item[s]] = None THEN None ELSE row[item[s]].date
    IN  IF dto[s].status \in Dated /\ old = None THEN now ELSE None

\* findJobOrThrow, or findUnique of the progress of a skill.
Find(s) ==
    /\ pc[s] = "find"
    /\ row[item[s]] # None \/ item[s] \in Skill
    /\ pc' = [pc EXCEPT ![s] = IF row[item[s]] = None THEN "create" ELSE "write"]
    /\ date' = [date EXCEPT ![s] = NewDate(s)]
    /\ UNCHANGED <<row, now, item, dto, first, raced>>

NotFound(s) ==
    /\ pc[s] = "find"
    /\ row[item[s]] = None /\ item[s] \in Job
    /\ Throw(s)

\* The update of the columns the dto names; completed is level 100.
Write(s) ==
    LET x == item[s]
        level == IF dto[s].status = "completed" THEN 100 ELSE Given(dto[s].level, row[x].level)
    IN  /\ pc[s] = "write"
        /\ row[x] # None
        /\ row' = [row EXCEPT ![x] = [status |-> Given(dto[s].status, row[x].status),
                                      date |-> Given(date[s], row[x].date),
                                      level |-> level]]
        /\ Note(x, dto[s].status, Given(date[s], now))
        /\ UNCHANGED raced
        /\ Finish(s)

\* The first progress of a skill: completed is whatever level is given.
CreateProgress(s) ==
    LET x == item[s]
    IN  /\ pc[s] = "create"
        /\ row[x] = None
        /\ row' = [row EXCEPT ![x] = [status |-> Given(dto[s].status, "not_started"),
                                      date |-> date[s],
                                      level |-> Given(dto[s].level, 0)]]
        /\ Note(x, dto[s].status, date[s])
        /\ UNCHANGED raced
        /\ Finish(s)

DeleteJob(s) ==
    /\ pc[s] = "delete"
    /\ row[item[s]] # None
    /\ row' = [row EXCEPT ![item[s]] = None]
    /\ UNCHANGED <<first, raced>>
    /\ Finish(s)

\* The job is gone, or another request has created the skill's row.
Conflict(s) ==
    /\ \/ pc[s] \in {"write", "delete"} /\ row[item[s]] = None
       \/ pc[s] = "create" /\ row[item[s]] # None
    /\ Throw(s)

\* Bound: MaxClock.
Tick ==
    /\ now < MaxClock
    /\ now' = now + 1
    /\ UNCHANGED <<row, requestVars, first, raced>>

Next ==
    \/ \E j \in Job, st \in JobStatus : CreateJob(j, st)
    \/ \E s \in Slot :
        \/ \E j \in Job, st \in JobStatus : UpdateJob(s, j, st)
        \/ \E k \in Skill, st \in SkillStatus \cup {None}, level \in Levels \cup {None} :
               UpdateProgress(s, k, st, level)
        \/ \E j \in Job : RemoveJob(s, j)
        \/ Find(s) \/ NotFound(s) \/ Write(s) \/ CreateProgress(s) \/ DeleteJob(s) \/ Conflict(s)
    \/ Tick

Spec == Init /\ [][Next]_vars

-----------------------------------------------------------------------------
\* The date of a job or skill is that of the first time it was applied for or
\* learned, whatever its status has been since; only requests about it that
\* ran at the same time may have replaced it.
FirstDateKept ==
    \A x \in Item : row[x] # None /\ x \notin raced => row[x].date = first[x]

=============================================================================
