------------------------------- MODULE Services -------------------------------
(***************************************************************************)
(* The services that share nothing with each other: accounts, avatars, the *)
(* trackers of jobs and skills, and the rules that read texts (Ats,        *)
(* Grammar, BuiltInAi, ResumeText).  A step is a step of one of them.      *)
(***************************************************************************)
EXTENDS Integers, Sequences, Ordered

CONSTANTS
    Slot,                  \* concurrent requests
    None,                  \* no value
    \* Accounts
    User, Identity, Address, AddressOf, Mixed,
    \* Avatars
    File, Elsewhere, Gone,
    \* Tracker
    Job, Skill, Levels, MaxClock,
    \* Ats
    Descriptions, Measures, Answers,
    \* Grammar
    MaxLength, MaxPhrases, MaxWords,
    \* BuiltInAi
    Experiences, SkillCounts, JobSizes, TopKeywords,
    \* ResumeText
    Headings, Line, Titles, DateLines, Whole, SkillName, Odd, Pieces,
    MaxLines, MaxEntries, MaxSkills, Findings

VARIABLES
    \* Accounts
    account, accountPc, who, user, disturbed,
    \* Avatars
    url, files, avatarPc, deletes, toUnlink, behind, written, overlapped, excused,
    \* Tracker
    tracked, now, trackerPc, item, dto, date, first, raced,
    \* Ats
    jd, mentioned, measured, atsPc, suggestions,
    \* Grammar
    checked, grammarPc, rest, position, issues,
    \* BuiltInAi
    cv, jobWords, lacking, answer,
    \* ResumeText
    resume, resumePc, at, current, buckets, parsed, sections

accountVars == <<account, accountPc, who, user, disturbed>>
avatarVars == <<url, files, avatarPc, deletes, toUnlink, behind, written, overlapped, excused>>
trackerVars == <<tracked, now, trackerPc, item, dto, date, first, raced>>
atsVars == <<jd, mentioned, measured, atsPc, suggestions>>
grammarVars == <<checked, grammarPc, rest, position, issues>>
builtInVars == <<cv, jobWords, lacking, answer>>
resumeVars == <<resume, resumePc, at, current, buckets, parsed, sections>>
serviceVars == <<accountVars, avatarVars, trackerVars, atsVars, grammarVars, builtInVars,
                 resumeVars>>

-----------------------------------------------------------------------------
Accounts == INSTANCE Accounts WITH row <- account, pc <- accountPc

Avatars == INSTANCE Avatars WITH pc <- avatarPc

Tracker == INSTANCE Tracker WITH row <- tracked, pc <- trackerPc

Ats == INSTANCE Ats WITH text <- measured, pc <- atsPc

Grammar == INSTANCE Grammar WITH text <- checked, pc <- grammarPc, at <- position

BuiltInAi == INSTANCE BuiltInAi

ResumeText == INSTANCE ResumeText WITH Answers <- Findings, text <- resume, pc <- resumePc

ASSUME ServicesAssumption ==
    /\ Accounts!AccountsAssumption
    /\ Avatars!AvatarsAssumption
    /\ Tracker!TrackerAssumption
    /\ Ats!AtsAssumption
    /\ Grammar!GrammarAssumption
    /\ BuiltInAi!BuiltInAiAssumption
    /\ ResumeText!ResumeAssumption

-----------------------------------------------------------------------------
ServicesInit ==
    /\ Accounts!Init
    /\ Avatars!Init
    /\ Tracker!Init
    /\ Ats!Init
    /\ Grammar!Init
    /\ BuiltInAi!Init
    /\ ResumeText!Init

AccountsNext ==
    /\ Accounts!Next
    /\ UNCHANGED <<avatarVars, trackerVars, atsVars, grammarVars, builtInVars, resumeVars>>

AvatarsNext ==
    /\ Avatars!Next
    /\ UNCHANGED <<accountVars, trackerVars, atsVars, grammarVars, builtInVars, resumeVars>>

TrackerNext ==
    /\ Tracker!Next
    /\ UNCHANGED <<accountVars, avatarVars, atsVars, grammarVars, builtInVars, resumeVars>>

AtsNext ==
    /\ Ats!Next
    /\ UNCHANGED <<accountVars, avatarVars, trackerVars, grammarVars, builtInVars, resumeVars>>

GrammarNext ==
    /\ Grammar!Next
    /\ UNCHANGED <<accountVars, avatarVars, trackerVars, atsVars, builtInVars, resumeVars>>

BuiltInNext ==
    /\ BuiltInAi!Next
    /\ UNCHANGED <<accountVars, avatarVars, trackerVars, atsVars, grammarVars, resumeVars>>

ResumeNext ==
    /\ ResumeText!Next
    /\ UNCHANGED <<accountVars, avatarVars, trackerVars, atsVars, grammarVars, builtInVars>>

ServicesNext ==
    \/ AccountsNext \/ AvatarsNext \/ TrackerNext
    \/ AtsNext \/ GrammarNext \/ BuiltInNext \/ ResumeNext

ServicesSpec == ServicesInit /\ [][ServicesNext]_serviceVars

-----------------------------------------------------------------------------
\* The state of the services that keep one has the types of the columns and
\* variables it stands for.
ServicesTypeOK == Accounts!TypeOK /\ Avatars!TypeOK /\ Tracker!TypeOK

\* OAuthService.authenticate: a sign-in during which no other request writes a
\* row fails only if its identity has no account and its address has one with
\* another identity, and makes a new account only if its identity has none and
\* the address is not stored in lower case.  An account stored with capitals is
\* not found by its address: the sign-in may make a second one beside it.
AloneSignIn == Accounts!AloneSignIn

\* OAuthService.authenticate: an account changes from one identity to another
\* only by the link of a sign-in that has overlapped the first link.
IdentityKept == Accounts!IdentityKept

\* AvatarStorageService: the file an avatar's URL names is there, and no file
\* of a deleted account is, unless a request is under way, or the last one
\* failed, overlapped another or named the file itself.
AvatarThere == Avatars!AvatarThere

\* JobsService and SkillsService.updateProgress: the date of a job or skill is
\* that of the first time it was applied for or learned; only requests about
\* it that ran at the same time may have replaced it.
FirstDateKept == Tracker!FirstDateKept

\* AtsService: a CV that mentions one more keyword never scores less.
MoreKeywordsNeverLower == Ats!MoreKeywordsNeverLower

\* AtsService.generateSuggestions and mergeSuggestions: of the required
\* keywords that are missing the first five are suggested, whatever else there
\* is to say and whatever a language model adds.
RequiredSuggested == Ats!RequiredSuggested

\* GrammarService.detectLongSentences marks exactly the long sentences, each
\* where it is, and each costs its points once.
LongSentencesMarked == Grammar!LongSentencesMarked

\* BuiltInAiProvider: the first text of a CV never lowers its score, and the
\* match is 100 percent only if no keyword is missing.
ScoresFair == BuiltInAi!ScoresFair

\* CvFileImportService: each line of a section is in one of the entries it is
\* cut into, and they are in order, unless it has more than are kept; the skills
\* are those of fit length; a language model replaces nothing found before.
EveryLineInItsEntry == ResumeText!EveryLineInItsEntry

=============================================================================
