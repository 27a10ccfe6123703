------------------------------ MODULE MCServices ------------------------------
(***************************************************************************)
(* Small instances of the services.  They share nothing, so a behaviour is *)
(* of one of them, chosen at the start; the variables of the others keep   *)
(* their first values, and the inputs of the others are fixed.  So it is   *)
(* with the jobs and the skills of the tracker.                            *)
(***************************************************************************)
EXTENDS Services, TLC

CONSTANTS
    google, linkedin,  \* the identities of one person
    address            \* the e-mail address of that person

VARIABLE
    part               \* the service the behaviour is about

-----------------------------------------------------------------------------
\* Both providers have the address; LinkedIn spells it with capitals.
SomeAddresses == [i \in {google, linkedin} |-> address]

\* Job descriptions: words of every importance, in several orders, and more
\* of one than are suggested or than the scores are cut at.
Word(technical, near, count) ==
    [technical |-> technical, stop |-> FALSE, count |-> count, near |-> near]
Required == Word(TRUE, {"required", "bonus"}, 1)
Preferred == Word(TRUE, {"preferred"}, 1)
Unmarked == Word(TRUE, {}, 1)
Frequent == Word(FALSE, {"required"}, 2)
Rare == Word(FALSE, {"required"}, 1)

SomeDescriptions ==
    { <<Required, Preferred, Frequent, Word(TRUE, {"bonus"}, 1)>>,
      <<Preferred, Preferred, Preferred, Preferred, Rare>>,
      <<Required, Required, Required, Required, Unmarked, Required, Preferred>>,
      <<Frequent, Frequent>>,
      <<Required, Required, Required, Preferred, Preferred, Preferred>> }

Poor == [email |-> FALSE, phone |-> FALSE, linkedin |-> FALSE, words |-> 90,
         experience |-> FALSE, figures |-> 0, metrics |-> 1, verbs |-> 1, skills |-> FALSE,
         education |-> FALSE, degree |-> FALSE, certificate |-> FALSE, summary |-> FALSE,
         looked |-> 0, early |-> 0, lines |-> 3, plain |-> FALSE, bullets |-> 1]

Rich == [email |-> TRUE, phone |-> TRUE, linkedin |-> TRUE, words |-> 400,
         experience |-> TRUE, figures |-> 3, metrics |-> 2, verbs |-> 6, skills |-> TRUE,
         education |-> TRUE, degree |-> TRUE, certificate |-> TRUE, summary |-> TRUE,
         looked |-> 20, early |-> 20, lines |-> 30, plain |-> TRUE, bullets |-> 6]

SomeMeasures ==
    {Poor, Rich, [Rich EXCEPT !.figures = 1, !.verbs = 2, !.bullets = 2, !.words = 6000,
                            !.looked = 7, !.early = 3]}

\* The first repeats a suggestion of the rules.
SomeAnswers ==
    {<<>>, <<<<"impact", 0>>, <<"model", 1>>>>, [i \in 1 .. 12 |-> <<"model", i>>]}

\* Experiences: none, one without a description, a short and a long one.
Experience(description, verbs) ==
    [description |-> description, verbs |-> verbs, figures |-> ~verbs]

SomeExperiences ==
    {<<>>, <<Experience("none", FALSE)>>, <<Experience("short", TRUE), Experience("long", FALSE)>>}

\* Lines of a resume: as the beginning of an entry, the second has a part too
\* many; as skills, it has one that is too short, and the third has two.
SomeLines == {"title", "triple", "text"}
SomeTitles == {"title", "triple"}
SomeDateLines == {"triple"}

Sections == {"experience", "education", "skills", "projects"}

SomeWhole ==
    [k \in Sections |->
        {entry \in UNION {[1 .. n -> SomeLines] : n \in 1 .. 3} : entry[1] # "triple"}]

SomePieces ==
    [line \in SomeLines |->
        CASE line = "title" -> <<"java">> [] line = "triple" -> <<"c", "go">>
          [] line = "text" -> <<"go", "sql">>]

\* What a model finds: more entries than are kept, and a skill known already.
Found == [lines |-> <<>>, dated |-> TRUE, cut |-> FALSE]

SomeFindings ==
    {[k \in Sections |-> IF k = "skills" THEN <<"go", "model">> ELSE <<Found, Found, Found>>]}

Symmetry == Permutations(Slot) \cup Permutations(File)

-----------------------------------------------------------------------------
\* The inputs of a service the behaviour is not about.
OneDescription == jd = <<Frequent, Frequent>> /\ mentioned = {} /\ measured = Poor

OneCv ==
    cv = [summary |-> "long", email |-> TRUE, fullName |-> TRUE, experiences |-> <<>>,
          skills |-> 0, education |-> TRUE,
          style |-> [doubled |-> FALSE, dots |-> FALSE, short |-> FALSE,
                     sentences |-> "normal"]]

MCInit ==
    /\ part \in {"accounts", "avatars", "jobs", "skills", "ats", "grammar", "builtIn", "resume"}
    /\ IF part = "ats" THEN TRUE ELSE OneDescription
    /\ IF part = "grammar" THEN TRUE ELSE checked = <<>>
    /\ IF part = "builtIn" THEN TRUE ELSE OneCv
    /\ IF part = "resume" THEN TRUE ELSE resume = <<"text">>
    /\ ServicesInit

MCNext ==
    /\ \/ part = "accounts" /\ AccountsNext
       \/ part = "avatars" /\ AvatarsNext
       \/ part = "jobs" /\ TrackerNext /\ \A s \in Slot : item'[s] \notin Skill
       \/ /\ part = "skills" /\ TrackerNext
          /\ \A j \in Job : tracked'[j] = None /\ \A s \in Slot : item'[s] # j
       \/ part = "ats" /\ AtsNext
       \/ part = "grammar" /\ GrammarNext
       \/ part = "builtIn" /\ BuiltInNext
       \/ part = "resume" /\ ResumeNext
    /\ UNCHANGED part

MCSpec == MCInit /\ [][MCNext]_<<part, serviceVars>>

=============================================================================
