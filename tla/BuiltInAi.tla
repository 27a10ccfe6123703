------------------------------ MODULE BuiltInAi ------------------------------
(***************************************************************************)
(* The rule-based provider of AI results, BuiltInAiProvider: analyzeCv and *)
(* optimizeCvForJob, which stand in where no language model is configured. *)
(*                                                                         *)
(* A CV is a record of what the rules look at.  Of the text (the summary   *)
(* and the descriptions joined) that is whether it has doubled spaces or   *)
(* dots, whether it has 100 characters, and its average sentence.  Of the  *)
(* keywords of a job it is how many there are and how many of them the CV  *)
(* has.  Sums of floating point numbers are computed in tenths.            *)
(***************************************************************************)
EXTENDS Integers, Sequences, FiniteSets

CONSTANTS
    Experiences,  \* bound: lists of experiences a CV may have
    SkillCounts,  \* bound: numbers of skills
    JobSizes,     \* bound: numbers of different significant words in a job
    TopKeywords   \* how many of them are keywords (30 in the code)

Length == {"none", "short", "long"}

\* An experience: the length of its description, and what the rules find in it.
ExperienceFacts == [description : Length, verbs : BOOLEAN, figures : BOOLEAN]

Style == [doubled : BOOLEAN, dots : BOOLEAN, short : BOOLEAN,
          sentences : {"short", "normal", "long"}]

Cvs == [summary : Length, email : BOOLEAN, fullName : BOOLEAN, experiences : Experiences,
        skills : SkillCounts, education : BOOLEAN, style : Style]

\* What the composing module assumes.  With 200 keywords a missing one could be
\* rounded away.
BuiltInAiAssumption ==
    /\ Experiences \subseteq Seq(ExperienceFacts)
    /\ SkillCounts \subseteq Nat /\ JobSizes \subseteq Nat
    /\ TopKeywords \in 1 .. 199

VARIABLES
    cv,        \* the content under analysis
    jobWords,  \* how many significant words the job description has
    lacking,   \* how many of its keywords the CV lacks
    answer     \* what the provider returns

vars == <<cv, jobWords, lacking, answer>>

-----------------------------------------------------------------------------
Points(b, n) == IF b THEN n ELSE 0

Least(a, b) == IF a < b THEN a ELSE b

Count(q, Test(_)) == Cardinality({i \in DOMAIN q : Test(q[i])})

Described(e) == e.description # "none"

\* getAllText is not empty.
HasText(c) == c.summary # "none" \/ Count(c.experiences, Described) > 0

GrammarScore(c) ==
    85 - Points(HasText(c) /\ c.style.doubled, 5) - Points(HasText(c) /\ c.style.dots, 5)
       - Points(~HasText(c) \/ c.style.short, 10)

\* Mutant: a CV without text is rated like one of short sentences.
ReadabilityOfAny(c) ==
    80 - Points(HasText(c) /\ c.style.sentences = "long", 15)
       - Points(~HasText(c) \/ c.style.sentences = "short", 10)
       + Points(c.experiences # <<>>, 5) + Points(c.summary # "none", 5)

ReadabilityScore(c) ==
    IF ~HasText(c) THEN 50
    ELSE 80 - Points(c.style.sentences = "long", 15) - Points(c.style.sentences = "short", 10)
            + Points(c.experiences # <<>>, 5) + Points(c.summary # "none", 5)

AtsScore(c) ==
    LET long == Count(c.experiences, LAMBDA e : e.description = "long")
        sum == 60 + Points(c.email, 5) + Points(c.fullName, 5) + Points(c.summary # "none", 10)
                  + Points(c.skills >= 5, 10) + Points(c.skills >= 10, 5)
                  + Points(c.experiences # <<>>, 5) + Points(c.education, 5)
                  + Least(10, 3 * long)
    IN  Least(100, sum)

\* Math.round of the weighted sum.
OverallScore(c) ==
    (2 * GrammarScore(c) + 3 * ReadabilityScore(c) + 5 * AtsScore(c) + 5) \div 10

Issues(c) ==
    (IF c.summary = "long" THEN {} ELSE {<<"personalInfo", c.summary>>})
        \cup {<<"experiences", i>> : i \in {j \in DOMAIN c.experiences : ~Described(c.experiences[j])}}
        \cup (IF c.skills >= 5 THEN {} ELSE {<<"skills", c.skills>>})
        \cup (IF c.education THEN {} ELSE {<<"education", 0>>})

Suggestions(c) ==
    LET about == {i \in DOMAIN c.experiences : Described(c.experiences[i])}
    IN  {<<"verbs", i>> : i \in {j \in about : ~c.experiences[j].verbs}}
            \cup {<<"figures", i>> : i \in {j \in about : ~c.experiences[j].figures}}

-----------------------------------------------------------------------------
\* extractKeywords: the most frequent words.
Keywords(words) == Least(words, TopKeywords)

MatchScore(words, missing) ==
    LET all == Keywords(words)
    IN  IF all = 0 THEN 50 ELSE (200 * (all - missing) + all) \div (2 * all)

\* The sections to work on; absent is how many of the missing keywords the
\* summary lacks.
Recommendations(c, missing, absent) ==
    (IF missing > 0 THEN {"skills"} ELSE {})
        \cup (IF c.summary = "none" \/ absent > 3 THEN {"personalInfo"} ELSE {})

-----------------------------------------------------------------------------
Init ==
    /\ cv \in Cvs
    /\ jobWords = 0
    /\ lacking = 0
    /\ answer = <<>>

AnalyzeCv ==
    /\ answer = <<>>
    /\ answer' = <<OverallScore(cv), Issues(cv), Suggestions(cv)>>
    /\ UNCHANGED <<cv, jobWords, lacking>>

\* The CV's skills, and the keywords of its text, are all of the job's but some.
OptimizeCvForJob(words, missing, absent) ==
    /\ answer = <<>>
    /\ missing <= Keywords(words) /\ absent <= missing
    /\ jobWords' = words
    /\ lacking' = missing
    /\ answer' = <<MatchScore(words, missing), Recommendations(cv, missing, absent)>>
    /\ UNCHANGED cv

\* Bound: the CV lacks none, one or all of the keywords.
Next ==
    \/ AnalyzeCv
    \/ \E words \in JobSizes : \E missing \in {0, 1, Keywords(words)}, absent \in {0, 4} :
           OptimizeCvForJob(words, missing, absent)

Spec == Init /\ [][Next]_vars

-----------------------------------------------------------------------------
Optimized == Len(answer) = 2

\* Scores are fair at both ends.  The first text of a CV, however short and
\* careless, never lowers its score: what it costs in grammar it gains in
\* readability.  And the match is 100 percent only if no keyword is missing:
\* there are too few keywords for the rest to be rounded away.
ScoresFair ==
    /\ answer = <<>> /\ ~HasText(cv) =>
           \A style \in Style, e \in ExperienceFacts :
               OverallScore(cv) <= OverallScore([cv EXCEPT !.experiences = Append(@, e), !.style = style])
    /\ Optimized => (answer[1] = 100 <=> lacking = 0 /\ jobWords > 0)

=============================================================================
