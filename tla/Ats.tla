--------------------------------- MODULE Ats ---------------------------------
(***************************************************************************)
(* The ATS score of a CV against a job description: AtsService.analyze.    *)
(*                                                                         *)
(* The words of the job description are members of Term; what extraction   *)
(* tells apart about one is a record.  What the CV's text is measured for  *)
(* (a regular expression that matches, a count) is a record too; a text    *)
(* that has those measures and mentions those terms is the input.  Numbers *)
(* that the code adds as floating point are computed in hundredths.  The   *)
(* quota of the language model is in AiQuota, its switch in AiTasks.       *)
(***************************************************************************)
EXTENDS Integers, Sequences, SequencesExt, FiniteSetsExt, Ordered

CONSTANTS
    Descriptions,  \* bound: job descriptions, each a sequence of WordFacts
    Measures,      \* bound: what the CV's text is measured for
    Answers        \* bound: lists of suggestions a language model gives

Importance == {"required", "preferred", "bonus"}

\* A word: whether it is in TECHNICAL_TERMS or in STOP_WORDS, how often it
\* occurs, and the indicators within 100 characters of its first occurrence.
WordFacts == [technical : BOOLEAN, stop : BOOLEAN, count : Nat, near : SUBSET Importance]

\* A text, as the scores measure it.  Figures are '3 years' or '10%', metrics
\* are '2x' or '10%'; of the significant words of the description at most the
\* first twenty are looked for early in the text.
TextMeasures ==
    {t \in [email : BOOLEAN, phone : BOOLEAN, linkedin : BOOLEAN, words : Nat,
            experience : BOOLEAN, figures : Nat, metrics : Nat, verbs : Nat, skills : BOOLEAN,
            education : BOOLEAN, degree : BOOLEAN, certificate : BOOLEAN, summary : BOOLEAN,
            looked : 0 .. 20, early : 0 .. 20, lines : Nat, plain : BOOLEAN, bullets : Nat] :
        t.early <= t.looked}

\* A suggestion: what it is about, and the number of the keyword or section.
Suggestion == {"add", "consider", "section", "formatting", "impact", "model"} \X Nat

\* What the composing module assumes.
AtsAssumption ==
    /\ Descriptions \subseteq Seq(WordFacts)
    /\ Measures \subseteq TextMeasures
    /\ Answers \subseteq Seq(Suggestion)

VARIABLES
    jd,           \* the words of the job description
    mentioned,    \* the indices of the words the CV or its skills mention
    text,         \* the other measures of the CV's text
    pc,           \* where analyze is
    suggestions   \* result.suggestions

vars == <<jd, mentioned, text, pc, suggestions>>

-----------------------------------------------------------------------------
\* Math.round of a / b, for a >= 0 and b > 0.
Round(a, b) == (2 * a + b) \div (2 * b)

Least(a, b) == IF a < b THEN a ELSE b

\* extractKeywords: technical terms, and words that are there twice.
IsKeyword(w) == w.technical \/ (~w.stop /\ w.count >= 2)

\* determineImportance; what is not technical is a bonus.
ImportanceOf(w) ==
    CASE ~w.technical -> "bonus"
      [] w.technical /\ "required" \in w.near -> "required"
      [] w.technical /\ "required" \notin w.near /\ "preferred" \in w.near -> "preferred"
      [] w.technical /\ w.near = {"bonus"} -> "bonus"
      [] OTHER -> "required"

Keywords(d) == {i \in DOMAIN d : IsKeyword(d[i])}

OfImportance(d, p) == {i \in Keywords(d) : ImportanceOf(d[i]) = p}

Percent(part, all, points) == IF all = {} THEN 0
                              ELSE Round(points * Cardinality(part), Cardinality(all))

\* keywordMatchRate
MatchRate(d, found) == Percent(Keywords(d) \cap found, Keywords(d), 100)

-----------------------------------------------------------------------------
Points(b, n) == IF b THEN n ELSE 0

ScoreContactInfo(t) ==
    Points(t.email, 25) + Points(t.phone, 25) + Points(t.linkedin, 25) + Points(t.words > 0, 25)

ScoreExperience(t) ==
    Points(t.experience, 30)
        + (IF t.figures >= 3 THEN 40 ELSE Points(t.figures >= 1, 20))
        + (IF t.verbs >= 5 THEN 30 ELSE Points(t.verbs >= 2, 15))

\* Mutant: all keywords count when no required one is found.
SkillPointsByFound(d, found) ==
    LET required == OfImportance(d, "required")
    IN  IF required \cap found # {} THEN Percent(required \cap found, required, 80)
        ELSE Percent(Keywords(d) \cap found, Keywords(d), 80)

\* The required keywords count, or all of them when none is required.
SkillPoints(d, found) ==
    LET required == OfImportance(d, "required")
    IN  IF required # {} THEN Percent(required \cap found, required, 80)
        ELSE Percent(Keywords(d) \cap found, Keywords(d), 80)

ScoreSkills(d, found, t) == Points(t.skills, 20) + SkillPoints(d, found)

ScoreEducation(t) ==
    Points(t.education, 50) + Points(t.degree, 30) + Points(t.certificate, 20)

\* Words of the job description are looked for in the first 500 characters.
ScoreSummary(t) ==
    Points(t.summary, 40) + (IF t.looked > 0 THEN Round(60 * t.early, t.looked) ELSE 0)

ScoreFormatting(t) ==
    (IF t.words \in 300 .. 5000 THEN 30 ELSE Points(t.words >= 100, 15))
        + Points(t.lines >= 10, 20)
        + (IF t.plain THEN 25 ELSE 10)
        + (IF t.bullets >= 5 THEN 25 ELSE IF t.bullets >= 2 THEN 15 ELSE 5)

ScoreImpactLanguage(t) == Least(50, 5 * t.verbs) + Least(50, 10 * t.metrics)

\* scoreSections, in the order of the code.
ScoreSections(d, found, t) ==
    << ScoreContactInfo(t), ScoreExperience(t), ScoreSkills(d, found, t),
       ScoreEducation(t), ScoreSummary(t) >>

OverallScore(d, found, t) ==
    LET section == ScoreSections(d, found, t)
        sum == 40 * MatchRate(d, found)
                   + 6 * (section[1] + section[2] + section[3] + section[4] + section[5])
                   + 15 * ScoreFormatting(t) + 15 * ScoreImpactLanguage(t)
    IN  Least(100, Round(sum, 100))

-----------------------------------------------------------------------------
FirstOf(q, n) == SubSeq(q, 1, Least(n, Len(q)))

\* The keywords of importance p the CV lacks, in the order of the description.
Missing(d, found, p) == InOrder(OfImportance(d, p) \ found)

About(kind, q) == [i \in DOMAIN q |-> <<kind, q[i]>>]

\* What there is to say about the sections and the whole.
AboutText(d, found, t) ==
    LET sections == ScoreSections(d, found, t)
    IN  About("section", InOrder({k \in DOMAIN sections : sections[k] < 50}))
            \o (IF ScoreFormatting(t) < 60 THEN <<<<"formatting", 0>>>> ELSE <<>>)
            \o (IF ScoreImpactLanguage(t) < 40 THEN <<<<"impact", 0>>>> ELSE <<>>)

AboutKeywords(d, found) ==
    About("add", FirstOf(Missing(d, found, "required"), 5))
        \o About("consider", FirstOf(Missing(d, found, "preferred"), 3))

\* Mutant: the keywords come last.
KeywordsLast(d, found, t) == FirstOf(AboutText(d, found, t) \o AboutKeywords(d, found), 10)

GenerateSuggestions(d, found, t) ==
    FirstOf(AboutKeywords(d, found) \o AboutText(d, found, t), 10)

\* mergeSuggestions: the first ten different ones.
MergeSuggestions(mine, theirs) ==
    LET all == mine \o theirs
    IN  FirstOf(ItemsAt(all, {i \in DOMAIN all : \A j \in 1 .. i - 1 : all[j] # all[i]}), 10)

-----------------------------------------------------------------------------
Init ==
    /\ jd \in Descriptions
    /\ mentioned \in SUBSET DOMAIN jd
    /\ text \in Measures
    /\ pc = "score"
    /\ suggestions = <<>>

Analyze ==
    /\ pc = "score"
    /\ pc' = "ask"
    /\ suggestions' = GenerateSuggestions(jd, mentioned, text)
    /\ UNCHANGED <<jd, mentioned, text>>

\* shouldUseLlm, and the model answers.
AddSuggestions(answer) ==
    /\ pc = "ask"
    /\ pc' = "done"
    /\ suggestions' = MergeSuggestions(suggestions, answer)
    /\ UNCHANGED <<jd, mentioned, text>>

\* No model, no quota, or an error: the heuristics alone are the result.
KeepSuggestions ==
    /\ pc = "ask"
    /\ pc' = "done"
    /\ UNCHANGED <<jd, mentioned, text, suggestions>>

Next ==
    \/ Analyze
    \/ \E answer \in Answers : AddSuggestions(answer)
    \/ KeepSuggestions

Spec == Init /\ [][Next]_vars

-----------------------------------------------------------------------------
\* A CV that mentions one more keyword never scores less, overall or for its
\* skills, although rates are rounded twice and what the skills are measured
\* by depends on the importance of the keywords.
MoreKeywordsNeverLower ==
    \A i \in DOMAIN jd \ mentioned : LET more == mentioned \cup {i} IN
        /\ OverallScore(jd, mentioned, text) <= OverallScore(jd, more, text)
        /\ ScoreSkills(jd, mentioned, text) <= ScoreSkills(jd, more, text)

\* Of the required keywords that are missing, the first five are suggested
\* whatever else there is to say and whatever a language model adds: the list
\* is cut at ten twice.
RequiredSuggested ==
    pc # "score" =>
        \A i \in OfImportance(jd, "required") \ mentioned :
            \/ <<"add", i>> \in ToSet(suggestions)
            \/ Cardinality({j \in OfImportance(jd, "required") \ mentioned : j < i}) >= 5

=============================================================================
