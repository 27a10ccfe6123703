------------------------------ MODULE ResumeText ------------------------------
(***************************************************************************)
(* How the text of an uploaded resume becomes the entries of a CV:         *)
(* CvFileImportService.extractStructuredSections.                          *)
(*                                                                         *)
(* A text is a sequence of lines, and a line is the heading of a section   *)
(* (its name), "blank" or one of Line, of which the constants tell what    *)
(* the regular expressions make of it.  normalizeText has left no blank    *)
(* line at an end of the text and no two together.  The calls that save    *)
(* the entries are in CvImports.                                           *)
(***************************************************************************)
EXTENDS Integers, Sequences, SequencesExt, Ordered

CONSTANTS
    Headings,    \* bound: the sections a text may have, of SectionKey
    Line,        \* bound: the other lines it may have
    Titles,      \* those where an entry may begin: bullets, and 'Engineer at X'
    DateLines,   \* those with a range of dates
    Whole,       \* Whole[k]: the entries (as lines) of which nothing is cut off
    SkillName,   \* skills
    Odd,         \* skills with less than 2 characters or more than 80
    Pieces,      \* Pieces[l]: the skills that the separators make of a line
    MaxLines,    \* bound: lines in a text
    MaxEntries,  \* entries of a section (12 in the code)
    MaxSkills,   \* skills (40 in the code)
    Answers      \* bound: what a language model may find, by section

SectionKey == {"experience", "education", "skills", "projects"}

Lines == Headings \cup {"blank"} \cup Line

\* A part of an entry that is cut is lost: see ParseEntries.
Entry == [lines : Seq(Nat), dated : BOOLEAN, cut : BOOLEAN]

\* What the composing module assumes.
ResumeAssumption ==
    /\ Headings \subseteq SectionKey
    /\ Line \cap (SectionKey \cup {"blank"}) = {}
    /\ Titles \subseteq Line
    /\ Pieces \in [Line -> Seq(SkillName)]
    /\ MaxLines \in Nat /\ MaxEntries \in Nat /\ MaxSkills \in Nat
    /\ \A answer \in Answers : /\ answer["skills"] \in Seq(SkillName \ Odd)
                              /\ \A k \in SectionKey \ {"skills"} : answer[k] \in Seq(Entry)

VARIABLES
    text,      \* the lines of the text
    pc,        \* what the import does next
    at,        \* how many lines collectSectionBlocks has looked at
    current,   \* the section it is in
    buckets,   \* buckets[k]: the lines of section k, by their number; the
               \* skills as what the separators make of their lines
    parsed,    \* parsed[k]: the entries found in section k
    sections   \* sections[k]: the entries to be saved

vars == <<text, pc, at, current, buckets, parsed, sections>>

-----------------------------------------------------------------------------
IsBlank(i) == text[i] = "blank"

\* trim, of the lines with the numbers in q.
Trim(q) ==
    LET full == {n \in DOMAIN q : ~IsBlank(q[n])}
    IN  ItemsAt(q, {n \in DOMAIN q : \E first, last \in full : first <= n /\ n <= last})

\* The lines of q cut in front of each place in cuts; blank ones are dropped.
CutAt(q, cuts) ==
    LET begins == InOrder({n \in DOMAIN q : n = 1 \/ n \in cuts})
        Chunk(k) == {n \in DOMAIN q : /\ begins[k] <= n /\ ~IsBlank(q[n])
                                      /\ k + 1 \in DOMAIN begins => n < begins[k + 1]}
    IN  [k \in DOMAIN begins |-> ItemsAt(q, Chunk(k))]

\* Mutant: a bullet always begins an entry, and what precedes the first is lost.
SplitAtTitles(body) ==
    LET q == Trim(body)
        titles == {n \in DOMAIN q : text[q[n]] \in Titles}
    IN  CASE titles = {} -> <<>>
          [] 1 \in titles -> CutAt(q, titles)
          [] OTHER -> Tail(CutAt(q, titles))

\* splitSectionEntries: by paragraphs if there are several, else by titles.
SplitSectionEntries(body) ==
    LET q == Trim(body)
        paragraphs == {n \in 2 .. Len(q) : IsBlank(q[n - 1]) /\ ~IsBlank(q[n])}
        titles == {n \in DOMAIN q : text[q[n]] \in Titles}
    IN  CutAt(q, IF paragraphs # {} THEN paragraphs ELSE titles)

FirstOf(q, n) == SubSeq(q, 1, IF Len(q) < n THEN Len(q) ELSE n)

\* parseDateRange: the start is the one found, or last year.
HasDates(entry) == \E n \in DOMAIN entry : text[entry[n]] \in DateLines

\* parseExperienceEntries, parseEducationEntries and parseProjectEntries.  Of
\* the first line only two parts are read ('Engineer | Acme | Remote' has
\* three), and those and the description are cut at their greatest length.
ParseEntries(k, body) ==
    LET entries == FirstOf(SplitSectionEntries(body), MaxEntries)
    IN  [n \in DOMAIN entries |->
            [lines |-> entries[n], dated |-> HasDates(entries[n]),
             cut |-> [i \in DOMAIN entries[n] |-> text[entries[n][i]]] \notin Whole[k]]]

Distinct(q) == ItemsAt(q, {n \in DOMAIN q : \A m \in 1 .. n - 1 : q[m] # q[n]})

\* parseSkillEntries: a skill is kept once, and only if its length is fit.
ParseSkillEntries(skills) ==
    FirstOf(Distinct(ItemsAt(skills, {n \in DOMAIN skills : skills[n] \notin Odd})), MaxSkills)

-----------------------------------------------------------------------------
Init ==
    /\ text \in UNION {[1 .. n -> Lines] : n \in 1 .. MaxLines}
    /\ ~IsBlank(1) /\ ~IsBlank(Len(text))
    /\ \A i \in 2 .. Len(text) : ~(IsBlank(i) /\ IsBlank(i - 1))
    /\ pc = "collect"
    /\ at = 0
    /\ current = "none"
    /\ buckets = [k \in SectionKey |-> <<>>]
    /\ parsed = buckets
    /\ sections = buckets

Reading == pc = "collect" /\ at < Len(text)

\* detectSectionHeading has found one.
ReadHeading ==
    /\ Reading
    /\ text[at + 1] \in Headings
    /\ current' = text[at + 1]
    /\ at' = at + 1
    /\ UNCHANGED <<text, pc, buckets, parsed, sections>>

SkillsIn(line) == IF line = "blank" THEN <<>> ELSE Pieces[line]

\* Lines before the first heading are dropped.
ReadLine ==
    /\ Reading
    /\ text[at + 1] \notin Headings
    /\ buckets' = CASE current = "none" -> buckets
                    [] current = "skills" ->
                         [buckets EXCEPT !["skills"] = @ \o SkillsIn(text[at + 1])]
                    [] OTHER -> [buckets EXCEPT ![current] = Append(@, at + 1)]
    /\ at' = at + 1
    /\ UNCHANGED <<text, pc, current, parsed, sections>>

ParseSections ==
    /\ pc = "collect"
    /\ at = Len(text)
    /\ parsed' = [k \in SectionKey |-> IF k = "skills" THEN ParseSkillEntries(buckets[k])
                                       ELSE ParseEntries(k, buckets[k])]
    /\ pc' = "merge"
    /\ UNCHANGED <<text, at, current, buckets, sections>>

\* mergeSections; extractSectionsWithLlm has kept to the caps itself.
MergeSections(answer) ==
    /\ pc = "merge"
    /\ sections' = [k \in SectionKey |->
           IF k = "skills" THEN FirstOf(Distinct(parsed[k] \o answer[k]), MaxSkills)
           ELSE IF parsed[k] # <<>> THEN parsed[k] ELSE FirstOf(answer[k], MaxEntries)]
    /\ pc' = "done"
    /\ UNCHANGED <<text, at, current, buckets, parsed>>

\* No model is configured, or it fails.
KeepParsed ==
    /\ pc = "merge"
    /\ sections' = parsed
    /\ pc' = "done"
    /\ UNCHANGED <<text, at, current, buckets, parsed>>

Next ==
    \/ ReadHeading \/ ReadLine \/ ParseSections
    \/ \E answer \in Answers : MergeSections(answer)
    \/ KeepParsed

Spec == Init /\ [][Next]_vars

-----------------------------------------------------------------------------
\* The lines under a heading of k, whichever of several headings it is.
LinesUnder(k) ==
    {i \in DOMAIN text :
        /\ text[i] \notin Headings \cup {"blank"}
        /\ \E h \in 1 .. i - 1 : text[h] = k /\ \A j \in h + 1 .. i : text[j] \notin Headings}

LinesOf(entries) == UNION {ToSet(entries[n].lines) : n \in DOMAIN entries}

\* The lines of an entry, and the entries, are in the order of the text, and
\* none is there twice.
InTextOrder(entries) ==
    /\ \A n \in DOMAIN entries : \A a, b \in DOMAIN entries[n].lines :
           a < b => entries[n].lines[a] < entries[n].lines[b]
    /\ \A m, n \in DOMAIN entries : m < n =>
           \A i \in ToSet(entries[m].lines), j \in ToSet(entries[n].lines) : i < j

\* The skills of fit length that the lines of their section have.
SkillsUnder == (UNION {ToSet(Pieces[text[i]]) : i \in LinesUnder("skills")}) \ Odd

\* When a section is cut into entries each of its lines is in one of them, in
\* the order of the text, and none is in two or in another section; of a
\* section that has more entries than are kept, the last lines are left out.
\* (Of the lines of an entry that is cut, a part is lost.)  The skills are those
\* of fit length, and all of them unless there are more than are kept.  And a
\* language model replaces nothing that was found without it.
EveryLineInItsEntry ==
    /\ pc = "merge" =>
          /\ \A k \in SectionKey \ {"skills"} :
                /\ InTextOrder(parsed[k])
                /\ \A n \in DOMAIN parsed[k] : parsed[k][n].lines # <<>>
                /\ LinesOf(parsed[k]) \subseteq LinesUnder(k)
                /\ \A i \in LinesOf(parsed[k]), j \in LinesUnder(k) \ LinesOf(parsed[k]) : i < j
                /\ Len(parsed[k]) < MaxEntries => LinesOf(parsed[k]) = LinesUnder(k)
          /\ ToSet(parsed["skills"]) \subseteq SkillsUnder
          /\ Len(parsed["skills"]) < MaxSkills => ToSet(parsed["skills"]) = SkillsUnder
    /\ pc = "done" => \A k \in SectionKey : IsPrefix(parsed[k], sections[k])

=============================================================================
