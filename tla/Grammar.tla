------------------------------- MODULE Grammar -------------------------------
(***************************************************************************)
(* The heuristic grammar check: GrammarService.check without a language    *)
(* model (whose quota is in AiQuota).                                      *)
(*                                                                         *)
(* A text is a sequence of symbols: a space, a full stop (for one of .!?), *)
(* and letters.  The letter "passive" stands for a phrase that a weak-verb *)
(* rule or the passive-voice pattern matches (a warning), "wordy" for one  *)
(* that a redundant-phrase rule matches (a hint), "letter" for the rest.   *)
(* Positions count from 0, as in the code, and an issue ends before its    *)
(* endIndex.  The wording of messages and of the summary is left out.      *)
(***************************************************************************)
EXTENDS Integers, Sequences, SequencesExt, FiniteSetsExt, Ordered

CONSTANTS
    MaxLength,  \* bound: symbols in a text
    MaxPhrases, \* bound: phrases of a rule in a text
    MaxWords    \* words a sentence may have (40 in the code)

\* What the composing module assumes.
GrammarAssumption == MaxLength \in Nat /\ MaxWords \in Nat \ {0}

Symbols == {" ", ".", "letter", "passive", "wordy"}

VARIABLES
    text,    \* the text under check
    pc,      \* what check does next
    rest,    \* the sentences detectLongSentences has yet to look at
    at,      \* currentIndex
    issues   \* the issues found

vars == <<text, pc, rest, at, issues>>

-----------------------------------------------------------------------------
Issue(severity, from, to) ==
    [severity |-> severity, startIndex |-> from, endIndex |-> to]

\* findMatches and detectPassiveVoice: one issue for each match.
Matches(t) ==
    {Issue("warning", i - 1, i) : i \in {j \in DOMAIN t : t[j] = "passive"}}
    \cup {Issue("info", i - 1, i) : i \in {j \in DOMAIN t : t[j] = "wordy"}}

Blank(q) == \A i \in DOMAIN q : q[i] = " "

\* trim().split(/\s+/).length of a text that is not blank.
WordCount(q) ==
    Cardinality({i \in DOMAIN q : q[i] # " " /\ (i = 1 \/ q[i - 1] = " ")})

\* text.split(/[.!?]+/): where the parts begin and end.
Starts(t) == {i \in DOMAIN t : t[i] # "." /\ (i = 1 \/ t[i - 1] = ".")}

EndOf(t, i) == Max({j \in i .. Len(t) : \A k \in i .. j : t[k] # "."})

Part(t, i) == SubSeq(t, i, EndOf(t, i))

\* The parts that are not blank.
Sentences(t) ==
    LET full == InOrder({i \in Starts(t) : ~Blank(Part(t, i))})
    IN  [n \in DOMAIN full |-> Part(t, full[n])]

\* text.indexOf(part, from)
IndexOf(t, part, from) ==
    Min({i \in from .. Len(t) - Len(part) : SubSeq(t, i + 1, i + Len(part)) = part})

\* Math.max(0, 100 - lost)
ScoreLess(lost) == IF lost > 100 THEN 0 ELSE 100 - lost

\* calculateScore, of warnings and hints.
Score(found) ==
    ScoreLess(5 * Cardinality({i \in found : i.severity = "warning"})
              + 2 * Cardinality({i \in found : i.severity = "info"}))

-----------------------------------------------------------------------------
Init ==
    /\ text \in UNION {[1 .. n -> Symbols] : n \in 0 .. MaxLength}
    /\ Cardinality({i \in DOMAIN text : text[i] \in {"passive", "wordy"}}) <= MaxPhrases
    /\ pc = "match"
    /\ rest = <<>>
    /\ at = 0
    /\ issues = {}

FindMatches ==
    /\ pc = "match"
    /\ pc' = "sentences"
    /\ issues' = Matches(text)
    /\ rest' = Sentences(text)
    /\ UNCHANGED <<text, at>>

\* Mutant: currentIndex stays where the text begins.
SearchFromStart == 0

\* Where the search for the next sentence begins.
SearchFrom == at

LongIssue(from) ==
    IF WordCount(Head(rest)) <= MaxWords THEN {}
    ELSE {Issue("warning", from, from + Len(Head(rest)))}

\* detectLongSentences: one turn of its loop.
NextSentence ==
    /\ pc = "sentences"
    /\ rest # <<>>
    /\ LET from == IndexOf(text, Head(rest), SearchFrom)
       IN  /\ issues' = issues \cup LongIssue(from)
           /\ at' = from + Len(Head(rest))
    /\ rest' = Tail(rest)
    /\ UNCHANGED <<text, pc>>

Done ==
    /\ pc = "sentences"
    /\ rest = <<>>
    /\ pc' = "done"
    /\ UNCHANGED <<text, rest, at, issues>>

Next == FindMatches \/ NextSentence \/ Done

Spec == Init /\ [][Next]_vars

-----------------------------------------------------------------------------
\* The stretches of the text between two full stops or its ends that have too
\* many words.
LongStretch(a, b) ==
    /\ \A i \in a + 1 .. b : text[i] # "."
    /\ a = 0 \/ text[a] = "."
    /\ b = Len(text) \/ text[b + 1] = "."
    /\ WordCount(SubSeq(text, a + 1, b)) > MaxWords

LongStretches ==
    {p \in (0 .. Len(text)) \X (0 .. Len(text)) : p[1] < p[2] /\ LongStretch(p[1], p[2])}

\* The check marks exactly the long sentences, each where it is, also when one
\* has the same words as another or is the beginning of it: the search for its
\* text never stops at another place.  Each costs its points once.
LongSentencesMarked ==
    pc = "done" =>
        /\ LongStretches = {<<i.startIndex, i.endIndex>> : i \in issues \ Matches(text)}
        /\ Score(issues) =
               ScoreLess(5 * Cardinality(LongStretches)
                         + 5 * Cardinality({i \in DOMAIN text : text[i] = "passive"})
                         + 2 * Cardinality({i \in DOMAIN text : text[i] = "wordy"}))

=============================================================================
