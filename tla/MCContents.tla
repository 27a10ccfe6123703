------------------------------ MODULE MCContents ------------------------------
(***************************************************************************)
(* The CVs of one user on a small instance.  The parts share no state, so  *)
(* a behaviour is of one of them, chosen at the start; the variables of    *)
(* the others keep their first values.                                     *)
(***************************************************************************)
EXTENDS CvContents, TLC

CONSTANTS
    c1, c2, c3, t1  \* identifiers of CVs, a title

VARIABLE
    part            \* the part the behaviour is about

-----------------------------------------------------------------------------
\* Titles and flags of updates: one column at a time.
SomeDtos == {<<t1, "absent">>, <<None, "set">>, <<None, "unset">>}

SomeContents == {{"experience", "education", "projects"}, {"skills"}}

\* CvImports has a CV of its own, so that the others can be exchanged.
Symmetry == Permutations(Slot) \cup Permutations(Item) \cup Permutations({c1, c2})

-----------------------------------------------------------------------------
MCInit ==
    /\ part \in {"cvs", "sections", "shares", "imports"}
    /\ ContentsInit
    /\ part # "sections" => sectionCvs = {}

MCNext ==
    /\ \/ part = "cvs" /\ CvsNext
       \/ part = "sections" /\ SectionsNext
       \/ part = "shares" /\ SharesNext
       \/ part = "imports" /\ ImportsNext
    /\ UNCHANGED part

MCSpec == MCInit /\ [][MCNext]_<<part, contentVars>>

=============================================================================
