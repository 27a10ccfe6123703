------------------------------ MODULE CvContents ------------------------------
(***************************************************************************)
(* The CVs of one user: their rows (Cvs), the items of a section           *)
(* (CvSections), their public links (CvShares) and imports (CvImports).    *)
(* Each part looks at rows and columns of its own, so a step is a step of  *)
(* one of them.                                                            *)
(***************************************************************************)
EXTENDS Cvs

CONSTANTS
    Item,                 \* identifiers of items
    SectionCv, ImportCv,  \* CVs that have items and links; that are imported
    MaxKept, MaxNew,      \* bounds: identifiers and new items in one list
    MaxClock, MaxViews,   \* bounds: the last millisecond, views of one link
    FileContents          \* bound: sets of parts a file may have

VARIABLES
    \* CvSections
    sectionCvs, cvOf, sectionPc, sectionTarget, listed, toDelete, toUpdate, toInsert, held,
    inserted, late,
    \* CvShares
    sharedCvs, share, now, sharePc, shareTarget, public, link, found, shown,
    \* CvImports
    importedCvs, filled, profile, importPc, parts, importTarget, step, meant, whole, failed

sectionVars == <<sectionCvs, cvOf, sectionPc, sectionTarget, listed, toDelete, toUpdate,
                 toInsert, held, inserted, late>>
shareVars == <<sharedCvs, share, now, sharePc, shareTarget, public, link, found, shown>>
importVars == <<importedCvs, filled, profile, importPc, parts, importTarget, step, meant,
                whole, failed>>
contentVars == <<vars, sectionVars, shareVars, importVars>>

-----------------------------------------------------------------------------
Sections == INSTANCE CvSections WITH
    Cv <- SectionCv, NoCv <- None,
    cvs <- sectionCvs, pc <- sectionPc, target <- sectionTarget

Shares == INSTANCE CvShares WITH
    Cv <- SectionCv, Nothing <- None,
    cvs <- sharedCvs, pc <- sharePc, target <- shareTarget

Imports == INSTANCE CvImports WITH
    Cv <- ImportCv, Contents <- FileContents,
    cvs <- importedCvs, pc <- importPc, target <- importTarget

ASSUME PartsAssumption ==
    /\ Sections!CvSectionsAssumption
    /\ Shares!CvSharesAssumption
    /\ Imports!CvImportsAssumption

-----------------------------------------------------------------------------
ContentsInit ==
    /\ Init
    /\ Sections!Init
    /\ Shares!Init
    /\ Imports!Init

CvsNext == Next /\ UNCHANGED <<sectionVars, shareVars, importVars>>

SectionsNext == Sections!Next /\ UNCHANGED <<vars, shareVars, importVars>>

SharesNext == Shares!Next /\ UNCHANGED <<vars, sectionVars, importVars>>

ImportsNext == Imports!Next /\ UNCHANGED <<vars, sectionVars, shareVars>>

ContentsNext == CvsNext \/ SectionsNext \/ SharesNext \/ ImportsNext

ContentsSpec == ContentsInit /\ [][ContentsNext]_contentVars

-----------------------------------------------------------------------------
\* Every part's state has the types of the columns and variables it stands for.
PartsTypeOK == TypeOK /\ Sections!TypeOK /\ Shares!TypeOK /\ Imports!TypeOK

\* CvService.bulkUpsert...: what a list leaves out is gone when its upsert
\* commits, except items that requests running at the same time have added
\* since its delete: two lists saved together are merged, an older item is
\* never brought back.
OmittedItemsGo == Sections!OmittedItemsGo

\* CvService.bulkUpsert... is all or nothing: when it commits, every item its
\* list names is in the section of its CV, also if other requests delete
\* items, or the list names items of another CV.
ListSurvives == Sections!ListSurvives

\* CvService.getPublicCv: the count of a share is that of the visitors who
\* were shown its CV, however visits overlap each other and the owner's changes.
ViewsCounted == Shares!ViewsCounted

\* CvService.shareCv: once a link is dead it stays dead; only a request that
\* made the same link in the same millisecond, and is still running, can bring
\* it back.
DeadLinkStaysDead == Shares!DeadLinkStaysDead

\* The imports: a CV that one has made has all the parts it was to be made of,
\* or its import has failed and it has the first of them; a LinkedIn import,
\* which is one transaction, leaves no such remains.
ImportedWholeOrPrefix == Imports!ImportedWholeOrPrefix

=============================================================================
