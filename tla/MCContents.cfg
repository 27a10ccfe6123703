SPECIFICATION MCSpec
CONSTANTS
    c1 = c1
    c2 = c2
    c3 = c3
    t1 = t1
    Slot = {s1, s2}
    Cv = {c1, c2, c3}
    SectionCv = {c1, c2}
    ImportCv = {c3}
    Title = {t1}
    MaxAttempts = 2
    Stamp = {noon}
    Item = {i1, i2, i3}
    MaxKept = 1
    MaxNew = 1
    MaxClock = 2
    MaxViews = 2
    None = None
    Dtos <- SomeDtos
    FileContents <- SomeContents
SYMMETRY Symmetry
CHECK_DEADLOCK FALSE
INVARIANTS PartsTypeOK DefaultsBounded AloneKeepsSlug ViewsCounted ImportedWholeOrPrefix
PROPERTIES DefaultNotLost OmittedItemsGo ListSurvives DeadLinkStaysDead
