SPECIFICATION MCSpec
CONSTANTS
    google = google
    linkedin = linkedin
    address = address
    Slot = {s1, s2}
    None = None
    User = {u1, u2, u3}
    Identity = {google, linkedin}
    Address = {address}
    AddressOf <- SomeAddresses
    Mixed = {linkedin}
    File = {f1, f2, f3}
    Elsewhere = elsewhere
    Gone = gone
    Job = {job}
    Skill = {skill}
    Levels = {50}
    MaxClock = 1
    Descriptions <- SomeDescriptions
    Measures <- SomeMeasures
    Answers <- SomeAnswers
    MaxLength = 7
    MaxPhrases = 1
    MaxWords = 1
    Experiences <- SomeExperiences
    SkillCounts = {0, 7, 12}
    JobSizes = {0, 5, 201}
    TopKeywords = 30
    Headings = {"experience", "skills"}
    Line <- SomeLines
    Titles <- SomeTitles
    DateLines <- SomeDateLines
    Whole <- SomeWhole
    SkillName = {"java", "c", "go", "sql", "model"}
    Odd = {"c"}
    Pieces <- SomePieces
    MaxLines = 5
    MaxEntries = 2
    MaxSkills = 2
    Findings <- SomeFindings
SYMMETRY Symmetry
CHECK_DEADLOCK FALSE
INVARIANTS ServicesTypeOK AvatarThere FirstDateKept MoreKeywordsNeverLower RequiredSuggested LongSentencesMarked ScoresFair EveryLineInItsEntry
PROPERTIES AloneSignIn IdentityKept
