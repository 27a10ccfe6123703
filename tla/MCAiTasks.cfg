SPECIFICATION FairSpec
CONSTANTS
    analysis = analysis
    export = export
    asked = asked
    Job = {analysis, export}
    Request = {asked}
    Kinds <- SomeKinds
    Content = {v1, v2}
    MaxStalls = 1
    None = None
INVARIANTS SpentIsAccounted ChargedOncePerRun TypeOK
PROPERTIES EveryJobSettles
