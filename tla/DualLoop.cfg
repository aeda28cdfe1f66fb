SPECIFICATION Spec
CONSTANTS
    MaxInner = 3
    MaxOuter = 2
    MaxTotal = 5
    UseInitialization = FALSE
    OuterTests = {"threshold", "relative", "cost"}
    GapThreshold = 0
    RelativePercent = 50
    MaxGap = 2
    NPeriods = 2
INVARIANTS
    TypeOK
    CommittedIsBest
    IterationsBounded
PROPERTIES
    LoopsEnd
