SPECIFICATION Spec
CONSTANTS
    Screens <- AllScreens
    Frames <- SomeFrames
    Entries <- UserTyped
    Tabs <- Behind
    NoTitle <- Untitled
    Placeholder <- Redacted
    LongestLine = 50
    MinOcrChars = 12
    LineCap = 3
    MinLineLength = 7
    StoryCap = 109
    Vector = 0
    MaxCaptures = 2
INVARIANTS
    PrivateStaysOut
    TextIsEvidence
    StoryStaysOnSite
PROPERTY ProseIsKept
CHECK_DEADLOCK FALSE
