SPECIFICATION Spec
CONSTANTS
    MaxLines = 3
    LineLen = 4
    UndoSize = 2
    ViewHeight = 2
    Chars = {"a", "b"}
    Files <- SmallFiles
    Clips <- Leftovers
    MaxKeys = 6
INVARIANTS
    StaysInText
    ScreenShowsText
    SavedIsOpened

    
CHECK_DEADLOCK FALSE
