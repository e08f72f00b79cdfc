SPECIFICATION Spec
CONSTANTS
    Width = 7
    Height = 3
    MaxInput = 8
    HistorySize = 2
    Pad = 4
    Chars = {"a", "/", " "}
    Prompts <- SmallPrompts
    Commands <- SmallCommands
    ClearName <- ClearIt
    EditName <- EditIt
    Unknown <- NoSuch
    MaxKeys = 9
INVARIANTS
    InputIsShown
PROPERTIES
    RecallsInOrder
CHECK_DEADLOCK FALSE
