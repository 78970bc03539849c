SPECIFICATION LiveSpec
CONSTANTS
    Text = Text
    Nothing = Nothing
    Typed <- MCTyped
    Today <- MCToday
    Amounts = {5}
    Together = 2
    MaxUnread = 1
    MaxAdrift = 1
    Mishaps = {"lost", "missing", "exit", "left", "killed", "empty", "unsaved", "halfway"}
CHECK_DEADLOCK FALSE
INVARIANT
    TypeOK
    InStep
    FiledIsTrue
    
    NeverThrows

    
    
