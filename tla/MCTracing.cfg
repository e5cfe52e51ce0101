SPECIFICATION TraceSpec
CONSTANTS
    N = 5
    Rows = 3
    Lines <- AllTexts
    Blank = Blank
    MaxLines = 14
    Widths = {1, 4}
    MaxLen = 5
    MaxCalls = 6
    GuessLen = 3
    Limit = 6
    TraceSize = 2
    MaxWorks = 2
    MaxLong = 1
INVARIANTS
    ShowsLast
    NothingLost
    LinesFill
PROPERTY WorkDone
\* The bounds end the run; and a NULL mail stops it.
CHECK_DEADLOCK FALSE
