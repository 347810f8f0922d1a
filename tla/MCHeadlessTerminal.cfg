CONSTANTS
    Handles = {j1}
    MaxCalls = 4
    None = None
    MaxLines = 2
    MaxBytes = 4
    MaxStream = 9
    Chunks <- MCChunks
    PollInterval = 2
    SettlePeriod = 3
    Forever = Forever
    Waits = {1, 5, Forever}
    Blank = Blank
    Text = Text
    Screens = {Blank, Text}
    MaxTime = 7
    a = a
    b = b
    Characters = {a, b}
    TabStop = 2
    Cursors <- MCCursors
    MaxEvents = 6
    EmptyRow = EmptyRow
    Rows = {EmptyRow, a, b}
    MaxRows = 4
SPECIFICATION MCTerminalSpec
CHECK_DEADLOCK FALSE
INVARIANTS
    NoJobIsForgotten
    InputIsEntered
    ShortCommandsAreRead
    LossIsReported
    KeepsWhatFits
    SettledMeansQuiet
    SampleIsBounded
    DeliveredOutputIsOver
    LinearIsShown
    LeastIsReported
