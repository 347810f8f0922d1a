CONSTANTS
    Procs = {p1, p2}
    Writers = {p1}
    MaxFiles = 4
    MaxTempId = 1
    Nobody = Nobody
    HomeProcs = {h1, h2}
    Directories = {d1, d2}
    DotPhi = d1
    UserPhi = d2
    PackedFiles = {f1}
    Configs = {small, large}
    MaxEdits = 2
    None = None
    Default = Default
    NameSettings = {"model"}
    TextSettings = {"system"}
    TypedSettings = {"max_steps"}
    HomeFiles <- MCHomeFiles
    ExplicitFiles <- MCExplicitFiles
    Environments <- MCEnvironments
    CommandArgs <- MCCommandArgs
    CallSettings = {"model"}
    ShellTools <- MCShellTools
    ToolLists <- MCToolLists
    MaxAnswers = 2
SPECIFICATION MCStorageSpec
CHECK_DEADLOCK FALSE
INVARIANTS
    ReadersSeeWholeSessions
    TempsArePrivate
    AcknowledgedSavesLast
    HomesAreWhole
    AnswersRefreshRequests
