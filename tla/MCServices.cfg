\* The updater: one relaunch after a crash, a second try of the installation.
\* DNS: two threads with a scope each, two servers, two queries at a time.
\* Artwork: two ids, two slots for covers and one for titles, so that slots change hands.
\* Signals: reconnects, and one frame more than the FIFO takes.
\* Launches: the stamps wrap; a stream begins after any history of the host.
CONSTANTS
    MaxRuns = 2
    MaxInstalls = 2
    Resolvers = {updater, artwork}
    Servers = 2
    WireLimit = 2
    MaxScopes = 2
    QueryBudget = 2
    Pace = 1
    Retry = 1
    Games = {g1, g2}
    Covers = 2
    Titles = 1
    MaxPauses = 2
    SignalLimit = 1
    ChannelLimit = 2
    FifoLimit = 2
    MaxSignals = 3
    MaxSessions = 2
    Width = 8
    FirstStamp = 6
    MaxClock = 3
    MaxLaunches = 1
    MaxFrames = 1
SPECIFICATION ServicesSpec
SYMMETRY Symmetry
INVARIANTS
    TypeOK
    Recoverable
    StopReachesTransfer
    SuccessIsEverywhere
    AnswerUnderWay
    QueueAccounted
    EveryLegStarts
    PictureIsOwn
    SignalsInOrder
    NoWakeUpLost
    CompletionIsReal
CHECK_DEADLOCK FALSE
