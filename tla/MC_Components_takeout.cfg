CONSTANTS
    History <- MCHistory
    TheChat <- MCChat
    People <- MCPeople
    Topics <- MCTopics
    Settings <- MCSettings
    PageSize = 2
    TopicsPage = 2
    RetryMax = 1
    World <- MCWorld
    Dialogs <- MCDialogs
    Default = "main"
    Premium = "prem"
    NoAccount = "none"
    RouteTables <- MCRouteTables
    SpecLists <- MCSpecLists
    AccountLists <- MCAccountLists
    Scopes <- MCScopes
    MinChats = 3
    Preferred = "auto"
    SeqModulus = 3
    MaxFailures = 2
    InboxSize = 1
    MaxUp = 3
    MaxDown = 3
    Items = {"a", "b"}
    SizeOf <- MCSizeOf
    TotalOf <- MCTotalOf
    Align = 2
    Chunk = 4
    ChunkRetries = 1
    AttemptMax = 2
    CacheLimit = 1
    Peers = {"a", "b"}
    Away = {"a"}
    Pooled = TRUE
    MaxVersion = 2
    MaxRestarts = 1
SPECIFICATION MCSpec
INVARIANT AutoTakeoutFallsBack
CHECK_DEADLOCK FALSE
