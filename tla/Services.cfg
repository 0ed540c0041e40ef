SPECIFICATION ServicesSpec
CONSTANTS
    Entity = {e1, e2, e3}
    Fields = {f, g}
    Versions = {1, 2}
    Fetched = {e1}
    Threads = {t1, t2}
    NoThread = none
    Gets = {"g1", "g2"}
    IgnoreSsl = FALSE
    ReplyTimeouts = {1, 4}
    SlowTimeout = 2
    CheckTimeout = 3
    LastReplyTime = 6
    Credentials = {"good", "bad"}
    MethodNames <- MCNames
    Paths <- MCPaths
    Bases <- MCBases
    Status <- MCStatus
    Keys = {"k"}
    Values = {1, 2}
    Null = 0
    Migrations = {1, 2, 3, 4}
    VersionOf <- MCVersionOf
    OfApp = {1, 2, 4}
    MovesTo <- MCMovesTo
    Releases = {1, 2, 3}
    Initializers = {"i1", "i2"}
    Languages = {"en", "de"}
    Messages = {"m1", "m2", "m3"}
    Packs = {"p"}
    NoPack = "none"
    PackOf <- MCPackOf
    Warnings = {}
    Registrars = {"r1", "r2", "r3"}
    HandlerOf <- MCHandlerOf
    SamePackTimeout = 2
    KeepTime = 1
    LastNotice = 2
    Mails <- MCMails
    UserNames = {"u1", "u2"}
    Passwords = {"p1", "p2"}
    ToUser <- MCToUser
    Queues = {"q1", "q2"}
    NoQueue = "none"
    MaxMessages = 2
    MaxConsumers = 2
    Exchanges = {"x1", "x2"}
    NoExchange = "none"
    Callers = {"owner", "caller"}
    Owner = "owner"
    MaxPublish = 2
    Pieces = 3
    LogNames = {"app"}
    Archivers = {a1, a2}
    LastDay = 3
    MaxLines = 2
    DottedNames = {"my.app"}
    OtherNames = {"app", "my.app"}
    OtherArchivers = {"a1"}
    OtherLastDay = 2
    OtherMaxLines = 1
    NoName = ""
CHECK_DEADLOCK FALSE
INVARIANTS
    RepliesAreTimedAndTold
    RequestsAreAnswered
    SettingsAgree
    MigrationsAreRun
    ErrorsAreNotified
    MailsAreSent
    MessagesAreExact
    DownloadsAreExact
    LinesAreKept
PROPERTIES
    ImplementsAtomicUpdates
