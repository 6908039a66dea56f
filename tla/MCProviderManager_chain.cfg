\* A question is answered in one step.
CHECK_DEADLOCK FALSE
SPECIFICATION AllSpec
CONSTANTS
    t1 = t1
    t2 = t2
    Threads = {t1, t2}
    Providers = {"p1", "p2"}
    Types = {"random", "tls"}
    Random = "random"
    DefaultTypes = {"random"}
    Features <- MCFeatures
    Files = {1, 2}
    Offers <- MCOffers
    Direct = {"p1"}
    Skipped = {}
    Config <- MCConfig
    Priorities <- LowPriorities
    UnloadAlone = TRUE
    MaxCalls = 2
    MaxUnloads = 1
    HsFlights = 2
    TellsHello = TRUE
    Listens <- CertificateOnly
    AppCalls = {"convert"}
    MaxSessions = 2
    MaxWrite = 1
    MaxApp = 1
    MaxRare = 1
    MaxChunk = 2
    MinEncoded <- Low
    Certs = {c1, c2, c3}
    Primary = c1
    MaxIssuers = 2
    Subjects <- ShortSubjects
    IssuerInfos <- TwoIssuers
    Usages = {{}, {"ClientAuth"}}
    MaxNamed = 3
    InfoTypes = {"CommonName", "Email", "EmailLegacy"}
    InfoValues = {1, 2}
    MaxInfo = 4
    Bytes = {0, 171}
    Digits <- TextDigits
    Columns = {0, 3, 4}
    MaxLength = 5
    h1 = h1
    h2 = h2
    PrivateKeys = {h1, h2}
    Timeouts <- TwoTimeouts
    Declines = {"decrypt", "access"}
    Midway = FALSE
    MaxTime = 2
    MaxWrong = 1
    MaxMoves = 1
INVARIANT ChainInOrder
