SPECIFICATION PlatformSpec
CONSTANTS
    Requests <- AnyLoan
    Slots = {s1, s2}
    MaxShocks = 1
    BookInvestors = {v1, v2}
    MaxInvestments = 3
    Principals = {1, 2}
    TotalsPage = 2
    MaxChanges = 4
    MaxTokens = 3
    TokenRequests = 3
    MaxAttempts = 2
    MaxCodes = 2
    CodeRequests = 5
    Emails = {"a"}
    MaxAccounts = 3
    UserRequests = 5
    Readers = {"i1", "i2"}
    MaxDocuments = 2
    MaxFiles = 2
    DocumentRequests = 4
    MaxTerm = 3
    StatementPage = 2
    StatementRequests = 4
    Keys = {1, 2}
    AtStart = 2
    MaxListWrites = 2
    Asked = {1, 9}
    ListPage = 2
    Years = {2024, 2028, 2038}
INVARIANTS
    PlatformTypeOK
    PrincipalConserved
    InstalmentsLevel
    BalloonLeftForTheEnd
    TailReproducesSchedule
    TotalsFresh
    TotalsCatchUp
    SessionsKept
    SessionsEnded
    RecoveryRules
    AccountsConsistent
    LibraryConsistent
    StatementsSound
    WalkFaithful
    DueDatesSound
SYMMETRY Swaps
CHECK_DEADLOCK FALSE
