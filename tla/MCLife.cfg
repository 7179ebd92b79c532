SPECIFICATION Spec
CONSTANTS
    None = None
    Contract = Contract
    sam = sam
    sue = sue
    ray = ray
    rob = rob
    dot = dot
    tia = tia
    usd = usd
    xlm = xlm
    ana = ana
    gil = gil
    gov = gov
    v1 = v1
    I128_MAX = 50000
    U64_MAX = 5
    Users = {sam, ray}
    Tokens = {usd}
    WalletAmounts = {9}
    Wallets <- Purse9
    AUDIT_CAP = 1
    MAX_PAUSE_DURATION = 2
    Admins = {ana}
    EmergencySwitch = {}
    Guardians = {}
    Governances = {}
    Versions = {v1}
    NextVersions = {}
    FEE_TIMELOCK = 2
    FeeChoices = {5000}
    ProposedFees = {}
    Treasuries = {}
    ExemptChoices = {}
    CreationFees = {}
    XlmTokens = {}
    DEFAULT_MIN_DURATION = 1
    DEFAULT_MAX_STREAMS = 3
    MinDurations = {3}
    MaxStreamChoices = {}
    SenderLimits = {}
    LimitedSenders = {sam}
    Cooldowns = {}
    WhitelistSwitch = {}
    WhitelistChoices = {}
    Senders = {sam}
    Recipients = {ray}
    Operators = {ray}
    Amounts = {5}
    Durations = {2, 3}
    Cliffs = {0, 2}
    Locks = {1}
    Nonces <- OneNonce
    RenewChoices = {TRUE, FALSE}
    TerminationChoices = {TRUE}
    CancelAmounts = {}
    TopUps = {3}
    Forwards = {0, 2}
    MaxStreams = 1
    PAGE_CAP = 2
CHECK_DEADLOCK FALSE
INVARIANTS
    TypeOK
    VestingWithinDeposit
    NoCrossSubsidy
PROPERTIES
    CancelReturnsEverything
    SenderCannotTakeEarned
    PauseOnlyDelays
    QuotedIsPaid
