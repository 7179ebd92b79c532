SPECIFICATION ProtocolSpec
CONSTANTS
    None = None
    Contract = Contract
    sam = sam
    sue = sue
    ray = ray
    rob = rob
    dot = dot
    tia = tia
    usd = usd
    xlm = xlm
    ana = ana
    gil = gil
    gov = gov
    v1 = v1
    I128_MAX = 30
    U64_MAX = 2
    Users = {sam, ray, tia}
    Tokens = {usd}
    WalletAmounts = {}
    Wallets <- Purse9
    AUDIT_CAP = 1
    MAX_PAUSE_DURATION = 1
    Admins = {ana}
    EmergencySwitch = {}
    Guardians = {gil}
    Governances = {}
    Versions = {v1}
    NextVersions = {}
    FEE_TIMELOCK = 2
    FeeChoices = {}
    ProposedFees = {}
    Treasuries = {}
    ExemptChoices = {}
    CreationFees = {}
    XlmTokens = {}
    DEFAULT_MIN_DURATION = 1
    DEFAULT_MAX_STREAMS = 3
    MinDurations = {}
    MaxStreamChoices = {1}
    SenderLimits = {2}
    LimitedSenders = {sam}
    Cooldowns = {1}
    WhitelistSwitch = {TRUE}
    WhitelistChoices = {ray}
    Senders = {sam}
    Recipients = {ray}
    Operators = {}
    Amounts = {4}
    Durations = {2}
    Cliffs = {0}
    Locks = {0}
    Nonces <- OneNonce
    RenewChoices = {FALSE}
    TerminationChoices = {TRUE}
    CancelAmounts = {}
    TopUps = {}
    Forwards = {0}
    MaxStreams = 2
    PAGE_CAP = 2
    TreasuryAddress = tia
    TreasuryAdmins = {}
    LpPools = {}
    Splits = {}
    PayoutAmounts = {}
    Destinations = {}
    OutsideDeposits = {}
    MaxUnbacked = 0
    BATCH_CAP = 2
    BatchSize = 2
    MaxBatches = 1
    BatchDurations = {1}
CHECK_DEADLOCK FALSE
PROPERTIES
    PauseFreezesStreams
    CreatedWithinLimit
