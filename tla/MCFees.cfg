SPECIFICATION ProtocolSpec
CONSTANTS
    None = None
    Contract = Contract
    sam = sam
    sue = sue
    ray = ray
    rob = rob
    dot = dot
    tia = tia
    usd = usd
    xlm = xlm
    ana = ana
    gil = gil
    gov = gov
    v1 = v1
    I128_MAX = 29999
    U64_MAX = 2
    Users = {sam, ray, tia}
    Tokens = {usd}
    WalletAmounts = {}
    Wallets <- NoFeesYet
    AUDIT_CAP = 1
    MAX_PAUSE_DURATION = 2
    Admins = {ana}
    EmergencySwitch = {}
    Guardians = {}
    Governances = {}
    Versions = {v1}
    NextVersions = {}
    FEE_TIMELOCK = 1
    FeeChoices = {5000}
    ProposedFees = {5000}
    Treasuries = {tia}
    ExemptChoices = {ray}
    CreationFees = {2}
    XlmTokens = {usd}
    DEFAULT_MIN_DURATION = 1
    DEFAULT_MAX_STREAMS = 3
    MinDurations = {}
    MaxStreamChoices = {}
    SenderLimits = {}
    LimitedSenders = {sam}
    Cooldowns = {}
    WhitelistSwitch = {}
    WhitelistChoices = {}
    Senders = {sam}
    Recipients = {ray}
    Operators = {}
    Amounts = {7}
    Durations = {2}
    Cliffs = {0}
    Locks = {0}
    Nonces <- OneNonce
    RenewChoices = {FALSE}
    TerminationChoices = {FALSE}
    CancelAmounts = {}
    TopUps = {}
    Forwards = {0}
    MaxStreams = 1
    PAGE_CAP = 2
    TreasuryAddress = tia
    TreasuryAdmins = {ana, Contract}
    LpPools = {ray}
    Splits = {5000}
    PayoutAmounts = {3}
    Destinations = {sam}
    OutsideDeposits <- AnyAmount
    MaxUnbacked = 3
    BATCH_CAP = 2
    BatchSize = 1
    MaxBatches = 0
    BatchDurations = {}
CHECK_DEADLOCK FALSE
INVARIANTS
    NoCrossSubsidy
    Solvent
    RecordedIsBacked
PROPERTIES
    TreasuryTakesItsShare
    TreasuryPaysRecorded
    FeedsTreasury
