SPECIFICATION Spec
CONSTANTS
    None = None
    Contract = Contract
    sam = sam
    sue = sue
    ray = ray
    rob = rob
    dot = dot
    tia = tia
    usd = usd
    xlm = xlm
    ana = ana
    gil = gil
    gov = gov
    v1 = v1
    I128_MAX = 30
    U64_MAX = 4
    Users = {sam, ray, dot}
    Tokens = {usd}
    WalletAmounts = {}
    Wallets <- Purse9
    AUDIT_CAP = 1
    MAX_PAUSE_DURATION = 2
    Admins = {}
    EmergencySwitch = {}
    Guardians = {}
    Governances = {}
    Versions = {}
    NextVersions = {}
    FEE_TIMELOCK = 2
    FeeChoices = {}
    ProposedFees = {}
    Treasuries = {}
    ExemptChoices = {}
    CreationFees = {}
    XlmTokens = {}
    DEFAULT_MIN_DURATION = 1
    DEFAULT_MAX_STREAMS = 3
    MinDurations = {}
    MaxStreamChoices = {}
    SenderLimits = {}
    LimitedSenders = {sam}
    Cooldowns = {}
    WhitelistSwitch = {}
    WhitelistChoices = {}
    Senders = {sam}
    Recipients = {ray}
    Operators = {}
    Amounts = {6}
    Durations = {3}
    Cliffs = {2}
    Locks = {0}
    Nonces <- OneNonce
    RenewChoices = {FALSE}
    TerminationChoices = {TRUE}
    CancelAmounts = {}
    TopUps = {}
    Forwards = {0}
    MaxStreams = 1
    PAGE_CAP = 2
CHECK_DEADLOCK FALSE
PROPERTIES
    WithdrawPaysAllEarned
