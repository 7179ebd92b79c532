SPECIFICATION Spec
CONSTANTS
    None = None
    Contract = Contract
    sam = sam
    sue = sue
    ray = ray
    rob = rob
    dot = dot
    tia = tia
    usd = usd
    xlm = xlm
    ana = ana
    gil = gil
    gov = gov
    v1 = v1
    I128_MAX = 30
    U64_MAX = 2
    Users = {sam, ray, rob}
    Tokens = {usd}
    WalletAmounts = {}
    Wallets <- Purse12
    AUDIT_CAP = 1
    MAX_PAUSE_DURATION = 2
    Admins = {}
    EmergencySwitch = {}
    Guardians = {}
    Governances = {}
    Versions = {}
    NextVersions = {}
    FEE_TIMELOCK = 2
    FeeChoices = {}
    ProposedFees = {}
    Treasuries = {}
    ExemptChoices = {}
    CreationFees = {}
    XlmTokens = {}
    DEFAULT_MIN_DURATION = 1
    DEFAULT_MAX_STREAMS = 2
    MinDurations = {}
    MaxStreamChoices = {}
    SenderLimits = {}
    LimitedSenders = {sam}
    Cooldowns = {}
    WhitelistSwitch = {}
    WhitelistChoices = {}
    Senders = {sam}
    Recipients = {ray, rob}
    Operators = {}
    Amounts = {5}
    Durations = {2}
    Cliffs = {0}
    Locks = {0}
    Nonces <- TwoNonces
    RenewChoices = {FALSE}
    TerminationChoices = {FALSE}
    CancelAmounts = {2}
    TopUps = {}
    Forwards = {0}
    MaxStreams = 3
    PAGE_CAP = 2
SYMMETRY RecipientSymmetry
CHECK_DEADLOCK FALSE
INVARIANTS
    Solvent
    IndexAgrees
    StatsExact
    PagesCoverStreams
PROPERTIES
    StoredWithinLimit
    GlobalPagesSteady
    StreamsAreSeparate
