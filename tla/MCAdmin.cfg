SPECIFICATION ProxiedSpec
CONSTANTS
    I128_MAX = 10
    U64_MAX = 3
    None = None
    ana = ana
    abe = abe
    gil = gil
    gov = gov
    v1 = v1
    v2 = v2
    h1 = h1
    h2 = h2
    Users = {}
    Contract = Contract
    Tokens = {}
    WalletAmounts = {}
    Wallets <- WalletsMC
    AUDIT_CAP = 2
    MAX_PAUSE_DURATION = 2
    EmergencySwitch = {TRUE, FALSE}
    Admins = {ana}
    Guardians <- GuardiansMC
    Governances <- GovernancesMC
    Versions <- VersionsMC
    NextVersions = {v2}
    ProxyAdmins <- AdminsMC
    ImplHashes = {h1}
    MaxUpgrades = 2
INVARIANTS
    AdminTypeOK
    NoIndefiniteLockout
    VersionFollowsMigrations
PROPERTIES
    AuditLogIsTrail
    PauseLiftedByRight
    NoLostUpgrade
    PauseLapses
