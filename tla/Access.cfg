\* Two calls at a time everywhere: two challenges and two passkeys; two
\* logins, two accounts; one template through every state; two rotations; two
\* sessions that take two approvals, and a bulk call of two rows; one code of the
\* issuer and offers of another; two verifiers, two states, two reviews; two ids,
\* two puts and a backup; three vendors and three rotations; two keys.
SPECIFICATION MCSpec
CONSTANTS
    None = None
    k0 = k0  k1 = k1  k2 = k2  ch1 = ch1  ch2 = ch2
    Slots = {k1, k2}
    PkWallets <- MCWallets
    PkCredentialIds = {1, 2}
    PkChallenges = {ch1, ch2}
    PkTtl = 1
    MaxPkTime = 1
    OidcProviders = {"p", "q"}
    OidcSubjects = {"x"}
    OidcStateIds = {"s", "r"}
    OidcAccountIds = {1, 2}
    StateTtl = 1
    MaxOidcTime = 1
    AdminPrincipals <- MCAdminPrincipals
    Tenants = {"t", "u"}
    TemplateIds = {"m"}
    TemplateContents = {"d", "e"}
    AdminSigners = {"g"}
    RotationIds = {"y", "z"}
    RotationPlans = {"v1", "v2"}
    TrustIds = {"o"}
    MaxTrustTime = 3
    MaxTrustAge = 1
    IssuerAdmins <- MCIssuerAdmins
    LcSessionIds = {"i", "j"}
    LcRequests = {"q1", "q2"}
    MaxBulkRows = 2
    LcCredentials = {"c"}
    LcApprovals = 2
    LcTtl = 1
    MaxLcTime = 1
    VciOrigins = {"h", "o", "l"}
    VciPublic = {"h", "o"}
    VciHome = "h"
    VciCodes = {"c"}
    VciHomeCode = "c"
    VciConfigs = {"age"}
    VciHomeConfigs = {"age"}
    VpOrigins = {"v", "w"}
    VpVerifier = "v"
    VpStates = {1, 2}
    VpSessionIds = {1, 2}
    VpResolvable = {"v"}
    WebFactors = {"f"}
    WebLongFactors = {"f"}
    WebIds = {"a", "b"}
    WebNewIds = {"a"}
    WebVaults <- MCVaults
    MaxUnlocks = 2
    MaxReviews = 2
    VaultIds = {"a", "b"}
    VaultIssuers = {"i", "j"}
    VaultFactors <- MCFactors
    MaxVaultPuts = 2
    MaxBackups = 1
    MaxBackupSequence = 2
    Wallets = {"w", "x"}
    Vendors = {"u", "v", "w"}
    MaxPortTime = 1
    MaxRotations = 3
    SelfSlots = {k1}
    Controllers = {"h", "g"}
    KeyIds = {1, 2}
    ClaimSets = {"c", "d"}
    CredentialIds = {"p"}
    MaxSelfIssued = 2
SYMMETRY MCSymmetry
CHECK_DEADLOCK FALSE
INVARIANTS
    LoginsAreOneTime
    QuietRevocationIsFinal
    DutiesAreSeparated
    BulkRowsAreSessions
    NothingGoesAstray
    EntriesAreAuthentic
    RestoresAreFresh
    ImportIsAllOrNothing
    ControlSurvivesRotation
    VerifiedWasCreated
PROPERTIES
    RotationsAreNotForgotten
