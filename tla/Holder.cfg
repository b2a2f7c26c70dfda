\* Two calls at a time.  Three guardians, two needed, three proposals; one operation in
\* its forms, with gas left out or not, through the adapter, and two polls.  Two
\* audiences and challenges; one status list and one url outside the policy; two
\* deployments on two chains; offline snapshots up to sequence 2.
SPECIFICATION MCSpec
CONSTANTS
    None = None
    k1 = k1  k2 = k2
    Slots = {k1, k2}
    Signers = {"n1", "n2"}
    Guardians = {"g1", "g2", "g3"}
    Threshold = 2
    TimelockBlocks = 1
    MaxBlock = 2
    MaxProposals = 3
    Manifests <- MCManifests
    PinnedModules <- MCPinned
    Calls = {"c1"}
    Gas = {0, 1}
    ReceiptPolls = 2
    Audiences = {"a", "b"}
    ChallengeValues = {"x", "y"}
    StatusUrls = {"u"}
    BlockedUrls = {"private"}
    ChallengeTtl = 1
    Skew = 1
    MaxAge = 1
    MaxDomainTime = 2
    ChainIds = {1, 2}
    Deployments = {"c", "d"}
    ChainOf <- MCChainOf
    Subjects = {"s"}
    AttNonces = {"n", "m"}
    Attestors = {"t"}
    AttestorVersions = {"v1", "v2"}
    MaxAttTime = 1
    MaxAttTtl = 2
    MaxAttestations = 2
    ScanTokens = {"p", "q"}
    GateInputs = {"p", "q", "r", "s"}
    GateEntries = 2
    MaxTokenIssues = 2
    MaxScanTime = 1
    EnvelopeIds = {"e"}
    EnvelopeNonces = {"n1", "n2"}
    SnapshotContents <- MCContents
    SnapshotIds = {1, 2}
    MaxSequence = 2
    OfflineLifetime = 1
    MaxOfflineTime = 1
INVARIANTS
    SendsAreSimulated
    ChallengesHaveOneFate
    RevocationTakesHold
    AttestationsGrantOnce
    ScansAreOneTime
    OfflineVerdictsHold
PROPERTIES
    RotationIsEarned
    AnsweredIsNotResent
    SubmissionEnds
    LookupsEnd
CHECK_DEADLOCK FALSE
