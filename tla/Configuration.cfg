\* Command lines of up to two flags, every form an image vector entry can have, two
\* releases that may fail anywhere.
SPECIFICATION Spec
CONSTANTS
    Values <- MCValues
    NoConfig = NoConfig
    NoWebhook = NoWebhook
    MaxFlags = 2
    Repositories <- MCRepositories
    Tags <- MCTags
    Digest <- MCDigest
    Nil = Nil
    Invalid = Invalid
    Builds <- MCBuilds
    Digests <- MCDigests
    MaxJobs = 2
    Symbols <- MCSymbols
    Alphanumeric <- MCAlphanumeric
INVARIANTS
    NeverServesUnchecked
    ServesCommandLine
    VersionIsName
    VersionIsTag
    DigestFallsBack
    ChartsResolve
    DeployedReadsTag
    AdmissionBehindController
PROPERTIES
    DevReplacesDev
CHECK_DEADLOCK FALSE
