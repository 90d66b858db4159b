SPECIFICATION FairSpec
CONSTANTS
    N = 4
    Url <- Urls
    Alg <- SomeAlgs
    Mode <- SomeModes
    NoUrl = "none"
    NoMode = "none"
    Prefixes <- SomePrefixes
    Verbose = TRUE
    AMVP_RETRY_TIME = 6
    MaxFaults = 2
    AMVP_RETRY_TIME_MIN = 5
    AMVP_RETRY_TIME_MAX = 10
    AMVP_MAX_WAIT_TIME = 20
    AMVP_RETRY_MODIFIER_MAX = 10
    UINT_MOD = 65536
INVARIANTS
    TypeOK
    VerdictIsFinal
    DownloadedOnce
    FailedAlgorithmsListed
PROPERTY CheckReturns
