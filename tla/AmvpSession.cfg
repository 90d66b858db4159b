SPECIFICATION FairSpec
CONSTANTS
    v1 = v1
    v2 = v2
    v3 = v3
    Sets <- ThreeSets
    Order <- ThreeInOrder
    FailingSets = {v3}
    Commands = {"run", "mod_cert_req", "resume", "get_results", "cancel"}
    CanExpire = TRUE
    MaxCrashes = 2
    MaxFaults = 2
INVARIANTS
    TypeOK
    AnsweredAtMostOnce
    SuccessMeansAnswered
PROPERTIES
    ValidationInOrder
    EventuallyAnswered
