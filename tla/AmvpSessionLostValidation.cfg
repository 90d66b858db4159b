SPECIFICATION FairSpec
CONSTANTS
    v1 = v1
    v2 = v2
    v3 = v3
    Sets <- TwoSets
    Order <- TwoInOrder
    FailingSets = {}
    Commands = {"run", "resume"}
    CanExpire = FALSE
    MaxCrashes = 1
    MaxFaults = 1
PROPERTY EventuallyValidated
