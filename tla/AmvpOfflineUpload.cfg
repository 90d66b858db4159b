SPECIFICATION Spec
CONSTANTS
  NumSets = 2
  Kinds = {"download"}
  MaxSessions = 1
  MaxCrashes = 0
  MaxFaults = 0
INVARIANT UploadSuccessMeansSubmitted
