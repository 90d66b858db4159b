SPECIFICATION Spec
CONSTANTS
  NumSets = 2
  Kinds = {"download", "cert_req"}
  MaxSessions = 2
  MaxCrashes = 1
  MaxFaults = 1
INVARIANTS FilesAreWhole SuccessMeansSaved
PROPERTIES AnswersReachTheirSets UploadValidatesOnlyAnswered EventuallyDownloaded
