SPECIFICATION Spec
CONSTANTS
  Handlers <- AllHandlers
  MaxGroups = 2
  MaxTests = 2
  MctRounds = 2
INVARIANTS NothingStale ConversionsHaveBuffers NothingLeaked SuccessMeansAnswered
  AnswersAreComputed
PROPERTY Terminates
