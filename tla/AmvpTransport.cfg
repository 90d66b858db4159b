SPECIFICATION FairSpec
CONSTANT MaxTokens = 3
INVARIANTS
    TypeOK
    RefreshIsBounded
    TokenIsCurrent
PROPERTIES
    ImplementsCall
    CallReturns
