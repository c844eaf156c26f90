\* Safety: two captchas, two concurrent requests, one crash.
CONSTANTS
    Ids = {i1, i2}
    Handlers = {h1, h2}
    Upkeep = Upkeep
    Free = Free
    NoId = NoId
    ExpiryTime = 1
    MaxCrashes = 1
SPECIFICATION Spec
SYMMETRY Symmetry
INVARIANTS
    AnswersAtMostOnce
    AckedIsDurable
    GradeNotStale
PROPERTIES
    VerdictFinal
    NoEarlyLoss
    ImplementsToken
