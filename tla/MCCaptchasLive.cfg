\* Liveness: one captcha, two concurrent requests, one crash.
CONSTANTS
    Ids = {i1}
    Handlers = {h1, h2}
    Upkeep = Upkeep
    Free = Free
    NoId = NoId
    ExpiryTime = 1
    MaxCrashes = 1
SPECIFICATION FairSpec
PROPERTIES
    RequestsAnswered
    CaptchasGo
