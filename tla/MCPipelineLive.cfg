SPECIFICATION FairSpec
CONSTANTS
    a = a
    b = b
    t1 = t1
    t2 = t2
    Hashes = {a, b}
    Tags = {t1, t2}
    Fetchers = {f1, f2}
    Pages <- OneTagOnly
    Unfit <- SomeUnfit
    Faces = {b}
    LowWater = 2
    PostErrors = TRUE
    Free = free
    NoTag = noTag
    NoImage = noImage
PROPERTIES FetchReturns
