SPECIFICATION Spec
CONSTANTS
    a = a
    b = b
    t1 = t1
    t2 = t2
    Hashes = {a, b}
    Tags = {t1, t2}
    Fetchers = {f1, f2}
    Pages <- SharedPages
    Unfit <- NoneUnfit
    Faces = {a}
    LowWater = 2
    PostErrors = FALSE
    Free = free
    NoTag = noTag
    NoImage = noImage
PROPERTY NotFetchedAgain
