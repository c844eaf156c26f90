SPECIFICATION FairSpec
CONSTANTS
    a = a
    b = b
    c = c
    d = d
    Images = {a, b, c, d}
    NumPages = 4
    Posts <- FourPages
    Fit = {a, b, d}
    Faces = {a, d}
    Rated = {a, b, d}
    MaxPages = 3
    LowWater = 2
    poolMinSize = 2
INVARIANTS AllFetched NoMatchIsTrue
PROPERTIES InitTagReturns
