SPECIFICATION ShrinkingSpec
CONSTANTS
    a = a
    b = b
    c = c
    d = d
    Images = {a}
    NumPages = 4
    Posts <- FourPages
    Fit = {a, b, d}
    Faces = {a, d}
    Rated = {a, b, d}
    MaxPages = 3
    LowWater = 2
    poolMinSize = 2
PROPERTY InitTagReturns
