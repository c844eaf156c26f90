SPECIFICATION Spec
CONSTANTS
    a = a
    b = b
    c = c
    d = d
    e = e
    f = f
    t1 = t1
    t2 = t2
    Images = {a, b, c, d, e, f}
    Tags = {t1, t2}
    Tagged <- Overlapping
    Blank = blank
    Size = 5
    poolMinSize = 3
    minCount = 3
INVARIANTS TypeOK SolutionExact CellsDiffer GradedAsAsked
