SPECIFICATION ServerSpec
CONSTANTS
    t1 = t1
    t2 = t2
    t3 = t3
    Tags = {t1, t2, t3}
    Callers = {c1}
    Capacity = 1
    None = none
    Processes = {self, other}
    Self = self
    First = 1
    TagLists <- Lists
    Row <- Rows
INVARIANT StartFailsForFirstTagsOnly
