SPECIFICATION FairSpec
CONSTANTS
    f1 = f1
    f2 = f2
    cirno = cirno
    Cirno = Cirno
    reimu = reimu
    solo = solo
    couple = couple
    hat = hat
    Fetchers = {f1, f2}
    Workers = {w1, w2}
    Capacity = 1
    PageSize = 3
    Pages <- MixedPages
    Requested = cirno
    Solo = solo
    Characters = {cirno, Cirno, reimu}
    Blacklisted = {couple}
    Lower <- Lowered
    Free = free
INVARIANTS EachInOnePlace FilterExact CollectorServed
PROPERTIES ImplementsPromise FetchReturns WorkersExit
