SPECIFICATION FairSpec
CONSTANTS
    Threads = {t1, t2}
    BlockSize = 2
    FastSize = 1
    MaxErrors = 1
    e1 = e1
    e2 = e2
    Elements <- MCElements
    Stores <- MCStores
    MaxOps = 2
    MaxRestarts = 1
    UnsafeDeletes = {"extMap", "attributes", "vector"}
 
PROPERTIES   EventuallyReturns
