SPECIFICATION Spec
CONSTANTS
    Threads = {t1, t2}
    BlockSize = 2
    FastSize = 1
    MaxErrors = 0
    e1 = e1
    e2 = e2
    Elements <- MCElements
    Stores <- MCFull
    MaxOps = 2
    MaxRestarts = 0
    UnsafeDeletes = {}
INVARIANT InsertedReadable
