CONSTANTS
    N = 2
    t1 = t1
    t2 = t2
    tr = tr
    b1 = b1
    Threads <- MCThreads
    Trainer = tr
    Callers <- MCCallers
    Batches <- MCBatches
    Dims = {10}
    Widths = {2}
    OutDims = {1}
    FeatLen = 10
    MaxMsgs = 3
    StepsPerMsg = 3
SPECIFICATION Spec
INVARIANTS CountsEveryMessage
