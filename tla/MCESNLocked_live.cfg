CONSTANTS
    N = 2
    c1 = c1
    c2 = c2
    b1 = b1
    NoOne = NoOne
    Callers <- MCCallers
    Batches <- MCBatches
    Dims = {2}
    Widths = {2}
    OutDims = {1}
SPECIFICATION FairSpec
PROPERTY CallsReturn
