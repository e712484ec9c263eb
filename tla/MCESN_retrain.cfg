CONSTANTS
    N = 2
    c1 = c1
    b1 = b1
    b2 = b2
    Callers <- MCCallers
    Batches <- MCBatches
    Dims = {2}
    Widths = {2}
    OutDims = {1}
SPECIFICATION ESNSpec
PROPERTY RetrainResumes
