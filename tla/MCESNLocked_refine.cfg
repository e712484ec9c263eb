CONSTANTS
    N = 2
    c1 = c1
    c2 = c2
    b1 = b1
    NoOne = NoOne
    Callers <- MCCallers
    Batches <- MCBatches
    Dims = {1, 2}
    Widths = {1, 2}
    OutDims = {1}
SPECIFICATION Spec
PROPERTIES ImplementsAtomic ReadersSeeNoWrite
\* A Predict on a matrix narrower than the state panics and ends the
\* process (esn.go:479): after that nothing runs.
CHECK_DEADLOCK FALSE
