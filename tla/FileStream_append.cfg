SPECIFICATION Spec
CONSTANTS
    WriteChunk = 3
    ReadChunks = {3}
    Starts = {0}
    Limits = {9}
    Block = 2
    MaxBytes = 6
INVARIANTS AppendsAtEnd
