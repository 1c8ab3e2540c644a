INIT Init
NEXT Next
CONSTANTS
    Days = {0}
    Micros = 10
    Digits = 1
    Scale = 1
    MaxRaw = 10
    Bits = 1
    Wrap = 64
INVARIANT BlobRoundTrip
