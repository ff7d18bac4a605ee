SPECIFICATION HttpScanSpec
CONSTANTS
    Sessions <- MCSessions
    MaxHdr = 11
    MaxRaw = 1
INVARIANTS
    HeadersFound
    StoreBounded
\* The connection ends.
CHECK_DEADLOCK FALSE
