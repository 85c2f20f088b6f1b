SPECIFICATION ReadSpec
CONSTANTS
    NoHeader = NoHeader
    Signature = Signature
    OfferedFile <- MCOffered
    MaxEntries = 3
    MaxPart = 2
    MaxTotal = 2
INVARIANT BytesClaimedOnce
CHECK_DEADLOCK FALSE
