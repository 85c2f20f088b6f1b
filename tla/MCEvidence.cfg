SPECIFICATION NativeSpec
CONSTANTS
    None = None
    Blob = Blob
    Offered <- MCOffered
    Observations <- MCObservations
    MaxExtent = 3
    MaxSpans = 2
    MaxScalars = 3
INVARIANTS
    AccountedOnce
    OccurrencesAnalyzed
    NativeAccepted
CHECK_DEADLOCK FALSE
