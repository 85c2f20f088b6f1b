SPECIFICATION Spec
CONSTANTS
    None = None
    Offered <- MCOffered
    Folded <- MCFolded
    Unportable = {"a?"}
    Reserved = {"CON"}
    MaxSources = 3
    MaxNodes = 26
    MaxPath = 5
    MaxTotal = 7
INVARIANT PlansApart
CHECK_DEADLOCK FALSE
