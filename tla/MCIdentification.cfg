SPECIFICATION Spec
CONSTANTS
    None = None
    Offered <- MCOffered
    Lower <- MCLower
    Odd = {"a b"}
    DocTokens = 4
    DocValues = 4
    MaxParts = 3
    MaxBytes = 7
    MaxTokens = 8
    MaxValues = 8
    MaxRelationships = 3
    MaxDeclarations = 3
    MaxManifest = 4
INVARIANTS
    InventoryHonest
    FormatsUnambiguous
CHECK_DEADLOCK FALSE
