SPECIFICATION Spec
CONSTANTS
    root = root
    src = src
    inner = inner
    home = home
    nested = nested
    deep = deep
    none = none
    Dirs <- MCDirs
    Names <- MCNames
    Nothing = none
    Top = root
    Links <- MCLinks
    Standing <- MCStanding
    Worlds <- MCWorlds
    SourcePath <- MCSourcePath
    OutputDirs <- MCOutputDirs
    OutputName = "r"
    MaxChanges = 1
    Requests <- MCRequests
    MaxEntries = 2
    Budgets = {2, 4}
    MaxFaults = 2
INVARIANTS
    LowExitDelivered
    NothingHalfStands
    ManifestMeansBundle
    OutputOutsideSource
CHECK_DEADLOCK FALSE
