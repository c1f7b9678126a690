CONSTANTS
    saveA = saveA
    saveB = saveB
    short = short
    long = long
    None = None
    Torn = Torn
    Names <- MCNames
    Versions <- MCVersions
    Saves <- MCSaves
    Size <- MCSize
    NumClusters = 4
    NumFats = 2
    EntriesPerSector = 4
    DirSlots = 2
    MaxDepth = 2
    MaxCuts = 0
    MaxFaults = 0
    LateFaults = FALSE
    WriteCache = FALSE

SPECIFICATION Spec

INVARIANTS
    SuccessIsWhole
