CONSTANTS
    saveA = saveA
    saveB = saveB
    short = short
    long = long
    None = None
    Torn = Torn
    Names <- MCNames
    Versions <- MCVersions
    Saves <- MCSaves
    Size <- MCSize
    NumClusters = 3
    NumFats = 2
    EntriesPerSector = 4
    DirSlots = 2
    MaxDepth = 1
    MaxCuts = 1
    MaxFaults = 0
    LateFaults = FALSE
    WriteCache = TRUE

SPECIFICATION Spec

INVARIANTS
    NeverTorn
