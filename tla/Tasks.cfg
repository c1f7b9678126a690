CONSTANTS
    MaxTasks = 5
    MaxPid = 8
    HeapStacks = 3
    Frames = 12
    AppFrames = 2
SPECIFICATION FairSpec
INVARIANTS
    TypeOK
    WaitReturnsAfterExit
    OneGame
    CpuRunsRunningTask
    
    AddressSpaces
PROPERTIES
    DeadStaysDead
    NoStarvation
