CONSTANTS
    MaxTasks = 5
    MaxPid = 8
    HeapStacks = 3
    Frames = 12
    AppFrames = 2
SPECIFICATION Spec
INVARIANT BlockedOnLiveTask
