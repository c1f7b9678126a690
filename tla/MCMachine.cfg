CONSTANTS
    Parts = {"filter", "pads", "keys", "uhci", "xhci", "heap", "spaces", "attract", "picker", "scores"}
    COOLDOWN = 2
    Careless = FALSE
    Pads = {a, b, c}
    NoPad = NoPad
    Codes = {up, enter}
    Arrows = {up}
    UsbBoards = {u1}
    NoReport = NoReport
    FIFO = 2
    Mixing = FALSE
    MaxPads = 1
    XFER_RING_TRBS = 3
    EVT_RING_TRBS = 1
    Errors = TRUE
    HEAP_TOTAL = 30
    HEADER_SIZE = 3
    BLOCK_ALIGN = 2
    Requests = {1, 4, 7}
    Loaders = {l1, l2}
    Frames = {0, 1, 2, 3, 4, 5, 6, 7, 8, 9, 10, 11, 12, 13, 14, 15}
    Reserved = {2}
    AppPages = {0, 2}
    TextPages = {0}
    MAX_LOADS = 2
    Games = {pong}
    Launcher = Launcher
    Presses = {NoPress, press}
    NoPress = NoPress
    NoSession = NoSession
    DEMO_FRAMES = 2
    DEMO_MIN = 2
    MaxPresents = 2
    UserNames = {u, v}
    MAX_USERS = 2
    GUEST = GUEST
    Nobody = Nobody
    Keys = {k1, k2, k3}
    HISCORE_MAX = 2
    MAX_SCORE = 2
SPECIFICATION MachineSpec
INVARIANTS
    MachineTypeOK
    
    MenuKeepsItsPresses
    SeatsAreFilled
    
    PipeIsArmed
    HeapIsSound
    SpacesAreDisjoint
    
    SessionIsAsPicked
    BoardKeepsTheBest
PROPERTIES
    PadIsHeard
