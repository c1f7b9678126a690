CONSTANTS
    Games = {pong}
    Launcher = Launcher
    Presses = {NoPress, press}
    NoPress = NoPress
    NoSession = NoSession
    DEMO_FRAMES = 3
    DEMO_MIN = 2
    MaxPresents = 3
INIT AttractInit
NEXT AttractNext
INVARIANT AnyButtonEndsIt
