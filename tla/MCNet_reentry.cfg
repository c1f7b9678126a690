CONSTANTS
    Parts = {"http"}
    Consoles = {left, right}
    NoConsole = NoConsole
    NumChunks = 2
    ATTEMPTS = 2
    MaxMoments = 2
    Clients = {c1, c2}
    Readers = {}
    Pollers = {idle, game_net}
    HeadLen = 1
    BodyLen = 2
    MSS = 3
    REQ_CAP = 3
    NoClient = NoClient
    Hosts = {left, right}
    Servers = {s1, s2}
    PoolSize = 1
    DEADLINE = 2
    RETRY = 1
    SameTick = FALSE
    Peers = {p1, p2, p3}
    GamePeer = p1
    Macs = {m1, m2}
    ARP_CACHE = 2
    Datagrams = {a, b}
    UDP_QUEUE = 2
    WORD = 4
    Nothing = Nothing
SPECIFICATION Safety
INVARIANT FileIsWhole
