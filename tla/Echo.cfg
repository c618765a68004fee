\* Handlers and polls that overlap: received content is broadcast.
SPECIFICATION HSpec

CONSTANTS
    a = a
    b = b
    c = c
    k1 = k1
    k2 = k2
    e = e
    i1 = i1
    t1 = t1
    t2 = t2
    t3 = t3
    t4 = t4
    None = None
    Cli = Cli
    Nodes = {a, b}
    Users = {a, b}
    Keys = {k1}
    Key <- OneKey
    Peers <- OtherPeers
    Backend <- AllWayland
    Texts = {t1, t2, e}
    Images = {}
    EmptyText = e
    Trim <- NoTrim
    Vocabulary <- TwoTexts
    Oversized = {}
    MaxRetries = 0
    Slots = {1, 2}
    Budget <- TwoCopies
    MaxBroadcasts = 2

\* The bound on broadcasts stops the polls, and a network without a copy rests.
CHECK_DEADLOCK FALSE
PROPERTY NoEcho
