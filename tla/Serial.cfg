\* Handlers that nothing disturbs: the loop prevention holds.  A network fault of which
\* there is a retry loses nothing that fits into a message.
SPECIFICATION SerialSpec

CONSTANTS
    a = a
    b = b
    c = c
    k1 = k1
    k2 = k2
    e = e
    i1 = i1
    t1 = t1
    t2 = t2
    t3 = t3
    t4 = t4
    None = None
    Cli = Cli
    Nodes = {a, b}
    Users = {a, b}
    Keys = {k1}
    Key <- OneKey
    Peers <- OtherPeers
    Backend <- AllWayland
    Texts = {t1, t2, t3, e}
    Images = {}
    EmptyText = e
    Trim <- NoTrim
    Vocabulary <- ThreeTexts
    Oversized <- LongText
    MaxRetries = 1
    Slots = {1, 2}
    Budget <- CopiesAndSend
    MaxBroadcasts = 2

\* The bound on broadcasts stops the polls, and a network without a copy rests.
CHECK_DEADLOCK FALSE
INVARIANT NothingDropped
PROPERTY NoEcho
