\* A copy, a command line send, and failing connections and clipboard commands; one of
\* the texts is too long for a message.
SPECIFICATION FairSpec

CONSTANTS
    a = a
    b = b
    c = c
    k1 = k1
    k2 = k2
    e = e
    i1 = i1
    t1 = t1
    t2 = t2
    t3 = t3
    t4 = t4
    None = None
    Cli = Cli
    Nodes = {a, b}
    Users = {a}
    Keys = {k1}
    Key <- OneKey
    Peers <- OneWay
    Backend <- AllWayland
    Texts = {t1, t2, e}
    Images = {}
    EmptyText = e
    Trim <- NoTrim
    Vocabulary <- TwoTexts
    Oversized <- LongText
    MaxRetries = 1
    Slots = {1}
    Budget <- SendsAndFaults

\* With nothing on the clipboards and no bound left, every poll fails and nothing changes.
CHECK_DEADLOCK FALSE
INVARIANT TypeOK
PROPERTY EverySendEnds
