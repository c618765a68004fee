\* One user copies twice, towards one host, without any fault.
SPECIFICATION FairSpec

CONSTANTS
    a = a
    b = b
    c = c
    k1 = k1
    k2 = k2
    e = e
    i1 = i1
    t1 = t1
    t2 = t2
    t3 = t3
    t4 = t4
    None = None
    Cli = Cli
    Nodes = {a, b}
    Users = {a}
    Keys = {k1}
    Key <- OneKey
    Peers <- OneWay
    Backend <- AllWayland
    Texts = {t1, t2, e}
    Images = {}
    EmptyText = e
    Trim <- NoTrim
    Vocabulary <- TwoTexts
    Oversized = {}
    MaxRetries = 0
    Slots = {1, 2}
    Budget <- TwoCopies

PROPERTY Converges
