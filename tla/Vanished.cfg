\* One send; the host of the receiver may vanish after the message has come in.
SPECIFICATION FairSpec

CONSTANTS
    s1 = s1
    s2 = s2
    k1 = k1
    k2 = k2
    e = e
    t1 = t1
    i1 = i1
    i2 = i2
    None = None
    Clients = {s1}
    Keys = {k1, k2}
    Texts = {e, t1}
    Images = {i1, i2}
    EmptyText = e
    Trim <- Identity
    Offers <- OneOffer
    Commands <- OneCommand
    Size <- Sizes
    MaxSize = 48
    Budget <- HostVanishes

CHECK_DEADLOCK FALSE
PROPERTY EverySendReturns
