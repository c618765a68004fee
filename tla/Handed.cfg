\* Two sends towards a host where three commands are run, one fault of each kind.
SPECIFICATION FairSpec

CONSTANTS
    s1 = s1
    s2 = s2
    k1 = k1
    k2 = k2
    e = e
    t1 = t1
    i1 = i1
    i2 = i2
    None = None
    Clients = {s1, s2}
    Keys = {k1, k2}
    Texts = {e, t1}
    Images = {i1, i2}
    EmptyText = e
    Trim <- Identity
    Offers <- TwoOffers
    Commands <- AllCommands
    Size <- Sizes
    MaxSize = 48
    Budget <- EachFaultOnce

\* Commands end, and with the bounds used up no other one is run.
CHECK_DEADLOCK FALSE
INVARIANT TTypeOK
INVARIANT AckedIsHandled
INVARIANT KeyOpens
INVARIANT NobodyIsForgotten
PROPERTY HandoverImplemented
PROPERTY SendsReturn
PROPERTY ReceiveEnds
