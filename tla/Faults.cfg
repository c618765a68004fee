\* Three hosts with two keys; a connection lost with an error, one lost silently, a
\* crash and a command line send, in any order with a copy: an image, a text, or a
\* text that is too long for a message.
SPECIFICATION HSpec

CONSTANTS
    a = a
    b = b
    c = c
    k1 = k1
    k2 = k2
    e = e
    i1 = i1
    t1 = t1
    t2 = t2
    t3 = t3
    t4 = t4
    None = None
    Cli = Cli
    Nodes = {a, b, c}
    Users = {a}
    Keys = {k1, k2}
    Key <- MixedKey
    Peers <- MixedPeers
    Backend <- MixedBackend
    Texts = {t1, t2, t3, t4, e}
    Images = {i1}
    EmptyText = e
    Trim <- NoTrim
    Vocabulary <- MixedWords
    Oversized <- LongText
    MaxRetries = 1
    Slots = {1}
    Budget <- EachFaultOnce
    MaxBroadcasts = 2

\* The bound on broadcasts stops the polls, and a network without a copy rests.
CHECK_DEADLOCK FALSE
INVARIANT HTypeOK
INVARIANT KeyIsolation
INVARIANT BroadcastsPaidFor
INVARIANT OneDeliveryPerSend
INVARIANT ProvenanceHolds
PROPERTY NetRefinement
PROPERTY DropsOnlyKnown
PROPERTY AttemptsOnlyAdvance
