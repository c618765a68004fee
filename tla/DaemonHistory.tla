------------------------------ MODULE DaemonHistory ------------------------------
(***************************************************************************)
(* The daemons with history variables, which record what happened, for     *)
(* properties that relate a state to the steps before it.  They decide     *)
(* nothing, but that polls stop at the bound MaxBroadcasts.                *)
(***************************************************************************)
EXTENDS Daemon

CONSTANT MaxBroadcasts   \* bound on the broadcasts of one host

ASSUME MaxBroadcastsAssumption == MaxBroadcasts \in Nat

VARIABLES
    changes,     \* changes[n]: copies on n, contents stored or written by its
                 \* handlers and starts of its daemon
    broadcasts,  \* broadcasts[n]: calls of broadcast_content
    sends,       \* sender tasks started, for broadcasts and the command line
    stores,      \* contents stored by all handlers
    mine,        \* mine[n]: the last to set the clipboard of n was its user
    minePolled,  \* minePolled[n]: so it was when polled[n] was read
    seen,        \* seen[n]: what the daemon of n could ever read
    copied,      \* copied[n]: what its user has copied
    sent,        \* sent[n]: what the command line tool sent to n with its key
    known        \* known[n]: hashes of what the daemon of n has broadcast or stored
                 \* since it started

history ==
    <<changes, broadcasts, sends, stores, mine, minePolled, seen, copied, sent, known>>
hvars   == <<vars, history>>

HTypeOK ==
    /\ TypeOK
    /\ changes \in [Nodes -> Nat]
    /\ broadcasts \in [Nodes -> Nat]
    /\ sends \in Nat
    /\ stores \in Nat
    /\ mine \in [Nodes -> BOOLEAN]
    /\ minePolled \in [Nodes -> BOOLEAN]
    /\ seen \in [Nodes -> SUBSET Content]
    /\ copied \in [Nodes -> SUBSET Content]
    /\ sent \in [Nodes -> SUBSET Content]
    /\ known \in [Nodes -> SUBSET Hashes]

HInit ==
    /\ Init
    /\ changes = [n \in Nodes |-> 1]
    /\ broadcasts = [n \in Nodes |-> 0]
    /\ sends = 0
    /\ stores = 0
    /\ mine = [n \in Nodes |-> FALSE]
    /\ minePolled = [n \in Nodes |-> FALSE]
    /\ seen = [n \in Nodes |-> {}]
    /\ copied = [n \in Nodes |-> {}]
    /\ sent = [n \in Nodes |-> {}]
    /\ known = [n \in Nodes |-> {}]

Change(n) == changes' = [changes EXCEPT ![n] = @ + 1]

\* The clipboard of n becomes c, set by the user or not.
Sets(n, c, byUser) ==
    /\ mine' = [mine EXCEPT ![n] = byUser]
    /\ seen' = [seen EXCEPT ![n] = @ \cup ({read_content(Backend[n], c)} \ {None})]

Knows(n, c) == known' = [known EXCEPT ![n] = @ \cup {hash_content(c)}]

HPollRead(n) ==
    /\ broadcasts[n] < MaxBroadcasts   \* bound: no poll after that
    /\ PollRead(n)
    /\ minePolled' = [minePolled EXCEPT ![n] = mine[n]]
    /\ UNCHANGED <<changes, broadcasts, sends, stores, mine, seen, copied, sent, known>>

HPollBroadcast(n) ==
    /\ PollBroadcast(n)
    /\ broadcasts' = [broadcasts EXCEPT ![n] = @ + 1]
    /\ sends' = sends + Cardinality(Peers[n])
    /\ Knows(n, polled[n])
    /\ UNCHANGED <<changes, stores, mine, minePolled, seen, copied, sent>>

HHandlerStore(h) ==
    /\ HandlerStore(h)
    /\ Change(h.to)
    /\ stores' = stores + 1
    /\ Knows(h.to, Received(h))
    /\ UNCHANGED <<broadcasts, sends, mine, minePolled, seen, copied, sent>>

HHandlerWrite(h) ==
    /\ HandlerWrite(h)
    /\ Change(h.to)
    /\ Sets(h.to, Received(h), FALSE)
    /\ UNCHANGED <<broadcasts, sends, stores, minePolled, copied, sent, known>>

HCopy(n, c) ==
    /\ Copy(n, c)
    /\ Change(n)
    /\ Sets(n, c, TRUE)
    /\ copied' = [copied EXCEPT ![n] = @ \cup {c}]
    /\ UNCHANGED <<broadcasts, sends, stores, minePolled, sent, known>>

HStart(n) ==
    /\ Start(n)
    /\ Change(n)
    /\ known' = [known EXCEPT ![n] = {}]
    /\ UNCHANGED <<broadcasts, sends, stores, mine, minePolled, seen, copied, sent>>

HCliSend(p, c, k) ==
    /\ CliSend(p, c, k)
    /\ sent' = [sent EXCEPT ![p] = @ \cup IF k = Key[p] THEN {c} ELSE {}]
    /\ sends' = sends + 1
    /\ UNCHANGED <<changes, broadcasts, stores, mine, minePolled, seen, copied, known>>

\* The steps no history variable records.
Unrecorded ==
    \/ \E n \in Nodes : PollUnchanged(n) \/ PollSkip(n) \/ CooldownElapses(n) \/ Crash(n)
    \/ \E j \in jobs : Sending(j)
    \/ \E h \in handlers : Reply(h) \/ Reject(h) \/ Break(h) \/ Silence(h)
                             \/ HandlerWriteFails(h)

HNext ==
    \/ \E n \in Nodes : HPollRead(n) \/ HPollBroadcast(n) \/ HStart(n)
    \/ \E h \in handlers : HHandlerStore(h) \/ HHandlerWrite(h)
    \/ \E n \in Users : \E c \in Vocabulary[Key[n]] : HCopy(n, c)
    \/ \E p \in Nodes, k \in Keys \cup {None} : \E c \in Vocabulary[k] : HCliSend(p, c, k)
    \/ Unrecorded /\ UNCHANGED history

HSpec == HInit /\ [][HNext]_hvars

-----------------------------------------------------------------------------
\* BROADCASTS ARE PAID FOR.  poll_clipboard broadcasts at most once for each
\* copy of the user, content stored, content written and start, however polls
\* and handlers interleave.  What a poll could still broadcast is part of the
\* sum: a content p it has read that differs from the state l, and a readable
\* clipboard r that differs from p or, between polls, from the state.
OneIf(b) == IF b THEN 1 ELSE 0

OwedFor(p, r, l) ==
    IF p = None THEN OneIf(r # None /\ hash_content(r) # l)
    ELSE OneIf(hash_content(p) # l) + OneIf(r # None /\ r # p)

Owed(n) == OwedFor(polled[n], Readable(n), last_content_hash[n])

BroadcastsPaidFor == \A n \in Nodes : broadcasts[n] + Owed(n) <= changes[n]

\* ONE DELIVERY FOR EACH SEND.  A content is stored once for each peer of each
\* broadcast and each command line send; a second time only after a network
\* fault lost the ack of the first (broadcast_content then sends it again).
Orphans == {h \in handlers : h.at # "write" /\ Awaiting(h) = {}}

OneDeliveryPerSend ==
    stores + Cardinality(Orphans) + Cardinality(jobs) <= sends + spent["net"]

\* NOTHING IS DROPPED.  Up to max_retries connections that are lost with an error
\* lose no content between hosts of one key, when no process stops, no connection is
\* lost silently and no host has had a content that is too long for a message: each
\* sender task of a broadcast is still trying, or its content is stored or about to be.
Pending == {h \in handlers : h.at = "store"}

PeersShareKey == \A n \in Nodes : \A p \in Peers[n] : Key[p] = Key[n]

Undamaged ==
    /\ spent["net"] <= MaxRetries
    /\ spent["silent"] = 0 /\ spent["crash"] = 0 /\ spent["send"] = 0

AllFit == \A n \in Nodes : seen[n] \cap Oversized = {}

NothingDropped ==
    PeersShareKey /\ Undamaged /\ AllFit =>
        sends <= stores + Cardinality(Pending) + Cardinality(jobs)

\* ATTEMPTS ONLY ADVANCE.  A sender task keeps its content and key, and each of its
\* steps leaves it fewer steps to go: no slot, fault or answer of an earlier attempt
\* sets it back (the retry loop of broadcast_content).
Same(x, y) == x.from = y.from /\ x.to = y.to /\ x.slot = y.slot

ToGo(j) == 2 * (MaxRetries - j.attempt) + (IF j.at = "connect" THEN 1 ELSE 0)

Advances(i, j) == j.content = i.content /\ j.key = i.key /\ ToGo(j) < ToGo(i)

AttemptsOnlyAdvance ==
    [][\A i \in jobs, j \in jobs' : Same(i, j) /\ i # j => Advances(i, j)]_hvars

\* WHAT A POLL DROPS IS KNOWN.  A clipboard change that poll_clipboard does not
\* broadcast, as unchanged or as received during the cooldown, is a content that
\* this daemon has broadcast or stored since it started.
DropsOnlyKnown ==
    [][\A n \in Nodes :
        PollUnchanged(n) \/ PollSkip(n) => hash_content(polled[n]) \in known[n]]_hvars

\* NO ECHO.  What poll_clipboard broadcasts was put on the clipboard by the
\* user of this host ("Loop prevention: Won't re-broadcast received content",
\* README.md:137).
NoEcho == [][\A n \in Nodes : PollBroadcast(n) => minePolled[n]]_hvars

\* The daemons carry out the abstract network.
Net == INSTANCE ClipboardNet
NetRefinement == Net!NetSpec

\* WHERE CONTENT COMES FROM.  What a clipboard shows was copied by a user, or sent
\* with its key, at a host of any group that no host outside can send to.
ProvenanceHolds == Net!Provenance

-----------------------------------------------------------------------------
(* Under these timing assumptions the loop prevention works: a handler     *)
(* stores and writes while no poll is under way and no other handler does. *)

Undisturbed(n) ==
    /\ polled[n] = None \/ \A h \in handlers : h.to = n => h.at = "read"
    /\ \A g, h \in handlers : g.to = n /\ h.to = n /\ g.at # "read" /\ h.at # "read" => g = h

SerialSpec == HInit /\ [][HNext /\ \A n \in Nodes : Undisturbed(n)']_hvars
=============================================================================
