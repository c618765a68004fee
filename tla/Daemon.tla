--------------------------------- MODULE Daemon ---------------------------------
(***************************************************************************)
(* The daemons of a network (cb-core/src/daemon.rs) with the sending side  *)
(* they use (cb-core/src/sync.rs send_internal).                           *)
(*                                                                         *)
(* A daemon has three kinds of tasks that share DaemonState and the        *)
(* clipboard: the main loop, which polls the clipboard and accepts         *)
(* connections, one at a time; a sender task for each peer of each         *)
(* broadcast (`jobs'); and a handler task for each accepted connection     *)
(* (`handlers').  One action is one step between two points where another  *)
(* task may run.                                                           *)
(***************************************************************************)
EXTENDS Protocol, Integers, FiniteSets

CONSTANTS
    Nodes,       \* the hosts that run a daemon
    Cli,         \* a host that runs `cb-sync send' against a daemon
    Peers,       \* Peers[n]: the resolved daemon.peers of n; n may be in it
    Key,         \* Key[n]: the key of the daemon of n
    Backend,     \* Backend[n]: the clipboard backend of n
    Vocabulary,  \* Vocabulary[k]: what users of key k (None: no key) copy or send
    Users,       \* the hosts whose user copies
    Oversized,   \* contents whose sealed line is longer than MAX_MESSAGE_SIZE
    MaxRetries,  \* daemon.max_retries
    Slots,       \* bound: broadcasts of one host in flight
    Budget       \* bounds: what users do, faults of the network, failing writes, crashes

\* "net": a connection lost with an error; "silent": lost without one.
BudgetKinds == {"copy", "send", "net", "silent", "write", "crash"}
Senders     == Nodes \cup {Cli}

ASSUME DaemonAssumption ==
    /\ Cli \notin Nodes
    /\ Users \subseteq Nodes
    /\ Peers \in [Nodes -> SUBSET Nodes]
    /\ \A n \in Nodes : IsFiniteSet(Peers[n])
    /\ Key \in [Nodes -> Keys]
    /\ Backend \in [Nodes -> Backends]
    /\ Oversized \subseteq Content
    /\ MaxRetries \in Nat
    /\ Slots \subseteq Nat
    /\ Budget \in [BudgetKinds -> Nat]

\* What the users of a key handle stays theirs when a backend reads it back.
ASSUME VocabularyAssumption ==
    /\ Vocabulary \in [Keys \cup {None} -> SUBSET Content]
    /\ \A k \in Keys, b \in Backends : \A c \in Vocabulary[k] :
            read_content(b, c) \in Vocabulary[k] \cup {None}

VARIABLES
    up,                  \* up[n]: the daemon of n runs
    clip,                \* clip[n]: the selection of the desktop of n
    last_content_hash,   \* DaemonState
    last_received_hash,  \* DaemonState
    cooling,             \* last_received_time is Some and its elapsed < cooldown
    polled,              \* what poll_clipboard has read and not yet compared
    jobs,                \* sender tasks that can still take a step
    handlers,            \* handle_connection tasks
    spent                \* how much of Budget is used

state == <<last_content_hash, last_received_hash, cooling>>
vars  == <<up, clip, state, polled, jobs, handlers, spent>>

Job == [from : Senders, to : Nodes, slot : Slots, attempt : 0 .. MaxRetries,
        content : Content, key : Keys \cup {None}, at : {"connect", "ack"}]

Handler == [from : Senders, to : Nodes, slot : Slots, attempt : 0 .. MaxRetries,
            msg : {Wire(c, k) : c \in Content, k \in Keys \cup {None}},
            at : {"read", "store", "write"}]

TypeOK ==
    /\ up \in [Nodes -> BOOLEAN]
    /\ clip \in [Nodes -> Selection]
    /\ last_content_hash \in [Nodes -> Hashes \cup {None}]
    /\ last_received_hash \in [Nodes -> Hashes \cup {None}]
    /\ cooling \in [Nodes -> BOOLEAN]
    /\ polled \in [Nodes -> Selection]
    /\ jobs \subseteq Job
    /\ handlers \subseteq Handler
    /\ spent \in [BudgetKinds -> Nat]

Init ==
    /\ up = [n \in Nodes |-> TRUE]
    /\ clip = [n \in Nodes |-> None]
    /\ last_content_hash = [n \in Nodes |-> None]
    /\ last_received_hash = [n \in Nodes |-> None]
    /\ cooling = [n \in Nodes |-> FALSE]
    /\ polled = [n \in Nodes |-> None]
    /\ jobs = {}
    /\ handlers = {}
    /\ spent = [b \in BudgetKinds |-> 0]

Spend(b) == spent[b] < Budget[b] /\ spent' = [spent EXCEPT ![b] = @ + 1]

-----------------------------------------------------------------------------
(* The main loop.  While poll_clipboard runs, nothing is accepted.         *)

Readable(n) == read_content(Backend[n], clip[n])

\* A slot names the sender tasks of one broadcast and what they leave behind.
IsFree(s, n) == \A t \in jobs \cup handlers : ~(t.from = n /\ t.slot = s)

\* poll_clipboard up to the lock.  A failing read ends the poll, no change.
\* Bound: no poll starts while the slots of n are all in use.
PollRead(n) ==
    /\ up[n] /\ polled[n] = None /\ Readable(n) # None
    /\ \E s \in Slots : IsFree(s, n)
    /\ polled' = [polled EXCEPT ![n] = Readable(n)]
    /\ UNCHANGED <<up, clip, state, jobs, handlers, spent>>

\* Fault variant of IsRecentlyReceived: any content counts as received while the
\* cooldown lasts.
IsRecentlyReceivedAny(n) == cooling[n]

\* the hash compared with the state, under the lock
IsUnchanged(n)        == hash_content(polled[n]) = last_content_hash[n]
IsRecentlyReceived(n) == hash_content(polled[n]) = last_received_hash[n] /\ cooling[n]

PollUnchanged(n) ==
    /\ polled[n] # None /\ IsUnchanged(n)
    /\ polled' = [polled EXCEPT ![n] = None]
    /\ UNCHANGED <<up, clip, state, jobs, handlers, spent>>

PollSkip(n) ==
    /\ polled[n] # None /\ ~IsUnchanged(n) /\ IsRecentlyReceived(n)
    /\ last_content_hash' = [last_content_hash EXCEPT ![n] = hash_content(polled[n])]
    /\ polled' = [polled EXCEPT ![n] = None]
    /\ UNCHANGED <<up, clip, last_received_hash, cooling, jobs, handlers, spent>>

\* Fault variant of NewJobs: a host that lists this one is taken for a peer too.
NewJobsBothWays(n, s, c) ==
    {[from |-> n, to |-> p, slot |-> s, attempt |-> 0, content |-> c, key |-> Key[n],
      at |-> "connect"] : p \in Peers[n] \cup {m \in Nodes : n \in Peers[m]}}

NewJobs(n, s, c) ==
    {[from |-> n, to |-> p, slot |-> s, attempt |-> 0,
      content |-> c, key |-> Key[n], at |-> "connect"] : p \in Peers[n]}

\* Fault variant of PollBroadcast: the state is not updated.
PollBroadcastKeepsHash(n) ==
    /\ polled[n] # None /\ ~IsUnchanged(n) /\ ~IsRecentlyReceived(n)
    /\ polled' = [polled EXCEPT ![n] = None]
    /\ \E s \in Slots :
        /\ IsFree(s, n)
        /\ \A t \in Slots : t < s => ~IsFree(t, n)
        /\ jobs' = jobs \cup NewJobs(n, s, polled[n])
    /\ UNCHANGED <<up, clip, state, handlers, spent>>

PollBroadcast(n) ==
    /\ polled[n] # None /\ ~IsUnchanged(n) /\ ~IsRecentlyReceived(n)
    /\ last_content_hash' = [last_content_hash EXCEPT ![n] = hash_content(polled[n])]
    /\ polled' = [polled EXCEPT ![n] = None]
    /\ \E s \in Slots :
        /\ IsFree(s, n)
        /\ \A t \in Slots : t < s => ~IsFree(t, n)
        /\ jobs' = jobs \cup NewJobs(n, s, polled[n])
    /\ UNCHANGED <<up, clip, last_received_hash, cooling, handlers, spent>>

CooldownElapses(n) ==
    /\ cooling[n]
    /\ cooling' = [cooling EXCEPT ![n] = FALSE]
    /\ UNCHANGED <<up, clip, last_content_hash, last_received_hash, polled, jobs, handlers, spent>>

-----------------------------------------------------------------------------
(* The sender tasks: send_internal within the retry loop.                  *)

\* Fault variants of Failed: no retry limit; the attempt is not counted; one
\* attempt too few (`0..max_retries').
FailedNoLimit(J) ==
    (jobs \ J) \cup {[j EXCEPT !.attempt = @ + 1, !.at = "connect"] : j \in J}

FailedNotCounted(J) == (jobs \ J) \cup {[j EXCEPT !.at = "connect"] : j \in J}

FailedTooSoon(J) ==
    (jobs \ J) \cup
    {[j EXCEPT !.attempt = @ + 1, !.at = "connect"] : j \in {i \in J : i.attempt + 1 < MaxRetries}}

\* The retry loop after Err, for each job of J; the delay before the next
\* attempt is the time until it connects.
Failed(J) ==
    (jobs \ J) \cup
    {[j EXCEPT !.attempt = @ + 1, !.at = "connect"] : j \in {i \in J : i.attempt < MaxRetries}}

\* The sending end of connection h, while its task waits for the ack.
Awaiting(h) ==
    {j \in jobs : /\ j.at = "ack"
                  /\ j.from = h.from /\ j.to = h.to
                  /\ j.slot = h.slot /\ j.attempt = h.attempt}

HandlerOf(j) ==
    [from |-> j.from, to |-> j.to, slot |-> j.slot, attempt |-> j.attempt,
     msg |-> Wire(j.content, j.key), at |-> "read"]

\* The connection is accepted by the main loop of j.to, a handler is spawned
\* and the message written.
Accept(j) ==
    /\ j.at = "connect" /\ up[j.to] /\ polled[j.to] = None
    /\ jobs' = (jobs \ {j}) \cup {[j EXCEPT !.at = "ack"]}
    /\ handlers' = handlers \cup {HandlerOf(j)}
    /\ UNCHANGED <<up, clip, state, polled, spent>>

\* Nothing listens: connection refused.
Refused(j) ==
    /\ j.at = "connect" /\ ~up[j.to]
    /\ jobs' = Failed({j})
    /\ UNCHANGED <<up, clip, state, polled, handlers, spent>>

\* The network loses the connection before it is accepted.
Unreachable(j) ==
    /\ j.at = "connect" /\ Spend("net")
    /\ jobs' = Failed({j})
    /\ UNCHANGED <<up, clip, state, polled, handlers>>

\* The peer's process went away before it answered, and its kernel closed the
\* socket.  A host that vanishes closes nothing: Silence, and then Crash.
PeerGone(j) ==
    /\ j.at = "ack" /\ \A h \in handlers : j \notin Awaiting(h)
    /\ jobs' = Failed({j})
    /\ UNCHANGED <<up, clip, state, polled, handlers, spent>>

-----------------------------------------------------------------------------
(* handle_connection.                                                      *)

Received(h) == decrypt_content(h.msg, Key[h.to])

\* Fault variant of IsAcceptable: a message in the clear is taken.
IsAcceptablePlain(h) == Received(h) # None

\* The checks before the ack: a message sealed with our key, and read to its end;
\* what take(MAX_MESSAGE_SIZE) leaves of a longer line cannot be parsed.
IsAcceptable(h) ==
    is_encrypted(h.msg) /\ Received(h) # None /\ Received(h) \notin Oversized

Step(h, stage) == (handlers \ {h}) \cup {[h EXCEPT !.at = stage]}

\* Fault variant of Reply: the sender goes on to the next attempt after Ok.
ReplyNoBreak(h) ==
    /\ h.at = "read" /\ IsAcceptable(h)
    /\ handlers' = Step(h, "store")
    /\ jobs' = Failed(Awaiting(h))
    /\ UNCHANGED <<up, clip, state, polled, spent>>

\* The ack is sent, and received, before the content is stored or applied.
Reply(h) ==
    /\ h.at = "read" /\ IsAcceptable(h)
    /\ handlers' = Step(h, "store")
    /\ jobs' = jobs \ Awaiting(h)
    /\ UNCHANGED <<up, clip, state, polled, spent>>

\* The handler returns an error: the sender reads an empty line.
Reject(h) ==
    /\ h.at = "read" /\ ~IsAcceptable(h)
    /\ handlers' = handlers \ {h}
    /\ jobs' = Failed(Awaiting(h))
    /\ UNCHANGED <<up, clip, state, polled, spent>>

\* The connection breaks and the sender sees an error, or the sending process is
\* gone.  The handler goes on when the message had come in and its ack could
\* still be written.
Break(h) ==
    /\ h.at = "read"
    /\ IF Awaiting(h) = {} THEN UNCHANGED spent ELSE Spend("net")
    /\ \/ handlers' = handlers \ {h}
       \/ IsAcceptable(h) /\ handlers' = Step(h, "store")
    /\ jobs' = Failed(Awaiting(h))
    /\ UNCHANGED <<up, clip, state, polled>>

\* The message has come in, and no ack, end or error will reach the sender: its
\* task waits for ever (read_line without a timeout) and the content is not sent
\* again.  The handler knows nothing of it; where the host vanished Crash follows.
Silence(h) ==
    /\ h.at = "read" /\ Awaiting(h) # {} /\ Spend("silent")
    /\ jobs' = jobs \ Awaiting(h)
    /\ UNCHANGED <<up, clip, state, polled, handlers>>

\* Fault variant of HandlerStore: last_content_hash is left alone.
HandlerStoreReceivedOnly(h) ==
    /\ h.at = "store"
    /\ last_received_hash' = [last_received_hash EXCEPT ![h.to] = hash_content(Received(h))]
    /\ cooling' = [cooling EXCEPT ![h.to] = TRUE]
    /\ handlers' = Step(h, "write")
    /\ UNCHANGED <<up, clip, last_content_hash, polled, jobs, spent>>

\* Update state for loop prevention.
HandlerStore(h) ==
    /\ h.at = "store"
    /\ last_received_hash' = [last_received_hash EXCEPT ![h.to] = hash_content(Received(h))]
    /\ cooling' = [cooling EXCEPT ![h.to] = TRUE]
    /\ last_content_hash' = [last_content_hash EXCEPT ![h.to] = hash_content(Received(h))]
    /\ handlers' = Step(h, "write")
    /\ UNCHANGED <<up, clip, polled, jobs, spent>>

\* Write to clipboard.
HandlerWrite(h) ==
    /\ h.at = "write" /\ CanWrite(Backend[h.to], Received(h))
    /\ clip' = [clip EXCEPT ![h.to] = Received(h)]
    /\ handlers' = handlers \ {h}
    /\ UNCHANGED <<up, state, polled, jobs, spent>>

\* The write fails: always for an image on WSL and Windows.
HandlerWriteFails(h) ==
    /\ h.at = "write"
    /\ IF CanWrite(Backend[h.to], Received(h)) THEN Spend("write") ELSE UNCHANGED spent
    /\ handlers' = handlers \ {h}
    /\ UNCHANGED <<up, clip, state, polled, jobs>>

-----------------------------------------------------------------------------
(* The environment: users, the command line sender, and the process.       *)

Copy(n, c) ==
    /\ Spend("copy")
    /\ clip' = [clip EXCEPT ![n] = c]
    /\ UNCHANGED <<up, state, polled, jobs, handlers>>

\* `cb-sync send': one attempt, with key k or without one.
CliSend(p, c, k) ==
    /\ Spend("send")
    /\ \E s \in Slots :
        /\ IsFree(s, Cli)
        /\ \A t \in Slots : t < s => ~IsFree(t, Cli)
        /\ jobs' = jobs \cup {[from |-> Cli, to |-> p, slot |-> s, attempt |-> MaxRetries,
                               content |-> c, key |-> k, at |-> "connect"]}
    /\ UNCHANGED <<up, clip, state, polled, handlers>>

\* The process ends with its tasks; a Linux selection may end with it, when
\* the wl-copy or xclip that serves it is killed too.
Crash(n) ==
    /\ up[n] /\ Spend("crash")
    /\ up' = [up EXCEPT ![n] = FALSE]
    /\ \/ UNCHANGED clip
       \/ Backend[n] \in LinuxBackends /\ clip' = [clip EXCEPT ![n] = None]
    /\ polled' = [polled EXCEPT ![n] = None]
    /\ jobs' = {j \in jobs : j.from # n}
    /\ handlers' = {h \in handlers : h.to # n}
    /\ UNCHANGED state

\* Daemon::new and run: DaemonState::new, bind, first tick.
Start(n) ==
    /\ ~up[n]
    /\ up' = [up EXCEPT ![n] = TRUE]
    /\ last_content_hash' = [last_content_hash EXCEPT ![n] = None]
    /\ last_received_hash' = [last_received_hash EXCEPT ![n] = None]
    /\ cooling' = [cooling EXCEPT ![n] = FALSE]
    /\ UNCHANGED <<clip, polled, jobs, handlers, spent>>

-----------------------------------------------------------------------------
MainLoop(n) ==
    \/ PollRead(n) \/ PollUnchanged(n) \/ PollSkip(n) \/ PollBroadcast(n)
    \/ CooldownElapses(n)

Sending(j)  == Accept(j) \/ Refused(j) \/ Unreachable(j) \/ PeerGone(j)

Handling(h) ==
    \/ Reply(h) \/ Reject(h) \/ Break(h) \/ Silence(h)
    \/ HandlerStore(h) \/ HandlerWrite(h) \/ HandlerWriteFails(h)

Environment ==
    \/ \E n \in Users : \E c \in Vocabulary[Key[n]] : Copy(n, c)
    \/ \E p \in Nodes, k \in Keys \cup {None} : \E c \in Vocabulary[k] : CliSend(p, c, k)
    \/ \E n \in Nodes : Crash(n) \/ Start(n)

Next ==
    \/ \E n \in Nodes : MainLoop(n)
    \/ \E j \in jobs : Sending(j)
    \/ \E h \in handlers : Handling(h)
    \/ Environment

Spec == Init /\ [][Next]_vars

\* A runtime that schedules every task, clipboard commands that return (nothing in
\* the code bounds them), and a process that is not stopped while its tasks run.
\* The main loop's select! takes a ready branch at random, so a connection that
\* waits again and again is accepted in the end; nothing obliges users, the network
\* or the process to act.
Task(p, q, s) == {j \in jobs : j.from = p /\ j.to = q /\ j.slot = s}

Fairness ==
    /\ \A n \in Nodes :
        /\ WF_vars(PollRead(n))
        /\ WF_vars(PollUnchanged(n) \/ PollSkip(n) \/ PollBroadcast(n))
    /\ \A p \in Senders, q \in Nodes, s \in Slots :
        /\ SF_vars(\E j \in Task(p, q, s) : Accept(j))
        /\ WF_vars(\E j \in Task(p, q, s) : Refused(j) \/ PeerGone(j))
        /\ WF_vars(\E h \in handlers : /\ h.from = p /\ h.to = q /\ h.slot = s
                                       /\ \/ Reply(h) \/ Reject(h) \/ HandlerStore(h)
                                          \/ HandlerWrite(h) \/ HandlerWriteFails(h))

FairSpec == Spec /\ Fairness

-----------------------------------------------------------------------------
\* KEY ISOLATION.  Nothing is ever put on the clipboard of a host but what the
\* users of its key handle: handle_connection refuses what is in the clear and
\* what another key sealed, on every path a content takes (retries, stale
\* polls, restarts, a command line sender with another key or none).
KeyIsolation == \A n \in Nodes : clip[n] \in Vocabulary[Key[n]] \cup {None}

\* Why it holds: what is on its way is of the key it travels under, and what a
\* handler has acknowledged its key has opened.
JobsOfKey ==
    \A j \in jobs : /\ j.content \in Vocabulary[j.key]
                    /\ j.from \in Nodes => j.key = Key[j.from]

HandlersOfKey ==
    \A h \in handlers :
        /\ \E k \in Keys \cup {None} : \E c \in Vocabulary[k] : h.msg = Wire(c, k)
        /\ h.at # "read" => IsAcceptable(h)

PolledOfKey == \A n \in Nodes : polled[n] \in Vocabulary[Key[n]] \cup {None}

KeyInv == JobsOfKey /\ HandlersOfKey /\ PolledOfKey /\ KeyIsolation

\* EVERY SEND ENDS.  The sender task of a broadcast does not retry for ever:
\* after an ack or max_retries + 1 attempts it is gone, and so are the handlers
\* its attempts left at the peer (broadcast_content, handle_connection), provided
\* that every connection that is lost ends with an error at the sender: the ack is
\* awaited without a timeout (sync.rs:84).
EverySendEnds ==
    [](spent["silent"] = 0) => \A p \in Senders, q \in Nodes, s \in Slots :
        Task(p, q, s) # {} ~> /\ Task(p, q, s) = {}
                              /\ \A h \in handlers : ~(h.from = p /\ h.to = q /\ h.slot = s)

\* A COPY REACHES THE PEERS.  What a user copies is on the clipboards of the
\* peers in the end, through as many network faults as there are retries ("Copy
\* on one machine, paste on all others", README.md:7), when it fits into a message
\* and is the only thing sent, no connection is lost silently, no process stops and
\* no clipboard command fails.
Calm ==
    /\ spent["copy"] <= 1 /\ spent["send"] = 0 /\ spent["net"] <= MaxRetries
    /\ spent["silent"] = 0 /\ spent["crash"] = 0 /\ spent["write"] = 0

CopyReachesPeers ==
    []Calm => \A n \in Users : \A c \in Vocabulary[Key[n]] \ Oversized :
                clip[n] = c ~> [](\A p \in Peers[n] : clip[p] = c)

\* THE DAEMON CATCHES UP.  Again and again a running daemon has processed what
\* its clipboard shows: poll_clipboard does not lose a change, whatever is
\* received, dropped or restarted meanwhile.
CatchesUp ==
    \A n \in Nodes :
        []<>(up[n] => Readable(n) = None \/ hash_content(Readable(n)) = last_content_hash[n])

\* ALL CLIPBOARDS AGREE IN THE END, once the users have stopped copying ("Copy
\* on any device, paste on all others", README.md:52).
Converges == <>[](\A n, m \in Nodes : clip[n] = clip[m])

\* THE NETWORK COMES TO REST: once the users have stopped copying, sending
\* stops too (abst.md:19 says infinite loops are detected and prevented).
ComesToRest == <>[](jobs = {})
=============================================================================
