------------------------------ MODULE DaemonProofs ------------------------------
(***************************************************************************)
(* Theorems about the daemons, for any hosts, keys, peers and bounds.      *)
(***************************************************************************)
EXTENDS Daemon, ProtocolProofs

-----------------------------------------------------------------------------
(* Type correctness and key isolation of Spec, by one inductive invariant: *)
(* the type of what a handler stores depends on what its key has opened.   *)

Inv == TypeOK /\ KeyInv

LEMMA VocabularyType ==
    \A k \in Keys \cup {None} : Vocabulary[k] \subseteq Content
  BY VocabularyAssumption

\* What a handler has accepted belongs to the key of its host.
LEMMA AcceptedOfKey ==
    ASSUME NEW h, h.to \in Nodes,
           \E k \in Keys \cup {None} : \E c \in Vocabulary[k] : h.msg = Wire(c, k),
           IsAcceptable(h)
    PROVE  Received(h) \in Vocabulary[Key[h.to]] /\ Received(h) \in Content
  <1>1. PICK k \in Keys \cup {None} : \E c \in Vocabulary[k] : h.msg = Wire(c, k)
    OBVIOUS
  <1>2. PICK c \in Vocabulary[k] : h.msg = Wire(c, k)
    BY <1>1
  <1>3. c \in Content /\ Key[h.to] \in Keys
    BY VocabularyType, DaemonAssumption
  <1>4. k \in Keys
    <2>1. ~is_encrypted(from_content(c))
      BY DEF is_encrypted, from_content, clipboard, image
    <2> QED
      BY <2>1, <1>2 DEF IsAcceptable, Wire
  <1>5. h.msg = encrypted_content(c, k)
    BY <1>2, <1>4, KeysAssumption DEF Wire
  <1>6. Received(h) = IF k = Key[h.to] THEN c ELSE None
    BY <1>3, <1>4, <1>5, SealedRoundTrip DEF Received
  <1> QED
    BY <1>2, <1>3, <1>6 DEF IsAcceptable

\* The retry loop keeps what a job carries, and its attempts within bounds.
LEMMA FailedJobs ==
    ASSUME jobs \subseteq Job, NEW J \in SUBSET jobs
    PROVE  /\ Failed(J) \subseteq Job
           /\ \A j \in Failed(J) : \E i \in jobs :
                j.from = i.from /\ j.to = i.to /\ j.content = i.content /\ j.key = i.key
  <1> DEFINE again(j) == [j EXCEPT !.attempt = @ + 1, !.at = "connect"]
  <1>1. ASSUME NEW j \in jobs, j.attempt < MaxRetries
        PROVE  /\ again(j) \in Job
               /\ again(j).from = j.from /\ again(j).to = j.to
               /\ again(j).content = j.content /\ again(j).key = j.key
    <2>1. j \in Job
      OBVIOUS
    <2>2. j.attempt + 1 \in 0 .. MaxRetries
      BY <2>1, <1>1, DaemonAssumption DEF Job
    <2> QED
      BY <2>1, <2>2 DEF Job
  <1>2. ASSUME NEW j \in Failed(J)
        PROVE  j \in jobs \/ \E i \in jobs : i.attempt < MaxRetries /\ j = again(i)
    BY DEF Failed
  <1> HIDE DEF again
  <1> QED
    BY <1>1, <1>2

\* A handler that goes on is still a handler, with the same message.
LEMMA StepType ==
    ASSUME handlers \subseteq Handler, NEW h \in handlers,
           NEW stage \in {"read", "store", "write"}
    PROVE  /\ Step(h, stage) \subseteq Handler
           /\ \A g \in Step(h, stage) : \/ g \in handlers
                                        \/ /\ g.from = h.from /\ g.to = h.to /\ g.slot = h.slot
                                           /\ g.msg = h.msg /\ g.at = stage
  BY DEF Step, Handler
LEMMA InvInit == Init => Inv
  <1> SUFFICES ASSUME Init PROVE Inv
    OBVIOUS
  <1>1. TypeOK
    <2>1. jobs \subseteq Job /\ handlers \subseteq Handler
      BY DEF Init
    <2>2. spent \in [BudgetKinds -> Nat]
      BY DEF Init
    <2>3. /\ up \in [Nodes -> BOOLEAN] /\ cooling \in [Nodes -> BOOLEAN]
          /\ last_content_hash \in [Nodes -> Hashes \cup {None}]
          /\ last_received_hash \in [Nodes -> Hashes \cup {None}]
      BY DEF Init
    <2>4. clip \in [Nodes -> Selection] /\ polled \in [Nodes -> Selection]
      BY DEF Init, Selection
    <2> QED
      BY <2>1, <2>2, <2>3, <2>4 DEF TypeOK
  <1>2. KeyInv
    BY DEF Init, KeyInv, JobsOfKey, HandlersOfKey, PolledOfKey, KeyIsolation
  <1> QED
    BY <1>1, <1>2 DEF Inv

LEMMA SpendType ==
    ASSUME spent \in [BudgetKinds -> Nat], NEW b \in BudgetKinds, Spend(b)
    PROVE  spent' \in [BudgetKinds -> Nat]
  BY DEF Spend

\* What a poll reads belongs to the key of its host.
LEMMA ReadableOfKey ==
    ASSUME TypeOK, KeyIsolation, NEW n \in Nodes
    PROVE  Readable(n) \in Vocabulary[Key[n]] \cup {None} /\ Readable(n) \in Selection
  <1>1. Backend[n] \in Backends /\ Key[n] \in Keys /\ clip[n] \in Selection
    BY DaemonAssumption DEF TypeOK
  <1>2. CASE clip[n] = None
    BY <1>2, ReadNone DEF Readable, Selection
  <1>3. CASE clip[n] # None
    BY <1>1, <1>3, VocabularyAssumption, ReadContentType DEF Readable, KeyIsolation
  <1> QED
    BY <1>2, <1>3

-----------------------------------------------------------------------------
(* The main loop.                                                          *)

LEMMA MainLoopInv ==
    ASSUME Inv, NEW n \in Nodes, MainLoop(n)
    PROVE  Inv'
  <1> USE DEF Inv, KeyInv
  <1>1. CASE PollRead(n)
    <2>1. Readable(n) \in Vocabulary[Key[n]] \cup {None} /\ Readable(n) \in Selection
      BY ReadableOfKey
    <2> QED
      BY <2>1, <1>1
      DEF PollRead, TypeOK, state, JobsOfKey, HandlersOfKey, PolledOfKey, KeyIsolation,
          IsAcceptable, Received
  <1>2. CASE PollUnchanged(n)
    BY <1>2
    DEF PollUnchanged, TypeOK, state, JobsOfKey, HandlersOfKey, PolledOfKey, KeyIsolation,
        IsAcceptable, Received, Selection
  <1>3. CASE PollSkip(n)
    <2>1. polled[n] \in Content
      BY <1>3 DEF PollSkip, TypeOK, Selection
    <2>2. hash_content(polled[n]) \in Hashes
      BY <2>1, HashType
    <2> QED
      BY <1>3, <2>2
      DEF PollSkip, TypeOK, JobsOfKey, HandlersOfKey, PolledOfKey, KeyIsolation,
          IsAcceptable, Received, Selection
  <1>4. CASE PollBroadcast(n)
    <2>1. polled[n] \in Content /\ polled[n] \in Vocabulary[Key[n]]
      BY <1>4 DEF PollBroadcast, TypeOK, Selection, PolledOfKey
    <2>2. hash_content(polled[n]) \in Hashes
      BY <2>1, HashType
    <2>3. PICK s \in Slots : jobs' = jobs \cup NewJobs(n, s, polled[n])
      BY <1>4 DEF PollBroadcast
    <2>4. NewJobs(n, s, polled[n]) \subseteq Job
      BY <2>1, DaemonAssumption DEF NewJobs, Job, Senders
    <2>5. \A j \in NewJobs(n, s, polled[n]) :
            j.content \in Vocabulary[j.key] /\ j.key = Key[j.from]
      BY <2>1 DEF NewJobs
    <2>6. TypeOK'
      BY <1>4, <2>2, <2>3, <2>4 DEF PollBroadcast, TypeOK, Selection
    <2>7. JobsOfKey'
      BY <2>3, <2>5 DEF JobsOfKey
    <2> QED
      BY <1>4, <2>6, <2>7
      DEF PollBroadcast, HandlersOfKey, PolledOfKey, KeyIsolation, IsAcceptable, Received
  <1>5. CASE CooldownElapses(n)
    BY <1>5
    DEF CooldownElapses, TypeOK, JobsOfKey, HandlersOfKey, PolledOfKey, KeyIsolation,
        IsAcceptable, Received
  <1> QED
    BY <1>1, <1>2, <1>3, <1>4, <1>5 DEF MainLoop

-----------------------------------------------------------------------------
(* The sender tasks.                                                       *)

\* A failed attempt disturbs nothing but the jobs, and these as FailedJobs says.
LEMMA FailedInv ==
    ASSUME TypeOK, JobsOfKey, NEW J \in SUBSET jobs, jobs' = Failed(J)
    PROVE  jobs' \subseteq Job /\ JobsOfKey'
  <1>1. jobs \subseteq Job
    BY DEF TypeOK
  <1>2. \A j \in jobs' : \E i \in jobs :
            j.from = i.from /\ j.to = i.to /\ j.content = i.content /\ j.key = i.key
    BY <1>1, FailedJobs
  <1> QED
    BY <1>1, <1>2, FailedJobs DEF JobsOfKey

LEMMA SendingInv ==
    ASSUME Inv, NEW j \in jobs, Sending(j)
    PROVE  Inv'
  <1> USE DEF Inv, KeyInv
  <1>1. j \in Job
    BY DEF TypeOK
  <1>2. CASE Accept(j)
    <2> DEFINE waiting == [j EXCEPT !.at = "ack"]
    <2>1. waiting \in Job /\ waiting.from = j.from
          /\ waiting.content = j.content /\ waiting.key = j.key
      BY <1>1 DEF Job
    <2>2. HandlerOf(j) \in Handler
      BY <1>1 DEF HandlerOf, Job, Handler
    <2>3. \E k \in Keys \cup {None} : \E c \in Vocabulary[k] : HandlerOf(j).msg = Wire(c, k)
      BY <1>1 DEF HandlerOf, Job, JobsOfKey
    <2>4. jobs' = (jobs \ {j}) \cup {waiting} /\ handlers' = handlers \cup {HandlerOf(j)}
      BY <1>2 DEF Accept
    <2>5. TypeOK'
      BY <1>2, <2>1, <2>2, <2>4 DEF Accept, TypeOK, state
    <2>6. JobsOfKey'
      BY <2>1, <2>4 DEF JobsOfKey
    <2>7. HandlersOfKey'
      BY <2>3, <2>4 DEF HandlersOfKey, IsAcceptable, Received, HandlerOf
    <2> QED
      BY <1>2, <2>5, <2>6, <2>7 DEF Accept, PolledOfKey, KeyIsolation
  <1>3. CASE Refused(j) \/ Unreachable(j) \/ PeerGone(j)
    <2>1. jobs' = Failed({j}) /\ UNCHANGED <<up, clip, state, polled, handlers>>
      BY <1>3 DEF Refused, Unreachable, PeerGone
    <2>2. spent' \in [BudgetKinds -> Nat]
      BY <1>3, SpendType DEF Refused, Unreachable, PeerGone, TypeOK, BudgetKinds
    <2>3. jobs' \subseteq Job /\ JobsOfKey'
      BY <2>1, FailedInv
    <2> QED
      BY <2>1, <2>2, <2>3
      DEF TypeOK, state, HandlersOfKey, PolledOfKey, KeyIsolation, IsAcceptable, Received
  <1> QED
    BY <1>2, <1>3 DEF Sending
-----------------------------------------------------------------------------
(* handle_connection.                                                      *)

\* A handler that goes on, or ends, leaves handlers of the right keys.
LEMMA GoesOn ==
    ASSUME TypeOK, HandlersOfKey, NEW h \in handlers,
           NEW stage \in {"store", "write"}, IsAcceptable(h),
           handlers' = Step(h, stage)
    PROVE  handlers' \subseteq Handler /\ HandlersOfKey'
  <1>1. handlers \subseteq Handler
    BY DEF TypeOK
  <1>2. ASSUME NEW g \in handlers'
        PROVE  /\ g \in Handler
               /\ \/ g \in handlers
                  \/ g.to = h.to /\ g.msg = h.msg
    BY <1>1, StepType
  <1>3. ASSUME NEW g \in handlers'
        PROVE  /\ \E k \in Keys \cup {None} : \E c \in Vocabulary[k] : g.msg = Wire(c, k)
               /\ g.at # "read" => IsAcceptable(g)
    BY <1>2, <1>3 DEF HandlersOfKey, IsAcceptable, Received
  <1> QED
    BY <1>2, <1>3 DEF HandlersOfKey, IsAcceptable, Received

LEMMA EndsNow ==
    ASSUME TypeOK, HandlersOfKey, NEW h \in handlers, handlers' = handlers \ {h}
    PROVE  handlers' \subseteq Handler /\ HandlersOfKey'
  BY DEF TypeOK, HandlersOfKey, IsAcceptable, Received

LEMMA HandlingInv ==
    ASSUME Inv, NEW h \in handlers, Handling(h)
    PROVE  Inv'
  <1> USE DEF Inv, KeyInv
  <1>1. h \in Handler /\ h.to \in Nodes
    BY DEF TypeOK, Handler
  <1>2. Awaiting(h) \in SUBSET jobs
    BY DEF Awaiting
  <1>3. ASSUME h.at # "read"
        PROVE  Received(h) \in Vocabulary[Key[h.to]] /\ Received(h) \in Content
    BY <1>1, <1>3, AcceptedOfKey DEF HandlersOfKey
  <1>4. CASE Reply(h)
    <2>1. handlers' \subseteq Handler /\ HandlersOfKey'
      BY <1>4, GoesOn DEF Reply
    <2> QED
      BY <1>4, <2>1 DEF Reply, TypeOK, state, JobsOfKey, PolledOfKey, KeyIsolation
  <1>5. CASE Reject(h)
    <2>1. handlers' \subseteq Handler /\ HandlersOfKey'
      BY <1>5, EndsNow DEF Reject
    <2>2. jobs' \subseteq Job /\ JobsOfKey'
      BY <1>2, <1>5, FailedInv DEF Reject
    <2> QED
      BY <1>5, <2>1, <2>2 DEF Reject, TypeOK, state, PolledOfKey, KeyIsolation
  <1>6. CASE Break(h)
    <2>1. handlers' \subseteq Handler /\ HandlersOfKey'
      BY <1>6, GoesOn, EndsNow DEF Break
    <2>2. jobs' \subseteq Job /\ JobsOfKey'
      BY <1>2, <1>6, FailedInv DEF Break
    <2>3. spent' \in [BudgetKinds -> Nat]
      BY <1>6, SpendType DEF Break, TypeOK, BudgetKinds
    <2> QED
      BY <1>6, <2>1, <2>2, <2>3 DEF Break, TypeOK, state, PolledOfKey, KeyIsolation
  <1>7. CASE HandlerStore(h)
    <2>1. hash_content(Received(h)) \in Hashes
      BY <1>3, <1>7, HashType DEF HandlerStore
    <2>2. IsAcceptable(h)
      BY <1>7 DEF HandlerStore, HandlersOfKey
    <2>3. handlers' \subseteq Handler /\ HandlersOfKey'
      BY <1>7, <2>2, GoesOn DEF HandlerStore
    <2> QED
      BY <1>7, <2>1, <2>3 DEF HandlerStore, TypeOK, JobsOfKey, PolledOfKey, KeyIsolation
  <1>8. CASE HandlerWrite(h)
    <2>1. handlers' \subseteq Handler /\ HandlersOfKey'
      BY <1>8, EndsNow DEF HandlerWrite
    <2>2. Received(h) \in Vocabulary[Key[h.to]] /\ Received(h) \in Selection
      BY <1>3, <1>8 DEF HandlerWrite, Selection
    <2>3. clip' \in [Nodes -> Selection] /\ KeyIsolation'
      BY <1>8, <2>2 DEF HandlerWrite, TypeOK, KeyIsolation
    <2> QED
      BY <1>8, <2>1, <2>3 DEF HandlerWrite, TypeOK, state, JobsOfKey, PolledOfKey
  <1>9. CASE HandlerWriteFails(h)
    <2>1. handlers' \subseteq Handler /\ HandlersOfKey'
      BY <1>9, EndsNow DEF HandlerWriteFails
    <2>2. spent' \in [BudgetKinds -> Nat]
      BY <1>9, SpendType DEF HandlerWriteFails, TypeOK, BudgetKinds
    <2> QED
      BY <1>9, <2>1, <2>2
      DEF HandlerWriteFails, TypeOK, state, JobsOfKey, PolledOfKey, KeyIsolation
  <1>10. CASE Silence(h)
    <2>1. spent' \in [BudgetKinds -> Nat]
      BY <1>10, SpendType DEF Silence, TypeOK, BudgetKinds
    <2> QED
      BY <1>10, <2>1
      DEF Silence, TypeOK, state, JobsOfKey, HandlersOfKey, PolledOfKey, KeyIsolation,
          IsAcceptable, Received
  <1> QED
    BY <1>4, <1>5, <1>6, <1>7, <1>8, <1>9, <1>10 DEF Handling

-----------------------------------------------------------------------------
(* The environment.                                                        *)

LEMMA EnvironmentInv ==
    ASSUME Inv, Environment
    PROVE  Inv'
  <1> USE DEF Inv, KeyInv
  <1>1. ASSUME NEW n \in Users, NEW c \in Vocabulary[Key[n]], Copy(n, c)
        PROVE  Inv'
    <2>1. n \in Nodes /\ c \in Selection
      BY VocabularyType, DaemonAssumption DEF Selection
    <2>2. spent' \in [BudgetKinds -> Nat]
      BY <1>1, SpendType DEF Copy, TypeOK, BudgetKinds
    <2>3. clip' \in [Nodes -> Selection] /\ KeyIsolation'
      BY <1>1, <2>1 DEF Copy, TypeOK, KeyIsolation
    <2> QED
      BY <1>1, <2>2, <2>3
      DEF Copy, TypeOK, state, JobsOfKey, HandlersOfKey, PolledOfKey, IsAcceptable, Received
  <1>2. ASSUME NEW p \in Nodes, NEW k \in Keys \cup {None}, NEW c \in Vocabulary[k],
               CliSend(p, c, k)
        PROVE  Inv'
    <2>1. spent' \in [BudgetKinds -> Nat]
      BY <1>2, SpendType DEF CliSend, TypeOK, BudgetKinds
    <2>2. PICK s \in Slots :
            jobs' = jobs \cup {[from |-> Cli, to |-> p, slot |-> s, attempt |-> MaxRetries,
                                content |-> c, key |-> k, at |-> "connect"]}
      BY <1>2 DEF CliSend
    <2>3. c \in Content
      BY VocabularyType
    <2>4. jobs' \subseteq Job
      BY <2>2, <2>3, DaemonAssumption DEF TypeOK, Job, Senders
    <2>5. JobsOfKey'
      BY <2>2, DaemonAssumption DEF JobsOfKey
    <2> QED
      BY <1>2, <2>1, <2>4, <2>5
      DEF CliSend, TypeOK, state, HandlersOfKey, PolledOfKey, KeyIsolation, IsAcceptable, Received
  <1>3. ASSUME NEW n \in Nodes, Crash(n)
        PROVE  Inv'
    <2>1. spent' \in [BudgetKinds -> Nat]
      BY <1>3, SpendType DEF Crash, TypeOK, BudgetKinds
    <2>2. clip' \in [Nodes -> Selection] /\ KeyIsolation'
      BY <1>3 DEF Crash, TypeOK, Selection, KeyIsolation
    <2> QED
      BY <1>3, <2>1, <2>2
      DEF Crash, TypeOK, state, Selection, JobsOfKey, HandlersOfKey, PolledOfKey,
          IsAcceptable, Received
  <1>4. ASSUME NEW n \in Nodes, Start(n)
        PROVE  Inv'
    BY <1>4
    DEF Start, TypeOK, JobsOfKey, HandlersOfKey, PolledOfKey, KeyIsolation,
        IsAcceptable, Received
  <1> QED
    BY <1>1, <1>2, <1>3, <1>4 DEF Environment

LEMMA InvNext == Inv /\ [Next]_vars => Inv'
  <1> SUFFICES ASSUME Inv, [Next]_vars PROVE Inv'
    OBVIOUS
  <1>1. CASE Next
    BY <1>1, MainLoopInv, SendingInv, HandlingInv, EnvironmentInv DEF Next
  <1>2. CASE UNCHANGED vars
    BY <1>2
    DEF vars, state, Inv, KeyInv, TypeOK, JobsOfKey, HandlersOfKey, PolledOfKey, KeyIsolation,
        IsAcceptable, Received
  <1> QED
    BY <1>1, <1>2

\* The state of the daemons keeps its types: in particular no task ever makes
\* more than max_retries + 1 attempts, and a hash stored is that of a content.
THEOREM TypeCorrect == Spec => []TypeOK
  <1>1. Inv => TypeOK
    BY DEF Inv
  <1> QED
    BY <1>1, InvInit, InvNext, PTL DEF Spec

\* No clipboard ever shows what the users of its key did not copy or send,
\* for any network of hosts, keys and peers and any order of faults.
THEOREM KeysIsolated == Spec => []KeyIsolation
  <1>1. Inv => KeyIsolation
    BY DEF Inv, KeyInv
  <1> QED
    BY <1>1, InvInit, InvNext, PTL DEF Spec
=============================================================================
