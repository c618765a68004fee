-------------------------------- MODULE NetProofs --------------------------------
(***************************************************************************)
(* The daemons implement the abstract network of ClipboardNet.  What is on *)
(* its way is traced back to where it came from: the clipboard of a host   *)
(* that lists the receiver, or a command line user.                        *)
(***************************************************************************)
EXTENDS HistoryProofs, FiniteSetTheorems

SeenOK == seen \in [Nodes -> SUBSET Content] /\ sent \in [Nodes -> SUBSET Content]

\* A content c on its way under key k has a sender that may send it.
Rightful(from, to, c, k) ==
    /\ from \in Nodes => to \in Peers[from] /\ c \in seen[from] /\ k = Key[from]
    /\ from = Cli => (k = Key[to] => c \in sent[to])

JobsRightful == \A j \in jobs : Rightful(j.from, j.to, j.content, j.key)

HandlersRightful ==
    \A h \in handlers :
        \E k \in Keys \cup {None} : \E c \in Vocabulary[k] :
            h.msg = Wire(c, k) /\ Rightful(h.from, h.to, c, k)

ReadSeen ==
    \A n \in Nodes : /\ Readable(n) \in seen[n] \cup {None}
                     /\ polled[n] \in seen[n] \cup {None}

NetInv == SeenOK /\ JobsRightful /\ HandlersRightful /\ ReadSeen

-----------------------------------------------------------------------------
(* What has been seen or sent stays so.                                    *)

Grows == \A n \in Nodes : seen[n] \subseteq seen'[n] /\ sent[n] \subseteq sent'[n]

LEMMA StaysRightful ==
    ASSUME Grows, NEW from, NEW to \in Nodes, NEW c, NEW k, Rightful(from, to, c, k)
    PROVE  Rightful(from, to, c, k)'
  BY DEF Rightful, Grows

LEMMA JobsStay ==
    ASSUME jobs \subseteq Job, JobsRightful, Grows,
           \A j \in jobs' : \E i \in jobs :
                j.from = i.from /\ j.to = i.to /\ j.content = i.content /\ j.key = i.key
    PROVE  JobsRightful'
  <1> SUFFICES ASSUME NEW j \in jobs'
               PROVE  Rightful(j.from, j.to, j.content, j.key)'
    BY DEF JobsRightful
  <1>1. PICK i \in jobs :
            j.from = i.from /\ j.to = i.to /\ j.content = i.content /\ j.key = i.key
    OBVIOUS
  <1>2. Rightful(j.from, j.to, j.content, j.key) /\ j.to \in Nodes
    BY <1>1 DEF JobsRightful, Job
  <1> QED
    BY <1>2, StaysRightful

LEMMA HandlersStay ==
    ASSUME handlers \subseteq Handler, HandlersRightful, Grows,
           \A g \in handlers' : \E h \in handlers :
                g.from = h.from /\ g.to = h.to /\ g.msg = h.msg
    PROVE  HandlersRightful'
  <1> SUFFICES ASSUME NEW g \in handlers'
               PROVE  \E k \in Keys \cup {None} : \E c \in Vocabulary[k] :
                        g.msg = Wire(c, k) /\ Rightful(g.from, g.to, c, k)'
    BY DEF HandlersRightful
  <1>1. PICK h \in handlers : g.from = h.from /\ g.to = h.to /\ g.msg = h.msg
    OBVIOUS
  <1>2. PICK k \in Keys \cup {None} : \E c \in Vocabulary[k] :
            h.msg = Wire(c, k) /\ Rightful(h.from, h.to, c, k)
    BY DEF HandlersRightful
  <1>3. PICK c \in Vocabulary[k] : h.msg = Wire(c, k) /\ Rightful(h.from, h.to, c, k)
    BY <1>2
  <1>4. g.to \in Nodes
    BY <1>1 DEF Handler
  <1> QED
    BY <1>1, <1>3, <1>4, StaysRightful

\* The sender tasks and the handlers either stay what they are or end.
LEMMA SendersCarry ==
    ASSUME jobs \subseteq Job, NEW J \in SUBSET jobs,
           jobs' = Failed(J) \/ jobs' \subseteq jobs
    PROVE  \A j \in jobs' : \E i \in jobs :
                j.from = i.from /\ j.to = i.to /\ j.content = i.content /\ j.key = i.key
  BY FailedJobs

LEMMA HandlersCarry ==
    ASSUME handlers \subseteq Handler, NEW h \in handlers,
           \/ \E stage \in {"store", "write"} : handlers' = Step(h, stage)
           \/ handlers' \subseteq handlers
    PROVE  \A g \in handlers' : \E f \in handlers :
                g.from = f.from /\ g.to = f.to /\ g.msg = f.msg
  BY StepType

\* A handler that has accepted a content has the content that was sent.
LEMMA AcceptedIsSent ==
    ASSUME NEW h, h.to \in Nodes, IsAcceptable(h),
           NEW k \in Keys \cup {None}, NEW c \in Vocabulary[k], h.msg = Wire(c, k)
    PROVE  k = Key[h.to] /\ Received(h) = c
  <1>1. c \in Content /\ Key[h.to] \in Keys
    BY VocabularyType, DaemonAssumption
  <1>2. k \in Keys
    <2>1. ~is_encrypted(from_content(c))
      BY DEF is_encrypted, from_content, clipboard, image
    <2> QED
      BY <2>1 DEF IsAcceptable, Wire
  <1>3. h.msg = encrypted_content(c, k)
    BY <1>2, KeysAssumption DEF Wire
  <1>4. Received(h) = IF k = Key[h.to] THEN c ELSE None
    BY <1>1, <1>2, <1>3, SealedRoundTrip DEF Received
  <1> QED
    BY <1>4 DEF IsAcceptable

-----------------------------------------------------------------------------
(* NetInv holds of every state, one kind of step after the other.          *)

\* A step that starts no task and sets no clipboard.
LEMMA NothingNew ==
    ASSUME Inv, NetInv, UNCHANGED <<seen, sent>>,
           \A n \in Nodes : /\ Readable(n)' \in {Readable(n), None}
                            /\ polled'[n] \in {polled[n], Readable(n), None},
           \A j \in jobs' : \E i \in jobs :
                j.from = i.from /\ j.to = i.to /\ j.content = i.content /\ j.key = i.key,
           \A g \in handlers' : \E h \in handlers :
                g.from = h.from /\ g.to = h.to /\ g.msg = h.msg
    PROVE  NetInv'
  <1>1. SeenOK' /\ Grows
    BY DEF NetInv, SeenOK, Grows
  <1>2. ReadSeen'
    BY DEF NetInv, ReadSeen
  <1>3. JobsRightful' /\ HandlersRightful'
    BY <1>1, JobsStay, HandlersStay DEF NetInv, Inv, TypeOK
  <1> QED
    BY <1>1, <1>2, <1>3 DEF NetInv

\* A clipboard that is set shows what its daemon could then have read.
LEMMA SetsSeen ==
    ASSUME Inv, SeenOK, ReadSeen, NEW n \in Nodes, NEW c \in Content, NEW byUser,
           Sets(n, c, byUser), clip' = [clip EXCEPT ![n] = c], UNCHANGED <<sent, polled>>
    PROVE  SeenOK' /\ Grows /\ ReadSeen'
  <1> DEFINE r == read_content(Backend[n], c)
  <1>1. r \in Content \cup {None}
    BY ReadContentType, DaemonAssumption DEF Selection
  <1>2. seen' = [seen EXCEPT ![n] = seen[n] \cup (Content \cap {r})]
    BY <1>1, ClipboardAssumption DEF Sets
  <1>3. SeenOK' /\ Grows
    BY <1>2 DEF SeenOK, Grows
  <1>4. /\ Readable(n)' = r
        /\ \A m \in Nodes \ {n} : Readable(m)' = Readable(m)
    BY DEF Readable, Inv, TypeOK
  <1>5. r \in seen'[n] \cup {None}
    BY <1>1, <1>2 DEF SeenOK
  <1>6. ReadSeen'
    BY <1>3, <1>4, <1>5 DEF ReadSeen, Grows
  <1> QED
    BY <1>3, <1>6

LEMMA NetInvInit == HInit => NetInv
  <1> SUFFICES ASSUME HInit PROVE NetInv
    OBVIOUS
  <1>1. SeenOK /\ JobsRightful /\ HandlersRightful
    BY DEF HInit, Init, SeenOK, JobsRightful, HandlersRightful
  <1>2. ReadSeen
    BY ReadNone DEF HInit, Init, ReadSeen, Readable
  <1> QED
    BY <1>1, <1>2 DEF NetInv

\* A broadcast carries what has been read to the listed peers, under the key
\* of the host.
LEMMA BroadcastRightful ==
    ASSUME Inv, NetInv, NEW n \in Nodes, HPollBroadcast(n)
    PROVE  NetInv'
  <1>1. /\ polled' = [polled EXCEPT ![n] = None] /\ polled[n] # None
        /\ UNCHANGED <<seen, sent, clip, handlers>>
    BY DEF HPollBroadcast, PollBroadcast
  <1>2. PICK s \in Slots : jobs' = jobs \cup NewJobs(n, s, polled[n])
    BY DEF HPollBroadcast, PollBroadcast
  <1>3. SeenOK' /\ Grows
    BY <1>1 DEF NetInv, SeenOK, Grows
  <1>4. polled[n] \in seen[n]
    BY <1>1 DEF NetInv, ReadSeen
  <1>5. ASSUME NEW j \in NewJobs(n, s, polled[n])
        PROVE  Rightful(j.from, j.to, j.content, j.key)'
    BY <1>1, <1>4, <1>5, DaemonAssumption DEF NewJobs, Rightful
  <1>6. ASSUME NEW j \in jobs
        PROVE  Rightful(j.from, j.to, j.content, j.key)'
    <2>1. Rightful(j.from, j.to, j.content, j.key) /\ j.to \in Nodes
      BY DEF NetInv, JobsRightful, Inv, TypeOK, Job
    <2> QED
      BY <1>3, <2>1, StaysRightful
  <1>7. JobsRightful'
    BY <1>2, <1>5, <1>6 DEF JobsRightful
  <1>8. ReadSeen'
    BY <1>1 DEF NetInv, ReadSeen, Readable, Inv, TypeOK
  <1>9. HandlersRightful'
    BY <1>1, <1>3, HandlersStay DEF NetInv, Inv, TypeOK
  <1> QED
    BY <1>3, <1>7, <1>8, <1>9 DEF NetInv

\* What the command line tool sends counts as sent when it has the right key.
LEMMA CliSendRightful ==
    ASSUME Inv, NetInv, NEW p \in Nodes, NEW k \in Keys \cup {None},
           NEW c \in Vocabulary[k], HCliSend(p, c, k)
    PROVE  NetInv'
  <1>1. /\ UNCHANGED <<seen, clip, polled, handlers>>
        /\ sent' = [sent EXCEPT ![p] = sent[p] \cup IF k = Key[p] THEN {c} ELSE {}]
    BY DEF HCliSend, CliSend
  <1>2. PICK s \in Slots :
            jobs' = jobs \cup {[from |-> Cli, to |-> p, slot |-> s, attempt |-> MaxRetries,
                                content |-> c, key |-> k, at |-> "connect"]}
    BY DEF HCliSend, CliSend
  <1>3. c \in Content
    BY VocabularyType
  <1>4. SeenOK' /\ Grows
    BY <1>1, <1>3 DEF NetInv, SeenOK, Grows
  <1>5. Rightful(Cli, p, c, k)'
    BY <1>1, DaemonAssumption DEF Rightful, NetInv, SeenOK
  <1>6. ASSUME NEW j \in jobs
        PROVE  Rightful(j.from, j.to, j.content, j.key)'
    <2>1. Rightful(j.from, j.to, j.content, j.key) /\ j.to \in Nodes
      BY DEF NetInv, JobsRightful, Inv, TypeOK, Job
    <2> QED
      BY <1>4, <2>1, StaysRightful
  <1>7. JobsRightful'
    BY <1>2, <1>5, <1>6 DEF JobsRightful
  <1>8. ReadSeen'
    BY <1>1 DEF NetInv, ReadSeen, Readable
  <1>9. HandlersRightful'
    BY <1>1, <1>4, HandlersStay DEF NetInv, Inv, TypeOK
  <1> QED
    BY <1>4, <1>7, <1>8, <1>9 DEF NetInv

\* What is accepted is passed on to the sender task's handler as it is.
LEMMA AcceptRightful ==
    ASSUME Inv, NetInv, NEW j \in jobs, Accept(j), UNCHANGED history
    PROVE  NetInv'
  <1>1. /\ UNCHANGED <<seen, sent, clip, polled>>
        /\ jobs' = (jobs \ {j}) \cup {[j EXCEPT !.at = "ack"]}
        /\ handlers' = handlers \cup {HandlerOf(j)}
    BY DEF Accept, history
  <1>2. SeenOK' /\ Grows /\ ReadSeen'
    BY <1>1 DEF NetInv, SeenOK, Grows, ReadSeen, Readable
  <1>3. j \in Job /\ Rightful(j.from, j.to, j.content, j.key)
    BY DEF NetInv, JobsRightful, Inv, TypeOK
  <1>4. JobsRightful'
    <2>1. ASSUME NEW i \in jobs'
          PROVE  \E f \in jobs : /\ i.from = f.from /\ i.to = f.to
                                 /\ i.content = f.content /\ i.key = f.key
      BY <1>1, <1>3 DEF Job
    <2> QED
      BY <1>2, <2>1, JobsStay DEF NetInv, Inv, TypeOK
  <1>5. \E k \in Keys \cup {None} : \E c \in Vocabulary[k] :
            HandlerOf(j).msg = Wire(c, k) /\ Rightful(HandlerOf(j).from, HandlerOf(j).to, c, k)'
    <2>1. Rightful(j.from, j.to, j.content, j.key)'
      BY <1>2, <1>3, StaysRightful DEF Job
    <2>2. j.key \in Keys \cup {None} /\ j.content \in Vocabulary[j.key]
      BY <1>3 DEF Job, Inv, KeyInv, JobsOfKey
    <2> QED
      BY <2>1, <2>2 DEF HandlerOf
  <1>6. ASSUME NEW h \in handlers
        PROVE  \E k \in Keys \cup {None} : \E c \in Vocabulary[k] :
                    h.msg = Wire(c, k) /\ Rightful(h.from, h.to, c, k)'
    <2>1. PICK k \in Keys \cup {None} : \E c \in Vocabulary[k] :
                h.msg = Wire(c, k) /\ Rightful(h.from, h.to, c, k)
      BY DEF NetInv, HandlersRightful
    <2>2. PICK c \in Vocabulary[k] : h.msg = Wire(c, k) /\ Rightful(h.from, h.to, c, k)
      BY <2>1
    <2>3. h.to \in Nodes
      BY DEF Inv, TypeOK, Handler
    <2> QED
      BY <1>2, <2>2, <2>3, StaysRightful
  <1>7. HandlersRightful'
    BY <1>1, <1>5, <1>6 DEF HandlersRightful
  <1> QED
    BY <1>2, <1>4, <1>7 DEF NetInv

\* The handler of an accepted message, and the clipboard it sets.
LEMMA WriteRightful ==
    ASSUME Inv, NetInv, NEW h \in handlers, HHandlerWrite(h)
    PROVE  NetInv'
  <1>1. /\ clip' = [clip EXCEPT ![h.to] = Received(h)] /\ h.at = "write"
        /\ Sets(h.to, Received(h), FALSE)
        /\ handlers' = handlers \ {h} /\ UNCHANGED <<sent, polled, jobs>>
    BY DEF HHandlerWrite, HandlerWrite
  <1>2. h.to \in Nodes /\ IsAcceptable(h)
        /\ \E k \in Keys \cup {None} : \E c \in Vocabulary[k] : h.msg = Wire(c, k)
    BY <1>1 DEF Inv, TypeOK, Handler, KeyInv, HandlersOfKey
  <1>3. Received(h) \in Content
    BY <1>2, AcceptedOfKey
  <1>4. SeenOK' /\ Grows /\ ReadSeen'
    BY <1>1, <1>2, <1>3, SetsSeen DEF NetInv
  <1>5. JobsRightful' /\ HandlersRightful'
    BY <1>1, <1>4, JobsStay, HandlersStay DEF NetInv, Inv, TypeOK
  <1> QED
    BY <1>4, <1>5 DEF NetInv

LEMMA CopyRightful ==
    ASSUME Inv, NetInv, NEW n \in Users, NEW c \in Vocabulary[Key[n]], HCopy(n, c)
    PROVE  NetInv'
  <1>1. n \in Nodes /\ c \in Content
    BY VocabularyType, DaemonAssumption
  <1>2. /\ clip' = [clip EXCEPT ![n] = c] /\ Sets(n, c, TRUE)
        /\ UNCHANGED <<sent, polled, jobs, handlers>>
    BY DEF HCopy, Copy
  <1>3. SeenOK' /\ Grows /\ ReadSeen'
    BY <1>1, <1>2, SetsSeen DEF NetInv
  <1>4. JobsRightful' /\ HandlersRightful'
    BY <1>2, <1>3, JobsStay, HandlersStay DEF NetInv, Inv, TypeOK
  <1> QED
    BY <1>3, <1>4 DEF NetInv

\* The steps of sender tasks and handlers that start and set nothing.
LEMMA TasksRightful ==
    ASSUME Inv, NetInv, UNCHANGED <<seen, sent, clip, polled>>,
           \/ UNCHANGED jobs
           \/ \E J \in SUBSET jobs : jobs' = Failed(J)
           \/ jobs' \subseteq jobs,
           \/ handlers' \subseteq handlers
           \/ \E h \in handlers : \E stage \in {"store", "write"} : handlers' = Step(h, stage)
    PROVE  NetInv'
  <1>1. jobs \subseteq Job /\ handlers \subseteq Handler
    BY DEF Inv, TypeOK
  <1>2. \A j \in jobs' : \E i \in jobs :
            j.from = i.from /\ j.to = i.to /\ j.content = i.content /\ j.key = i.key
    BY <1>1, SendersCarry
  <1>3. \A g \in handlers' : \E f \in handlers :
            g.from = f.from /\ g.to = f.to /\ g.msg = f.msg
    BY <1>1, HandlersCarry
  <1>4. \A n \in Nodes : Readable(n)' = Readable(n) /\ polled'[n] = polled[n]
    BY DEF Readable
  <1> QED
    BY <1>2, <1>3, <1>4, NothingNew

LEMMA NetInvNext == Inv /\ NetInv /\ [HNext]_hvars => NetInv'
  <1> SUFFICES ASSUME Inv, NetInv, [HNext]_hvars PROVE NetInv'
    OBVIOUS
  <1>1. ASSUME NEW n \in Nodes, HPollRead(n)
        PROVE  NetInv'
    <2>1. /\ polled' = [polled EXCEPT ![n] = Readable(n)]
          /\ UNCHANGED <<seen, sent, clip, jobs, handlers>>
      BY <1>1 DEF HPollRead, PollRead
    <2>2. \A m \in Nodes : Readable(m)' = Readable(m)
                           /\ polled'[m] \in {polled[m], Readable(m), None}
      BY <2>1 DEF Readable, Inv, TypeOK
    <2> QED
      BY <2>1, <2>2, NothingNew
  <1>2. ASSUME NEW n \in Nodes, HPollBroadcast(n)
        PROVE  NetInv'
    BY <1>2, BroadcastRightful
  <1>3. ASSUME NEW n \in Nodes, HStart(n)
        PROVE  NetInv'
    BY <1>3, TasksRightful DEF HStart, Start
  <1>4. ASSUME NEW h \in handlers, HHandlerStore(h)
        PROVE  NetInv'
    BY <1>4, TasksRightful DEF HHandlerStore, HandlerStore
  <1>5. ASSUME NEW h \in handlers, HHandlerWrite(h)
        PROVE  NetInv'
    BY <1>5, WriteRightful
  <1>6. ASSUME NEW n \in Users, NEW c \in Vocabulary[Key[n]], HCopy(n, c)
        PROVE  NetInv'
    BY <1>6, CopyRightful
  <1>7. ASSUME NEW p \in Nodes, NEW k \in Keys \cup {None}, NEW c \in Vocabulary[k],
               HCliSend(p, c, k)
        PROVE  NetInv'
    BY <1>7, CliSendRightful
  <1>8. ASSUME Unrecorded, UNCHANGED history
        PROVE  NetInv'
    <2>1. UNCHANGED <<seen, sent>>
      BY <1>8 DEF history
    <2>2. ASSUME NEW n \in Nodes, PollUnchanged(n) \/ PollSkip(n)
          PROVE  NetInv'
      <3>1. polled' = [polled EXCEPT ![n] = None] /\ UNCHANGED <<clip, jobs, handlers>>
        BY <2>2 DEF PollUnchanged, PollSkip
      <3>2. \A m \in Nodes : Readable(m)' = Readable(m) /\ polled'[m] \in {polled[m], None}
        BY <3>1 DEF Readable, Inv, TypeOK
      <3> QED
        BY <2>1, <3>1, <3>2, NothingNew
    <2>3. ASSUME NEW n \in Nodes, CooldownElapses(n)
          PROVE  NetInv'
      BY <2>1, <2>3, TasksRightful DEF CooldownElapses
    <2>4. ASSUME NEW n \in Nodes, Crash(n)
          PROVE  NetInv'
      <3>1. /\ polled' = [polled EXCEPT ![n] = None]
            /\ clip' = clip \/ clip' = [clip EXCEPT ![n] = None]
            /\ jobs' \subseteq jobs /\ handlers' \subseteq handlers
        BY <2>4 DEF Crash
      <3>2. \A m \in Nodes : /\ Readable(m)' \in {Readable(m), None}
                             /\ polled'[m] \in {polled[m], None}
        BY <3>1, ReadNone DEF Readable, Inv, TypeOK
      <3> QED
        BY <2>1, <3>1, <3>2, NothingNew
    <2>5. ASSUME NEW j \in jobs, Sending(j)
          PROVE  NetInv'
      <3>1. CASE Accept(j)
        BY <1>8, <3>1, AcceptRightful
      <3>2. CASE Refused(j) \/ Unreachable(j) \/ PeerGone(j)
        BY <2>1, <3>2, TasksRightful DEF Refused, Unreachable, PeerGone
      <3> QED
        BY <2>5, <3>1, <3>2 DEF Sending
    <2>6. ASSUME NEW h \in handlers,
                 Reply(h) \/ Reject(h) \/ Break(h) \/ Silence(h) \/ HandlerWriteFails(h)
          PROVE  NetInv'
      <3>1. Awaiting(h) \in SUBSET jobs
        BY DEF Awaiting
      <3>2. /\ UNCHANGED <<clip, polled>>
            /\ UNCHANGED jobs \/ jobs' = Failed(Awaiting(h)) \/ jobs' = jobs \ Awaiting(h)
            /\ \/ handlers' = Step(h, "store") \/ handlers' = handlers \ {h}
               \/ UNCHANGED handlers
        BY <2>6 DEF Reply, Reject, Break, Silence, HandlerWriteFails
      <3> QED
        BY <2>1, <3>1, <3>2, TasksRightful
    <2> QED
      BY <1>8, <2>2, <2>3, <2>4, <2>5, <2>6 DEF Unrecorded
  <1>9. CASE UNCHANGED hvars
    <2>1. UNCHANGED <<seen, sent, clip, polled, jobs, handlers>>
      BY <1>9 DEF hvars, vars, history
    <2> QED
      BY <2>1, TasksRightful
  <1> QED
    BY <1>1, <1>2, <1>3, <1>4, <1>5, <1>6, <1>7, <1>8, <1>9 DEF HNext

-----------------------------------------------------------------------------
(* Every step of the daemons is one of the abstract network, or none.      *)

\* The abstract network reads clipboards as the daemons do.
LEMMA NetReads == \A b, sel : Net!read_content(b, sel) = read_content(b, sel)
  BY DEF Net!read_content, Net!read_image, Net!read_text, Net!linux_read_text,
         Net!windows_read_text, Net!wsl_read_text, Net!has_image, Net!LinuxBackends,
         Net!Text, Net!Image,
         read_content, read_image, read_text, linux_read_text, windows_read_text,
         wsl_read_text, has_image, LinuxBackends, Text, Image

LEMMA SetsShows ==
    ASSUME NEW n, NEW c, NEW byUser, Sets(n, c, byUser), clip' = [clip EXCEPT ![n] = c]
    PROVE  Net!Shows(n, c)
  BY NetReads DEF Sets, Net!Shows

LEMMA WriteArrives ==
    ASSUME Inv, NetInv, NEW h \in handlers, HHandlerWrite(h)
    PROVE  \E n \in Nodes : Net!Arrives(n)
  <1>1. h.to \in Nodes /\ h.from \in Senders /\ h.at = "write" /\ IsAcceptable(h)
    BY DEF HHandlerWrite, HandlerWrite, Inv, TypeOK, Handler, KeyInv, HandlersOfKey
  <1>2. PICK k \in Keys \cup {None} : \E c \in Vocabulary[k] :
            h.msg = Wire(c, k) /\ Rightful(h.from, h.to, c, k)
    BY DEF NetInv, HandlersRightful
  <1>3. PICK c \in Vocabulary[k] : h.msg = Wire(c, k) /\ Rightful(h.from, h.to, c, k)
    BY <1>2
  <1>4. k = Key[h.to] /\ Received(h) = c
    BY <1>1, <1>3, AcceptedIsSent
  <1>5. c \in Net!CanArrive(h.to)
    <2>1. CASE h.from \in Nodes
      <3>1. h.from \in Net!Sources(h.to) /\ c \in seen[h.from]
        BY <1>3, <1>4, <2>1 DEF Rightful, Net!Sources
      <3> QED
        BY <3>1 DEF Net!CanArrive
    <2>2. CASE h.from = Cli
      BY <1>3, <1>4, <2>2 DEF Rightful, Net!CanArrive
    <2> QED
      BY <1>1, <2>1, <2>2 DEF Senders
  <1>6. Net!Shows(h.to, c) /\ UNCHANGED <<copied, sent>>
    BY <1>4, SetsShows DEF HHandlerWrite, HandlerWrite
  <1> QED
    BY <1>1, <1>5, <1>6 DEF Net!Arrives

LEMMA NetStep == Inv /\ NetInv /\ [HNext]_hvars => [Net!NetNext]_(Net!netVars)
  <1> SUFFICES ASSUME Inv, NetInv, [HNext]_hvars
               PROVE  Net!NetNext \/ UNCHANGED <<clip, seen, copied, sent>>
    BY DEF Net!netVars
  <1>1. ASSUME NEW n \in Nodes, HPollRead(n) \/ HPollBroadcast(n) \/ HStart(n)
        PROVE  UNCHANGED <<clip, seen, copied, sent>>
    BY <1>1 DEF HPollRead, PollRead, HPollBroadcast, PollBroadcast, HStart, Start
  <1>2. ASSUME NEW h \in handlers, HHandlerStore(h)
        PROVE  UNCHANGED <<clip, seen, copied, sent>>
    BY <1>2 DEF HHandlerStore, HandlerStore
  <1>3. ASSUME NEW h \in handlers, HHandlerWrite(h)
        PROVE  Net!NetNext
    BY <1>3, WriteArrives DEF Net!NetNext
  <1>4. ASSUME NEW n \in Users, NEW c \in Vocabulary[Key[n]], HCopy(n, c)
        PROVE  Net!NetNext
    <2>1. Net!Shows(n, c) /\ copied' = [copied EXCEPT ![n] = @ \cup {c}] /\ UNCHANGED sent
      BY <1>4, SetsShows DEF HCopy, Copy
    <2> QED
      BY <2>1, DaemonAssumption DEF Net!UserCopies, Net!NetNext
  <1>5. ASSUME NEW p \in Nodes, NEW k \in Keys \cup {None}, NEW c \in Vocabulary[k],
               HCliSend(p, c, k)
        PROVE  Net!NetNext \/ UNCHANGED <<clip, seen, copied, sent>>
    <2>1. /\ UNCHANGED <<clip, seen, copied>>
          /\ sent' = [sent EXCEPT ![p] = sent[p] \cup IF k = Key[p] THEN {c} ELSE {}]
      BY <1>5 DEF HCliSend, CliSend
    <2>2. CASE k = Key[p]
      BY <2>1, <2>2 DEF Net!UserSends, Net!NetNext
    <2>3. CASE k # Key[p]
      BY <2>1, <2>3 DEF NetInv, SeenOK
    <2> QED
      BY <2>2, <2>3
  <1>6. ASSUME Unrecorded, UNCHANGED history
        PROVE  Net!NetNext \/ UNCHANGED <<clip, seen, copied, sent>>
    <2>1. UNCHANGED <<seen, copied, sent>>
      BY <1>6 DEF history
    <2>2. ASSUME NEW n \in Nodes, Crash(n)
          PROVE  Net!NetNext \/ UNCHANGED clip
      BY <2>1, <2>2 DEF Crash, Net!Loses, Net!NetNext
    <2>3. ASSUME NEW n \in Nodes, PollUnchanged(n) \/ PollSkip(n) \/ CooldownElapses(n)
          PROVE  UNCHANGED clip
      BY <2>3 DEF PollUnchanged, PollSkip, CooldownElapses
    <2>4. ASSUME NEW j \in jobs, Sending(j)
          PROVE  UNCHANGED clip
      BY <2>4 DEF Sending, Accept, Refused, Unreachable, PeerGone
    <2>5. ASSUME NEW h \in handlers,
                 Reply(h) \/ Reject(h) \/ Break(h) \/ Silence(h) \/ HandlerWriteFails(h)
          PROVE  UNCHANGED clip
      BY <2>5 DEF Reply, Reject, Break, Silence, HandlerWriteFails
    <2> QED
      BY <1>6, <2>1, <2>2, <2>3, <2>4, <2>5 DEF Unrecorded
  <1>7. CASE UNCHANGED hvars
    BY <1>7 DEF hvars, vars, history
  <1> QED
    BY <1>1, <1>2, <1>3, <1>4, <1>5, <1>6, <1>7 DEF HNext

\* The daemons implement the abstract network, whatever the interleaving of
\* their tasks and the faults: a clipboard changes only by its user, by a loss,
\* or to what a host with the same key that lists this one has had on its own
\* clipboard, or what a command line user with the key has sent here.
THEOREM RefinesNet == HSpec => NetRefinement
  <1>1. HInit => Net!NetInit
    BY DEF HInit, Init, Net!NetInit
  <1> QED
    BY <1>1, InvAlways, NetInvInit, NetInvNext, NetStep, PTL
    DEF HSpec, NetRefinement, Net!NetSpec

-----------------------------------------------------------------------------
(* Types of the history variables.                                         *)

ObservedOK ==
    /\ sends \in Nat
    /\ stores \in Nat
    /\ mine \in [Nodes -> BOOLEAN]
    /\ minePolled \in [Nodes -> BOOLEAN]
    /\ copied \in [Nodes -> SUBSET Content]
    /\ known \in [Nodes -> SUBSET Hashes]

\* What a handler stores, and what a poll has read, has a hash.
LEMMA KnowsType ==
    ASSUME known \in [Nodes -> SUBSET Hashes], NEW n \in Nodes, NEW c \in Content,
           Knows(n, c)
    PROVE  known' \in [Nodes -> SUBSET Hashes]
  BY HashType DEF Knows

LEMMA ObservedNext == Inv /\ ObservedOK /\ [HNext]_hvars => ObservedOK'
  <1> SUFFICES ASSUME Inv, ObservedOK, [HNext]_hvars
               PROVE  ObservedOK'
    OBVIOUS
  <1> USE DEF ObservedOK
  <1>1. ASSUME NEW n \in Nodes, HPollRead(n) \/ HPollBroadcast(n) \/ HStart(n)
        PROVE  ObservedOK'
    <2>1. CASE HPollRead(n)
      <3>1. mine[n] \in BOOLEAN
        OBVIOUS
      <3>2. /\ minePolled' = [minePolled EXCEPT ![n] = mine[n]]
            /\ UNCHANGED <<sends, stores, mine, copied, known>>
        BY <2>1 DEF HPollRead
      <3> QED
        BY <3>1, <3>2
    <2>2. CASE HPollBroadcast(n)
      <3>1. Cardinality(Peers[n]) \in Nat
        BY DaemonAssumption, FS_CardinalityType
      <3>2. polled[n] \in Content
        BY <2>2 DEF HPollBroadcast, PollBroadcast, Inv, TypeOK, Selection
      <3>3. known' \in [Nodes -> SUBSET Hashes]
        BY <2>2, <3>2, KnowsType DEF HPollBroadcast
      <3> QED
        BY <2>2, <3>1, <3>3 DEF HPollBroadcast
    <2>3. CASE HStart(n)
      BY <2>3 DEF HStart
    <2> QED
      BY <1>1, <2>1, <2>2, <2>3
  <1>2. ASSUME NEW h \in handlers, HHandlerStore(h) \/ HHandlerWrite(h)
        PROVE  ObservedOK'
    <2>1. CASE HHandlerStore(h)
      <3>1. h.to \in Nodes /\ Received(h) \in Content
        <4>1. h.to \in Nodes /\ h.at = "store"
          BY <2>1 DEF HHandlerStore, HandlerStore, Inv, TypeOK, Handler
        <4>2. /\ IsAcceptable(h)
              /\ \E k \in Keys \cup {None} : \E c \in Vocabulary[k] : h.msg = Wire(c, k)
          BY <4>1 DEF Inv, KeyInv, HandlersOfKey
        <4> QED
          BY <4>1, <4>2, AcceptedOfKey
      <3>2. known' \in [Nodes -> SUBSET Hashes]
        BY <2>1, <3>1, KnowsType DEF HHandlerStore
      <3> QED
        BY <2>1, <3>2 DEF HHandlerStore
    <2>2. CASE HHandlerWrite(h)
      <3>1. /\ mine' = [mine EXCEPT ![h.to] = FALSE]
            /\ UNCHANGED <<sends, stores, minePolled, copied, known>>
        BY <2>2 DEF HHandlerWrite, Sets
      <3> QED
        BY <3>1
    <2> QED
      BY <1>2, <2>1, <2>2
  <1>3. ASSUME NEW n \in Users, NEW c \in Vocabulary[Key[n]], HCopy(n, c)
        PROVE  ObservedOK'
    <2>1. n \in Nodes /\ c \in Content
      BY VocabularyType, DaemonAssumption
    <2> QED
      BY <1>3, <2>1 DEF HCopy, Sets
  <1>4. ASSUME NEW p \in Nodes, NEW k \in Keys \cup {None}, NEW c \in Vocabulary[k],
               HCliSend(p, c, k)
        PROVE  ObservedOK'
    BY <1>4 DEF HCliSend
  <1>5. CASE UNCHANGED history
    BY <1>5 DEF history
  <1> QED
    BY <1>1, <1>2, <1>3, <1>4, <1>5 DEF HNext, hvars

\* The type invariant of the daemons with history.
THEOREM HistoryTypes == HSpec => []HTypeOK
  <1>1. HInit => ObservedOK
    BY DEF HInit, ObservedOK
  <1>2. Inv /\ PaidInv /\ NetInv /\ ObservedOK => HTypeOK
    BY DEF Inv, PaidInv, CountersOK, NetInv, SeenOK, ObservedOK, HTypeOK
  <1> QED
    BY <1>1, <1>2, InvAlways, PaidInit, PaidNext, NetInvInit, NetInvNext, ObservedNext, PTL
    DEF HSpec

-----------------------------------------------------------------------------
(* What a clipboard shows comes from a host that can reach it.             *)

\* Traces(S) is all that ever shows, or can be read, in a closed group S.
Traced ==
    \A S \in SUBSET Nodes :
        Net!Closed(S) => \A n \in S : /\ clip[n] \in Net!Traces(S) \cup {None}
                                     /\ seen[n] \subseteq Net!Traces(S)

\* Contents G, and those that WSL has trimmed, are read as such again.
LEMMA ReadsOfReads ==
    ASSUME NEW G, NEW b,
           NEW c \in G \cup ({read_content("Wsl", d) : d \in G} \ {None})
    PROVE  read_content(b, c) \in G \cup {read_content("Wsl", d) : d \in G} \cup {None}
  <1> DEFINE W(d) == read_content("Wsl", d)
  <1>1. CASE c \in G
    <2>1. read_content(b, c) \in {c, W(c), None}
      BY ReadTrims
    <2> HIDE DEF W
    <2> QED
      BY <1>1, <2>1 DEF W
  <1>2. ASSUME NEW d \in G, c = W(d)
        PROVE  read_content(b, c) \in {c, None}
    BY <1>2, ReadTrims
  <1> QED
    BY <1>1, <1>2

GivenGrows == \A n \in Nodes : copied[n] \subseteq copied'[n] /\ sent[n] \subseteq sent'[n]

LEMMA TracesGrow ==
    ASSUME NEW S \in SUBSET Nodes, GivenGrows
    PROVE  /\ Net!Given(S) \subseteq Net!Given(S)'
           /\ Net!Given(S)' \subseteq Net!Traces(S)'
           /\ Net!Traces(S) \subseteq Net!Traces(S)'
  <1>1. Net!Given(S) \subseteq Net!Given(S)'
    BY DEF Net!Given, GivenGrows
  <1>2. /\ Net!Traces(S) = Net!Given(S) \cup
                {c \in {read_content("Wsl", d) : d \in Net!Given(S)} : c # None}
        /\ Net!Traces(S)' = Net!Given(S)' \cup
                {c \in {read_content("Wsl", d) : d \in Net!Given(S)'} : c # None}
    BY NetReads DEF Net!Traces
  <1> QED
    BY <1>1, <1>2

\* A clipboard that is set to a trace shows a trace, and so does what is read of it.
LEMMA ShowsTraces ==
    ASSUME HTypeOK, Traced, GivenGrows, NEW n \in Nodes, NEW c, Net!Shows(n, c),
           \A S \in SUBSET Nodes : Net!Closed(S) /\ n \in S => c \in Net!Traces(S)'
    PROVE  Traced'
  <1> SUFFICES ASSUME NEW S \in SUBSET Nodes, Net!Closed(S), NEW m \in S
               PROVE  /\ clip'[m] \in Net!Traces(S)' \cup {None}
                      /\ seen'[m] \subseteq Net!Traces(S)'
    BY DEF Traced, Net!Closed, Net!Sources
  <1>1. /\ clip[m] \in Net!Traces(S) \cup {None} /\ seen[m] \subseteq Net!Traces(S)
        /\ Net!Traces(S) \subseteq Net!Traces(S)'
    BY TracesGrow DEF Traced
  <1> DEFINE r == read_content(Backend[n], c)
  <1>2. /\ clip' = [clip EXCEPT ![n] = c]
        /\ seen' = [seen EXCEPT ![n] = seen[n] \cup ({r} \ {None})]
    BY NetReads DEF Net!Shows
  <1>3. CASE m # n
    BY <1>1, <1>2, <1>3 DEF HTypeOK, TypeOK
  <1>4. CASE m = n
    <2>1. c \in Net!Traces(S)'
      BY <1>4
    <2>2. r \in Net!Traces(S)' \cup {None}
      BY <2>1, ReadsOfReads, NetReads DEF Net!Traces
    <2>3. clip'[m] = c /\ seen'[m] = seen[m] \cup ({r} \ {None})
      BY <1>2, <1>4 DEF HTypeOK, TypeOK
    <2> HIDE DEF r
    <2> QED
      BY <1>1, <2>1, <2>2, <2>3
  <1> QED
    BY <1>3, <1>4

\* A step that shows nothing new.
LEMMA NothingShown ==
    ASSUME Traced, GivenGrows, UNCHANGED seen,
           \A n \in Nodes : clip'[n] \in {clip[n], None}
    PROVE  Traced'
  <1> SUFFICES ASSUME NEW S \in SUBSET Nodes, Net!Closed(S), NEW m \in S
               PROVE  /\ clip'[m] \in Net!Traces(S)' \cup {None}
                      /\ seen'[m] \subseteq Net!Traces(S)'
    BY DEF Traced, Net!Closed, Net!Sources
  <1>1. /\ clip[m] \in Net!Traces(S) \cup {None} /\ seen[m] \subseteq Net!Traces(S)
        /\ Net!Traces(S) \subseteq Net!Traces(S)'
    BY TracesGrow DEF Traced
  <1> QED
    BY <1>1

LEMMA TracedNext == HTypeOK /\ Traced /\ [Net!NetNext]_(Net!netVars) => Traced'
  <1> SUFFICES ASSUME HTypeOK, Traced, [Net!NetNext]_(Net!netVars)
               PROVE  Traced'
    OBVIOUS
  <1> USE DEF HTypeOK, TypeOK
  <1>1. ASSUME NEW n \in Nodes, Net!UserCopies(n)
        PROVE  Traced'
    <2>1. PICK c \in Vocabulary[Key[n]] :
                /\ Net!Shows(n, c) /\ copied' = [copied EXCEPT ![n] = @ \cup {c}]
                /\ UNCHANGED sent
      BY <1>1 DEF Net!UserCopies
    <2>2. GivenGrows /\ c \in copied'[n]
      BY <2>1 DEF GivenGrows
    <2>3. ASSUME NEW S \in SUBSET Nodes, n \in S
          PROVE  c \in Net!Traces(S)'
      <3>1. c \in Net!Given(S)'
        BY <2>2, <2>3 DEF Net!Given
      <3> QED
        BY <2>2, <3>1, TracesGrow
    <2> QED
      BY <2>1, <2>2, <2>3, ShowsTraces
  <1>2. ASSUME NEW n \in Nodes, Net!UserSends(n)
        PROVE  Traced'
    <2>1. GivenGrows /\ UNCHANGED <<clip, seen>>
      BY <1>2 DEF Net!UserSends, GivenGrows
    <2> QED
      BY <2>1, NothingShown
  <1>3. ASSUME NEW n \in Nodes, Net!Arrives(n)
        PROVE  Traced'
    <2>1. PICK c \in Net!CanArrive(n) : Net!Shows(n, c) /\ UNCHANGED <<copied, sent>>
      BY <1>3 DEF Net!Arrives
    <2>2. GivenGrows
      BY <2>1 DEF GivenGrows
    <2>3. ASSUME NEW S \in SUBSET Nodes, Net!Closed(S), n \in S
          PROVE  c \in Net!Traces(S)'
      <3>1. CASE c \in sent[n]
        <4>1. c \in Net!Given(S)
          BY <2>3, <3>1 DEF Net!Given
        <4> QED
          BY <2>2, <4>1, TracesGrow
      <3>2. ASSUME NEW m \in Net!Sources(n), c \in seen[m]
            PROVE  c \in Net!Traces(S)'
        <4>1. m \in S
          BY <2>3 DEF Net!Closed
        <4>2. c \in Net!Traces(S)
          BY <2>3, <3>2, <4>1 DEF Traced
        <4> QED
          BY <2>2, <4>2, TracesGrow
      <3> QED
        BY <2>1, <3>1, <3>2 DEF Net!CanArrive
    <2> QED
      BY <2>1, <2>2, <2>3, ShowsTraces
  <1>4. ASSUME NEW n \in Nodes, Net!Loses(n)
        PROVE  Traced'
    <2>1. /\ GivenGrows /\ UNCHANGED seen
          /\ \A m \in Nodes : clip'[m] \in {clip[m], None}
      BY <1>4 DEF Net!Loses, GivenGrows
    <2> QED
      BY <2>1, NothingShown
  <1>5. CASE UNCHANGED Net!netVars
    <2>1. GivenGrows /\ UNCHANGED <<clip, seen>>
      BY <1>5 DEF Net!netVars, GivenGrows
    <2> QED
      BY <2>1, NothingShown
  <1> QED
    BY <1>1, <1>2, <1>3, <1>4, <1>5 DEF Net!NetNext

\* WHERE CONTENT COMES FROM, for every network of any size, by the refinement: what
\* a clipboard shows was copied by a user, or sent with its key, at a host of any
\* group that no host outside can send to (broadcast_content, handle_connection).
THEOREM ContentHasOrigin == HSpec => []ProvenanceHolds
  <1>1. HInit => Net!NetInit
    BY DEF HInit, Init, Net!NetInit
  <1>2. Net!NetInit => Traced
    BY DEF Net!NetInit, Traced
  <1>3. Traced => ProvenanceHolds
    BY DEF Traced, ProvenanceHolds, Net!Provenance
  <1> QED
    BY <1>1, <1>2, <1>3, HistoryTypes, InvAlways, NetInvInit, NetInvNext, NetStep, TracedNext,
       PTL DEF HSpec

-----------------------------------------------------------------------------
(* What a poll drops is known.                                             *)

\* The hashes that polls are compared with were broadcast or stored.
StateKnown ==
    \A n \in Nodes : /\ last_content_hash[n] \in known[n] \cup {None}
                     /\ last_received_hash[n] \in known[n] \cup {None}

LEMMA StateKnownStays ==
    ASSUME StateKnown, UNCHANGED <<last_content_hash, last_received_hash>>,
           \A n \in Nodes : known[n] \subseteq known'[n]
    PROVE  StateKnown'
  BY DEF StateKnown

LEMMA StateKnownNext == HTypeOK /\ StateKnown /\ [HNext]_hvars => StateKnown'
  <1> SUFFICES ASSUME HTypeOK, StateKnown, [HNext]_hvars
               PROVE  StateKnown'
    OBVIOUS
  <1>1. ASSUME NEW n \in Nodes, HPollRead(n) \/ HPollBroadcast(n) \/ HStart(n)
        PROVE  StateKnown'
    <2>1. CASE HPollRead(n)
      BY <2>1, StateKnownStays DEF HPollRead, PollRead, state
    <2>2. CASE HPollBroadcast(n)
      BY <2>2 DEF HPollBroadcast, PollBroadcast, Knows, StateKnown, HTypeOK, TypeOK
    <2>3. CASE HStart(n)
      BY <2>3 DEF HStart, Start, StateKnown, HTypeOK, TypeOK
    <2> QED
      BY <1>1, <2>1, <2>2, <2>3
  <1>2. ASSUME NEW h \in handlers, HHandlerStore(h)
        PROVE  StateKnown'
    BY <1>2 DEF HHandlerStore, HandlerStore, Knows, StateKnown, HTypeOK, TypeOK, Handler
  <1>3. ASSUME NEW h \in handlers, HHandlerWrite(h)
        PROVE  StateKnown'
    BY <1>3, StateKnownStays DEF HHandlerWrite, HandlerWrite, state
  <1>4. ASSUME NEW n, NEW c, HCopy(n, c)
        PROVE  StateKnown'
    BY <1>4, StateKnownStays DEF HCopy, Copy, state
  <1>5. ASSUME NEW p, NEW k, NEW c, HCliSend(p, c, k)
        PROVE  StateKnown'
    BY <1>5, StateKnownStays DEF HCliSend, CliSend, state
  <1>6. ASSUME Unrecorded, UNCHANGED history
        PROVE  StateKnown'
    <2>1. UNCHANGED known
      BY <1>6 DEF history
    <2>2. ASSUME NEW n \in Nodes, PollUnchanged(n) \/ CooldownElapses(n) \/ Crash(n)
          PROVE  StateKnown'
      BY <2>1, <2>2, StateKnownStays DEF PollUnchanged, CooldownElapses, Crash, state
    <2>3. ASSUME NEW n \in Nodes, PollSkip(n)
          PROVE  StateKnown'
      BY <2>1, <2>3 DEF PollSkip, IsRecentlyReceived, StateKnown, HTypeOK, TypeOK
    <2>4. ASSUME NEW j \in jobs, Sending(j)
          PROVE  StateKnown'
      BY <2>1, <2>4, StateKnownStays
      DEF Sending, Accept, Refused, Unreachable, PeerGone, state
    <2>5. ASSUME NEW h \in handlers,
                 Reply(h) \/ Reject(h) \/ Break(h) \/ Silence(h) \/ HandlerWriteFails(h)
          PROVE  StateKnown'
      BY <2>1, <2>5, StateKnownStays DEF Reply, Reject, Break, Silence, HandlerWriteFails, state
    <2> QED
      BY <1>6, <2>2, <2>3, <2>4, <2>5 DEF Unrecorded
  <1>7. CASE UNCHANGED hvars
    BY <1>7, StateKnownStays DEF hvars, vars, state, history
  <1> QED
    BY <1>1, <1>2, <1>3, <1>4, <1>5, <1>6, <1>7 DEF HNext

LEMMA DropKnown ==
    ASSUME HTypeOK, StateKnown, NEW n \in Nodes, PollUnchanged(n) \/ PollSkip(n)
    PROVE  hash_content(polled[n]) \in known[n]
  <1>1. polled[n] \in Content
    BY DEF PollUnchanged, PollSkip, HTypeOK, TypeOK, Selection
  <1>2. hash_content(polled[n]) # None
    BY <1>1, HashType, HashAssumption
  <1> QED
    BY <1>2 DEF PollUnchanged, PollSkip, IsUnchanged, IsRecentlyReceived, StateKnown

\* WHAT A POLL DROPS IS KNOWN, whatever else runs: a clipboard change that
\* poll_clipboard does not broadcast is a content this daemon has broadcast or
\* stored since it started.
THEOREM DropsKnown == HSpec => DropsOnlyKnown
  <1>1. HInit => StateKnown
    BY DEF HInit, Init, StateKnown
  <1>2. HTypeOK /\ StateKnown =>
            \A n \in Nodes : PollUnchanged(n) \/ PollSkip(n) => hash_content(polled[n]) \in known[n]
    BY DropKnown
  <1> QED
    BY <1>1, <1>2, HistoryTypes, StateKnownNext, PTL DEF HSpec, DropsOnlyKnown
=============================================================================
