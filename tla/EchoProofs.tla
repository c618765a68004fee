-------------------------------- MODULE EchoProofs --------------------------------
(***************************************************************************)
(* The loop prevention works as long as a handler's two writes are not     *)
(* disturbed, on hosts that show what is written to them and do not stop.  *)
(***************************************************************************)
EXTENDS NetProofs

\* Backends that read back what they write, no failing writes, no restarts: after
\* each of those a daemon may broadcast what it has received.
Steady ==
    /\ \A n \in Nodes : Backend[n] \in LinuxBackends
    /\ Budget["write"] = 0 /\ Budget["crash"] = 0

\* What a poll has read of somebody else's content is processed already ...
PolledProcessed ==
    \A n \in Nodes :
        polled[n] # None =>
            IF minePolled[n] THEN mine[n] ELSE hash_content(polled[n]) = last_content_hash[n]

\* ... because a clipboard that the user did not set shows what is processed, ...
ShownProcessed ==
    \A n \in Nodes :
        /\ ~mine[n]
        /\ \A h \in handlers : h.to = n => h.at # "write"
        => Readable(n) = None \/ hash_content(Readable(n)) = last_content_hash[n]

\* ... and shows it as soon as the handler that stored it has written it.
StoredComes ==
    \A h \in handlers :
        h.at = "write" => last_content_hash[h.to] = hash_content(Received(h))

AllUndisturbed == \A n \in Nodes : Undisturbed(n)

Alive == \A n \in Nodes : up[n]

EchoInv == PolledProcessed /\ ShownProcessed /\ StoredComes /\ AllUndisturbed /\ Alive

SerialNext == HNext /\ \A n \in Nodes : Undisturbed(n)'

-----------------------------------------------------------------------------
LEMMA LinuxReads ==
    ASSUME Steady, NEW n \in Nodes, NEW c
    PROVE  read_content(Backend[n], c) \in {c, None}
  BY DEF Steady, read_content, read_image, read_text, linux_read_text, has_image

LEMMA EchoInit == HInit => EchoInv
  <1> SUFFICES ASSUME HInit
               PROVE  EchoInv
    OBVIOUS
  <1>1. \A n \in Nodes : Readable(n) = None /\ polled[n] = None /\ up[n]
    BY ReadNone DEF HInit, Init, Readable
  <1>2. handlers = {}
    BY DEF HInit, Init
  <1> QED
    BY <1>1, <1>2
    DEF EchoInv, PolledProcessed, ShownProcessed, StoredComes, AllUndisturbed, Undisturbed, Alive

\* A step that touches neither clipboards nor the state: polls end, handlers end or
\* go on to store.
LEMMA EchoKept ==
    ASSUME EchoInv, AllUndisturbed',
           UNCHANGED <<up, clip, last_content_hash, mine, minePolled>>,
           \A n \in Nodes : polled'[n] \in {polled[n], None},
           \A g \in handlers' : g.at = "write" => g \in handlers,
           \A h \in handlers : h.at = "write" => h \in handlers'
    PROVE  EchoInv'
  <1>1. PolledProcessed'
    BY DEF EchoInv, PolledProcessed
  <1>2. ShownProcessed'
    BY DEF EchoInv, ShownProcessed, Readable
  <1>3. StoredComes'
    BY DEF EchoInv, StoredComes, Received
  <1> QED
    BY <1>1, <1>2, <1>3 DEF EchoInv, Alive

\* The processing of what was read leaves the state as it is, or broadcasts what the
\* user has copied.
LEMMA ProcessedEcho ==
    ASSUME HTypeOK, EchoInv, AllUndisturbed', NEW n \in Nodes,
           PollSkip(n) \/ PollBroadcast(n), UNCHANGED <<mine, minePolled>>
    PROVE  EchoInv' /\ minePolled[n]
  <1>1. /\ polled[n] # None /\ hash_content(polled[n]) # last_content_hash[n]
        /\ polled' = [polled EXCEPT ![n] = None]
        /\ last_content_hash' = [last_content_hash EXCEPT ![n] = hash_content(polled[n])]
        /\ UNCHANGED <<up, clip, handlers>>
    BY DEF PollSkip, PollBroadcast, IsUnchanged
  <1>2. minePolled[n] /\ mine[n]
    BY <1>1 DEF EchoInv, PolledProcessed
  <1>3. last_content_hash \in [Nodes -> Hashes \cup {None}] /\ polled \in [Nodes -> Selection]
    BY DEF HTypeOK, TypeOK
  <1>4. PolledProcessed'
    BY <1>1, <1>3 DEF EchoInv, PolledProcessed
  <1>5. ShownProcessed'
    BY <1>1, <1>2, <1>3 DEF EchoInv, ShownProcessed, Readable
  <1>6. StoredComes'
    <2>1. \A h \in handlers : h.to = n => h.at = "read"
      BY <1>1 DEF EchoInv, AllUndisturbed, Undisturbed
    <2> QED
      BY <1>1, <1>3, <2>1 DEF EchoInv, StoredComes, Received
  <1> QED
    BY <1>1, <1>2, <1>4, <1>5, <1>6 DEF EchoInv, Alive

LEMMA StoreEcho ==
    ASSUME HTypeOK, EchoInv, AllUndisturbed', NEW h \in handlers, HHandlerStore(h)
    PROVE  EchoInv'
  <1>1. /\ h.at = "store" /\ handlers' = Step(h, "write")
        /\ last_content_hash' = [last_content_hash EXCEPT ![h.to] = hash_content(Received(h))]
        /\ UNCHANGED <<up, clip, polled, mine, minePolled>>
    BY DEF HHandlerStore, HandlerStore
  <1>2. handlers \subseteq Handler /\ last_content_hash \in [Nodes -> Hashes \cup {None}]
    BY DEF HTypeOK, TypeOK
  <1> DEFINE g == [h EXCEPT !.at = "write"]
  <1>3. g.at = "write" /\ g.to = h.to /\ g.msg = h.msg /\ h.to \in Nodes
    BY <1>2 DEF Handler
  <1>4. handlers' = (handlers \ {h}) \cup {g}
    BY <1>1 DEF Step
  <1> HIDE DEF g
  <1>5. polled[h.to] = None
    BY <1>1, <1>3 DEF EchoInv, AllUndisturbed, Undisturbed
  <1>6. PolledProcessed'
    BY <1>1, <1>2, <1>5 DEF EchoInv, PolledProcessed
  <1>7. ShownProcessed'
    <2>1. ASSUME NEW m \in Nodes, ~mine[m], \A f \in handlers' : f.to = m => f.at # "write"
          PROVE  /\ m # h.to
                 /\ \A f \in handlers : f.to = m => f.at # "write"
      BY <1>1, <1>3, <1>4, <2>1
    <2> QED
      BY <1>1, <1>2, <2>1 DEF EchoInv, ShownProcessed, Readable
  <1>8. StoredComes'
    <2>1. ASSUME NEW f \in handlers, f.at = "write"
          PROVE  f.to # h.to
      BY <1>1, <1>3, <2>1 DEF EchoInv, AllUndisturbed, Undisturbed
    <2>2. last_content_hash'[h.to] = hash_content(Received(h))
      BY <1>1, <1>2, <1>3
    <2>3. Received(g) = Received(h)
      BY <1>3 DEF Received
    <2>4. ASSUME NEW f \in handlers, f.at = "write"
          PROVE  last_content_hash'[f.to] = hash_content(Received(f))
      BY <1>1, <1>2, <2>1, <2>4 DEF EchoInv, StoredComes
    <2> QED
      BY <1>3, <1>4, <2>2, <2>3, <2>4 DEF StoredComes, Received
  <1> QED
    BY <1>1, <1>6, <1>7, <1>8 DEF EchoInv, Alive

LEMMA WriteEcho ==
    ASSUME Steady, HTypeOK, EchoInv, AllUndisturbed', NEW h \in handlers, HHandlerWrite(h)
    PROVE  EchoInv'
  <1>1. /\ h.at = "write" /\ handlers' = handlers \ {h}
        /\ clip' = [clip EXCEPT ![h.to] = Received(h)]
        /\ mine' = [mine EXCEPT ![h.to] = FALSE]
        /\ UNCHANGED <<up, last_content_hash, polled, minePolled>>
    BY DEF HHandlerWrite, HandlerWrite, Sets, state
  <1>2. /\ clip \in [Nodes -> Selection] /\ mine \in [Nodes -> BOOLEAN]
        /\ h.to \in Nodes
    BY DEF HTypeOK, TypeOK, Handler
  <1>3. polled[h.to] = None
    BY <1>1, <1>2 DEF EchoInv, AllUndisturbed, Undisturbed
  <1>4. PolledProcessed'
    BY <1>1, <1>2, <1>3 DEF EchoInv, PolledProcessed
  <1>5. StoredComes'
    BY <1>1 DEF EchoInv, StoredComes, Received
  <1>6. ShownProcessed'
    <2>1. Readable(h.to)' \in {Received(h), None}
      BY <1>1, <1>2, LinuxReads DEF Readable
    <2>2. last_content_hash[h.to] = hash_content(Received(h))
      BY <1>1 DEF EchoInv, StoredComes
    <2>3. ASSUME NEW m \in Nodes, m # h.to
          PROVE  /\ Readable(m)' = Readable(m) /\ mine'[m] = mine[m]
                 /\ (\A f \in handlers' : f.to = m => f.at # "write")
                        => \A f \in handlers : f.to = m => f.at # "write"
      BY <1>1, <1>2, <2>3 DEF Readable
    <2> QED
      BY <1>1, <2>1, <2>2, <2>3 DEF EchoInv, ShownProcessed
  <1> QED
    BY <1>1, <1>4, <1>5, <1>6 DEF EchoInv, Alive

LEMMA CopyEcho ==
    ASSUME HTypeOK, EchoInv, AllUndisturbed', NEW n \in Nodes, NEW c, HCopy(n, c)
    PROVE  EchoInv'
  <1>1. /\ clip' = [clip EXCEPT ![n] = c] /\ mine' = [mine EXCEPT ![n] = TRUE]
        /\ UNCHANGED <<up, last_content_hash, polled, minePolled, handlers>>
    BY DEF HCopy, Copy, Sets, state
  <1>2. clip \in [Nodes -> Selection] /\ mine \in [Nodes -> BOOLEAN]
    BY DEF HTypeOK, TypeOK
  <1>3. PolledProcessed'
    BY <1>1, <1>2 DEF EchoInv, PolledProcessed
  <1>4. StoredComes'
    BY <1>1 DEF EchoInv, StoredComes, Received
  <1>5. ShownProcessed'
    BY <1>1, <1>2 DEF EchoInv, ShownProcessed, Readable
  <1> QED
    BY <1>1, <1>3, <1>4, <1>5 DEF EchoInv, Alive

LEMMA ReadEcho ==
    ASSUME HTypeOK, EchoInv, AllUndisturbed', NEW n \in Nodes, HPollRead(n)
    PROVE  EchoInv'
  <1>1. /\ polled' = [polled EXCEPT ![n] = Readable(n)] /\ Readable(n) # None
        /\ minePolled' = [minePolled EXCEPT ![n] = mine[n]]
        /\ UNCHANGED <<up, clip, last_content_hash, mine, handlers>>
    BY DEF HPollRead, PollRead, state
  <1>2. /\ polled \in [Nodes -> Selection] /\ minePolled \in [Nodes -> BOOLEAN]
    BY DEF HTypeOK, TypeOK
  <1>3. \A h \in handlers : h.to = n => h.at = "read"
    BY <1>1, <1>2 DEF AllUndisturbed, Undisturbed
  <1>4. ~mine[n] => hash_content(Readable(n)) = last_content_hash[n]
    BY <1>1, <1>3 DEF EchoInv, ShownProcessed
  <1>5. PolledProcessed'
    BY <1>1, <1>2, <1>4 DEF EchoInv, PolledProcessed
  <1>6. StoredComes'
    BY <1>1 DEF EchoInv, StoredComes, Received
  <1>7. ShownProcessed'
    BY <1>1 DEF EchoInv, ShownProcessed, Readable
  <1> QED
    BY <1>1, <1>5, <1>6, <1>7 DEF EchoInv, Alive

\* The steps that store and write nothing.
LEMMA UnrecordedEcho ==
    ASSUME Steady, HTypeOK, EchoInv, AllUndisturbed', Unrecorded, UNCHANGED history
    PROVE  EchoInv'
  <1>1. UNCHANGED <<mine, minePolled>>
    BY DEF history
  <1>2. handlers \subseteq Handler /\ polled \in [Nodes -> Selection] /\ spent \in [BudgetKinds -> Nat]
    BY DEF HTypeOK, TypeOK
  <1>3. ASSUME NEW n \in Nodes, PollUnchanged(n) \/ CooldownElapses(n)
        PROVE  EchoInv'
    BY <1>1, <1>2, <1>3, EchoKept DEF PollUnchanged, CooldownElapses, state
  <1>4. ASSUME NEW n \in Nodes, PollSkip(n)
        PROVE  EchoInv'
    BY <1>1, <1>4, ProcessedEcho
  <1>5. \A n \in Nodes : ~Crash(n)
    BY <1>2 DEF Crash, Spend, Steady, BudgetKinds
  <1>6. ASSUME NEW j \in jobs, Sending(j)
        PROVE  EchoInv'
    <2>1. /\ UNCHANGED <<up, clip, last_content_hash, polled>>
          /\ handlers' = handlers \/ handlers' = handlers \cup {HandlerOf(j)}
      BY <1>6 DEF Sending, Accept, Refused, Unreachable, PeerGone, state
    <2>2. HandlerOf(j).at = "read"
      BY DEF HandlerOf
    <2> QED
      BY <1>1, <2>1, <2>2, EchoKept
  <1>7. ASSUME NEW h \in handlers, Reply(h) \/ Reject(h) \/ Break(h)
        PROVE  EchoInv'
    <2>1. /\ UNCHANGED <<up, clip, last_content_hash, polled>> /\ h.at = "read"
          /\ handlers' = handlers \ {h} \/ handlers' = Step(h, "store")
      BY <1>7 DEF Reply, Reject, Break, state
    <2>2. [h EXCEPT !.at = "store"].at = "store"
      BY <1>2 DEF Handler
    <2> QED
      BY <1>1, <2>1, <2>2, EchoKept DEF Step
  <1>8. ASSUME NEW h \in handlers, Silence(h)
        PROVE  EchoInv'
    BY <1>1, <1>8, EchoKept DEF Silence, state
  <1>9. \A h \in handlers : ~HandlerWriteFails(h)
    BY <1>2 DEF HandlerWriteFails, CanWrite, Spend, Steady, BudgetKinds, Handler
  <1> QED
    BY <1>3, <1>4, <1>5, <1>6, <1>7, <1>8, <1>9 DEF Unrecorded

LEMMA EchoNext == Steady /\ HTypeOK /\ EchoInv /\ [SerialNext]_hvars => EchoInv'
  <1> SUFFICES ASSUME Steady, HTypeOK, EchoInv, [SerialNext]_hvars
               PROVE  EchoInv'
    OBVIOUS
  <1>1. CASE UNCHANGED hvars
    <2>1. UNCHANGED <<up, clip, last_content_hash, mine, minePolled, polled, handlers>>
      BY <1>1 DEF hvars, vars, state, history
    <2>2. AllUndisturbed'
      BY <2>1 DEF EchoInv, AllUndisturbed, Undisturbed
    <2> QED
      BY <2>1, <2>2, EchoKept
  <1> SUFFICES ASSUME HNext, AllUndisturbed'
               PROVE  EchoInv'
    BY <1>1 DEF SerialNext, AllUndisturbed
  <1>2. ASSUME NEW n \in Nodes, HPollRead(n) \/ HPollBroadcast(n) \/ HStart(n)
        PROVE  EchoInv'
    <2>1. ~HStart(n)
      BY DEF HStart, Start, EchoInv, Alive
    <2>2. CASE HPollBroadcast(n)
      BY <2>2, ProcessedEcho DEF HPollBroadcast
    <2> QED
      BY <1>2, <2>1, <2>2, ReadEcho
  <1>3. ASSUME NEW h \in handlers, HHandlerStore(h) \/ HHandlerWrite(h)
        PROVE  EchoInv'
    BY <1>3, StoreEcho, WriteEcho
  <1>4. ASSUME NEW n \in Users, NEW c, HCopy(n, c)
        PROVE  EchoInv'
    BY <1>4, CopyEcho, DaemonAssumption
  <1>5. ASSUME NEW p, NEW k, NEW c, HCliSend(p, c, k)
        PROVE  EchoInv'
    <2>1. UNCHANGED <<up, clip, last_content_hash, mine, minePolled, polled, handlers>>
      BY <1>5 DEF HCliSend, CliSend, state
    <2> QED
      BY <2>1, EchoKept
  <1>6. CASE Unrecorded /\ UNCHANGED history
    BY <1>6, UnrecordedEcho
  <1> QED
    BY <1>2, <1>3, <1>4, <1>5, <1>6 DEF HNext

\* NO ECHO, for all networks, contents, retries, cooldowns and network faults: a
\* daemon whose handlers' writes are not disturbed broadcasts only what its user has
\* copied (poll_clipboard, handle_connection).
THEOREM EchoPrevented ==
    ASSUME Steady
    PROVE  SerialSpec => NoEcho
  <1>1. SerialSpec => HSpec
    <2>1. [HNext /\ \A n \in Nodes : Undisturbed(n)']_hvars => [HNext]_hvars
      OBVIOUS
    <2> QED
      BY <2>1, PTL DEF SerialSpec, HSpec
  <1>2. HTypeOK /\ EchoInv /\ [HNext /\ \A n \in Nodes : Undisturbed(n)']_hvars => EchoInv'
    BY EchoNext DEF SerialNext
  <1>3. SerialSpec => [](HTypeOK /\ EchoInv)
    BY <1>1, <1>2, HistoryTypes, EchoInit, PTL DEF SerialSpec
  <1>4. HTypeOK /\ EchoInv /\ [HNext /\ \A n \in Nodes : Undisturbed(n)']_hvars
            => [\A n \in Nodes : PollBroadcast(n) => minePolled[n]]_hvars
    BY DEF PollBroadcast, IsUnchanged, EchoInv, PolledProcessed
  <1> QED
    BY <1>3, <1>4, PTL DEF SerialSpec, NoEcho
=============================================================================
