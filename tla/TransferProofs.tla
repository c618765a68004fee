----------------------------- MODULE TransferProofs ------------------------------
(***************************************************************************)
(* What the one-shot transfers keep for every set of senders, commands,    *)
(* contents and keys, and that they implement Handover.                    *)
(***************************************************************************)
EXTENDS Transfer, ProtocolProofs, SequenceTheorems

-----------------------------------------------------------------------------
(* The invariant.  A content is taken once because a connection is in one  *)
(* place: not made, in the backlog (once), served, or over.                *)

\* a send has made its connection
Connected(c) == stage[c] \notin {"idle", "connect"}

Senders ==
    \A c \in Clients :
        /\ stage[c] = "idle" <=> offer[c] = None
        /\ stage[c] = "ok" => reply[c] = "ack"
        /\ reply[c] = "ack" => taker[c] # None
        /\ taker[c] # None => Connected(c)
        /\ got[c] # None => taker[c] # None

Queued ==
    /\ \A i \in 1 .. Len(backlog) :
        Connected(backlog[i]) /\ taker[backlog[i]] = None /\ serving # backlog[i]
    /\ \A i, j \in 1 .. Len(backlog) : backlog[i] = backlog[j] => i = j

Served ==
    /\ serving # None => Connected(serving)
    /\ at \in {"read", "reply"} => taker[serving] = None
    /\ at \in {"reply", "deliver"} => Received(serving) # None
    /\ at = "deliver" => taker[serving] = cmd

\* what AckedIsHandled says of the acknowledged contents, said of all taken
TakenIsHandled ==
    \A c \in Clients :
        taker[c] # None =>
            \/ got[c] = offer[c]
            \/ Held = c
            \/ spent["stop"] > 0 \/ spent["write"] > 0
            \/ taker[c].text /\ offer[c].kind = "image"

TInv == Senders /\ Queued /\ Served /\ TakenIsHandled /\ KeyOpens

-----------------------------------------------------------------------------
(* Types.                                                                  *)

LEMMA CommandType ==
    ASSUME NEW m \in Commands
    PROVE  /\ m.once \in BOOLEAN /\ m.text \in BOOLEAN
           /\ m.key \in Keys \cup {None}
           /\ m # None
  BY TransferAssumption DEF Command

\* A content arrives as it was offered or not at all, and a sealed one only with
\* the key it was sealed with.
LEMMA ReceivedIsOffered ==
    ASSUME NEW c \in Clients, offer[c] \in Content, key[c] \in Keys \cup {None},
           cmd \in Commands, Received(c) # None
    PROVE  Received(c) = offer[c] /\ key[c] \in {None, cmd.key}
  <1> DEFINE x == offer[c]
             m == Wire(x, key[c])
  <1>1. x \in Content /\ cmd.key \in Keys \cup {None} /\ None \notin Keys
    BY CommandType, KeysAssumption
  <1>2. Received(c) = extract_content(m, cmd.key)
    BY DEF Received, Message
  <1>3. CASE key[c] = None
    <2>1. m = from_content(x)
      BY <1>3 DEF Wire
    <2>2. content(m) = x /\ ~is_encrypted(m)
      BY <1>1, <2>1, ClearRoundTrip
    <2> QED
      BY <1>2, <1>3, <2>2 DEF extract_content
  <1>4. CASE key[c] # None
    <2>1. key[c] \in Keys /\ m = encrypted_content(x, key[c])
      BY <1>4 DEF Wire
    <2>2. is_encrypted(m)
      BY <2>1 DEF is_encrypted, encrypted_content, encrypted
    <2>3. cmd.key \in Keys /\ Received(c) = decrypt_content(m, cmd.key)
      BY <1>1, <1>2, <2>2 DEF extract_content
    <2> QED
      BY <1>1, <2>1, <2>3, SealedRoundTrip
  <1> QED
    BY <1>3, <1>4

LEMMA ServedIsOffered ==
    ASSUME TTypeOK, Senders, Served, serving # None
    PROVE  /\ serving \in Clients /\ Connected(serving)
           /\ offer[serving] \in Content
           /\ at # "read" => /\ Received(serving) = offer[serving]
                             /\ key[serving] \in {None, cmd.key}
  <1>1. serving \in Clients /\ Connected(serving) /\ at \in Busy
    BY DEF TTypeOK, Served
  <1>2. offer[serving] \in Content
    BY <1>1 DEF TTypeOK, Senders, Connected
  <1>3. ASSUME at # "read"
        PROVE  Received(serving) # None
    BY <1>1, <1>3 DEF Served, Busy
  <1> QED
    BY <1>1, <1>2, <1>3, ReceivedIsOffered DEF TTypeOK

LEMMA SpendType ==
    ASSUME spent \in [BudgetKinds -> Nat], NEW b \in BudgetKinds, Spend(b)
    PROVE  /\ spent' \in [BudgetKinds -> Nat]
           /\ spent'[b] > 0
           /\ \A x \in BudgetKinds : spent[x] > 0 => spent'[x] > 0
  BY DEF Spend

\* What the end of a connection leaves.
LEMMA DoneEffect ==
    ASSUME TTypeOK, at \in Busy, Done
    PROVE  /\ at' \in {"off", "accept"} /\ serving' = None
           /\ closed' \subseteq Clients /\ backlog' \in {backlog, <<>>}
  BY DEF Done, Exit, NextConnection, TTypeOK, Waiting, Busy

LEMMA ExitEffect ==
    ASSUME TTypeOK, Exit
    PROVE  /\ at' = "off" /\ serving' = None
           /\ closed' \subseteq Clients /\ backlog' = <<>>
  BY DEF Exit, TTypeOK, Waiting

LEMMA TypeStep == TTypeOK /\ Senders /\ Served /\ [Next]_vars => TTypeOK'
  <1> SUFFICES ASSUME TTypeOK, Senders, Served, [Next]_vars
               PROVE  TTypeOK'
    OBVIOUS
  <1> USE DEF TTypeOK
  <1>1. ASSUME NEW c \in Clients, Sending(c)
        PROVE  TTypeOK'
    <2>1. CASE Connect(c)
      <3>1. backlog' \in Seq(Clients)
        BY <2>1, AppendProperties DEF Connect
      <3> QED
        BY <2>1, <3>1 DEF Connect, Move, wire, sender, Open
    <2>2. CASE Refused(c)
      BY <2>2 DEF Refused, Move, sender, wire, receiver, Open
    <2>3. CASE Write(c)
      BY <2>3 DEF Write, Move, sender, receiver, Open
    <2>4. CASE GetAck(c)
      BY <2>4 DEF GetAck, Move, sender, wire, receiver, Open
    <2>5. CASE GetClosed(c)
      BY <2>5 DEF GetClosed, Move, sender, wire, receiver, Open
    <2>6. CASE TcpGivesUp(c)
      BY <2>6 DEF TcpGivesUp, Move, sender, wire, receiver, Open
    <2> QED
      BY <1>1, <2>1, <2>2, <2>3, <2>4, <2>5, <2>6 DEF Sending
  <1>2. CASE Receiving
    <2>1. CASE Accept
      <3>1. Head(backlog) \in Clients /\ Tail(backlog) \in Seq(Clients)
        BY <2>1, HeadTailProperties DEF Accept
      <3> QED
        BY <2>1, <3>1, TransferAssumption DEF Accept, wire, sender, Busy
    <2>2. CASE AcceptTimeout
      <3>1. Exit
        BY <2>2 DEF AcceptTimeout
      <3> QED
        BY <2>2, <3>1, ExitEffect, EmptySeq DEF AcceptTimeout, sender, Busy
    <2>3. CASE Read
      BY <2>3 DEF Read, wire, sender, Busy
    <2>4. CASE Reply
      BY <2>4, EmptySeq DEF Reply, sender, Busy, Waiting
    <2>5. CASE ReplyFails
      <3>1. CASE cmd.once
        <4>1. Exit
          BY <2>5, <3>1 DEF ReplyFails
        <4> QED
          BY <2>5, <3>1, <4>1, ExitEffect, EmptySeq DEF ReplyFails, sender, Busy
      <3>2. CASE ~cmd.once
        BY <2>5, <3>2 DEF ReplyFails, sender, Busy
      <3> QED
        BY <3>1, <3>2
    <2>6. CASE Deliver
      <3>1. serving \in Clients /\ at \in Busy /\ Done
        BY <2>6 DEF Deliver, Busy
      <3>2. Received(serving) = offer[serving] /\ offer[serving] \in Content
        BY <2>6, <3>1, ServedIsOffered DEF Deliver
      <3>3. got' \in [Clients -> Content \cup {None}]
        BY <2>6, <3>1, <3>2 DEF Deliver
      <3>4. spent' \in [BudgetKinds -> Nat]
        BY <2>6, SpendType DEF Deliver, BudgetKinds
      <3> QED
        BY <2>6, <3>1, <3>3, <3>4, DoneEffect, EmptySeq DEF Deliver, sender, Busy
    <2>7. CASE ReadFails \/ Reject \/ Drop
      <3>1. at \in Busy /\ Done
        BY <2>7 DEF ReadFails, Reject, Drop, Busy
      <3> QED
        BY <2>7, <3>1, DoneEffect, EmptySeq
        DEF ReadFails, Reject, Drop, sender, Busy
    <2> QED
      BY <1>2, <2>1, <2>2, <2>3, <2>4, <2>5, <2>6, <2>7 DEF Receiving
  <1>3. CASE Environment
    <2>1. ASSUME NEW c \in Clients, Break(c)
          PROVE  TTypeOK'
      <3>1. spent' \in [BudgetKinds -> Nat]
        BY <2>1, SpendType DEF Break, BudgetKinds
      <3> QED
        BY <2>1, <3>1 DEF Break, Move, sender, receiver, Open
    <2>2. ASSUME NEW c \in Clients, Vanish(c)
          PROVE  TTypeOK'
      <3>1. spent' \in [BudgetKinds -> Nat]
        BY <2>2, SpendType DEF Vanish, BudgetKinds
      <3> QED
        BY <2>2, <3>1 DEF Vanish, Move, sender, wire, receiver, Open
    <2>3. ASSUME NEW c \in Clients, NEW o \in Offers[c], Send(c, o)
          PROVE  TTypeOK'
      <3>1. o.content \in Content /\ o.key \in Keys \cup {None}
        BY TransferAssumption
      <3> QED
        BY <2>3, <3>1 DEF Send, Move, wire, receiver, Open
    <2>4. ASSUME NEW m \in Commands, Run(m)
          PROVE  TTypeOK'
      <3>1. spent' \in [BudgetKinds -> Nat]
        BY <2>4, SpendType DEF Run, BudgetKinds
      <3> QED
        BY <2>4, <3>1 DEF Run, sender, wire, Busy
    <2>5. CASE Stop
      <3>1. spent' \in [BudgetKinds -> Nat]
        BY <2>5, SpendType DEF Stop, BudgetKinds
      <3> QED
        BY <2>5, <3>1, ExitEffect, EmptySeq DEF Stop, sender, Busy
    <2>6. CASE ReceiverVanishes
      <3>1. spent' \in [BudgetKinds -> Nat]
        BY <2>6, SpendType DEF ReceiverVanishes, BudgetKinds
      <3> QED
        BY <2>6, <3>1 DEF ReceiverVanishes, sender, wire
    <2> QED
      BY <1>3, <2>1, <2>2, <2>3, <2>4, <2>5, <2>6 DEF Environment
  <1>4. CASE UNCHANGED vars
    BY <1>4 DEF vars, sender, wire, receiver
  <1> QED
    BY <1>1, <1>2, <1>3, <1>4 DEF Next

-----------------------------------------------------------------------------
(* The invariant holds in every state.                                     *)

\* Faults that have been counted stay counted.
Counted == \A b \in BudgetKinds : spent[b] > 0 => spent'[b] > 0

\* A send that has its connection goes on or ends.
LEMMA SendMoves ==
    ASSUME TTypeOK, TInv, Counted, NEW c \in Clients, NEW to,
           Move(c, to), stage[c] # "idle", to \notin {"idle", "connect"},
           to = "ok" => reply[c] = "ack",
           UNCHANGED <<sender, reply, taker, cmd, at, serving, backlog, got>>
    PROVE  TInv'
  <1> USE DEF TInv
  <1>1. Senders'
    BY DEF Senders, Connected, Move, sender, TTypeOK
  <1>2. Queued'
    BY DEF Queued, Connected, Move, TTypeOK
  <1>3. Served'
    BY DEF Served, Connected, Move, sender, TTypeOK, Received, Message
  <1>4. TakenIsHandled'
    BY DEF TakenIsHandled, Held, sender, Counted, BudgetKinds
  <1>5. KeyOpens'
    BY DEF KeyOpens, sender
  <1> QED
    BY <1>1, <1>2, <1>3, <1>4, <1>5

\* The receiver is done with the connection that it served, if any.
LEMMA ServingEnds ==
    ASSUME TTypeOK, TInv, Counted,
           UNCHANGED <<sender, stage, taker, cmd>>,
           at' \in {"off", "accept"}, serving' = None, backlog' \in {backlog, <<>>},
           \A c \in Clients : \/ reply'[c] = reply[c]
                              \/ stage[c] = "failed" /\ reply'[c] = "failed",
           \A c \in Clients : \/ got'[c] = got[c]
                              \/ /\ taker[c] # None /\ got'[c] = offer[c]
                                 /\ key[c] \in {None, taker[c].key},
           at = "deliver" => \/ got'[serving] = offer[serving]
                             \/ spent'["stop"] > 0 \/ spent'["write"] > 0
                             \/ cmd.text /\ offer[serving].kind = "image"
    PROVE  TInv'
  <1> USE DEF TInv
  <1>1. Senders'
    BY DEF Senders, Connected, sender
  <1>2. Queued'
    <2>1. \A i \in 1 .. Len(backlog) : backlog[i] \in Clients /\ backlog[i] # None
      BY ElementOfSeq, TransferAssumption DEF TTypeOK
    <2> QED
      BY <2>1, EmptySeq DEF Queued, Connected, TTypeOK
  <1>3. Served'
    BY DEF Served
  <1>4. TakenIsHandled'
    <2> SUFFICES ASSUME NEW c \in Clients, taker'[c] # None
                 PROVE  \/ got'[c] = offer'[c]
                        \/ spent'["stop"] > 0 \/ spent'["write"] > 0
                        \/ taker'[c].text /\ offer'[c].kind = "image"
      BY DEF TakenIsHandled
    <2>1. CASE Held = c
      <3>1. at = "deliver" /\ serving = c /\ taker[c] = cmd
        BY <2>1, TransferAssumption DEF Held, Served
      <3> QED
        BY <3>1 DEF sender
    <2>2. CASE Held # c
      BY <2>2 DEF TakenIsHandled, Counted, BudgetKinds, sender
    <2> QED
      BY <2>1, <2>2
  <1>5. KeyOpens'
    BY DEF KeyOpens, sender
  <1> QED
    BY <1>1, <1>2, <1>3, <1>4, <1>5

LEMMA InvInit == Init => TTypeOK /\ TInv
  <1> SUFFICES ASSUME Init
               PROVE  TTypeOK /\ TInv
    OBVIOUS
  <1>1. TTypeOK
    <2>1. spent \in [BudgetKinds -> Nat] /\ backlog \in Seq(Clients)
      BY EmptySeq DEF Init
    <2>2. at \notin Busy /\ serving = None
      BY DEF Init, Busy
    <2> QED
      BY <2>1, <2>2 DEF Init, TTypeOK
  <1>2. TInv
    BY EmptySeq
    DEF Init, TInv, Senders, Queued, Served, TakenIsHandled, KeyOpens, Connected
  <1> QED
    BY <1>1, <1>2

LEMMA SendingInv ==
    ASSUME TTypeOK, TInv, NEW c \in Clients, Sending(c)
    PROVE  TInv'
  <1>1. CASE Connect(c)
    <2> USE DEF TInv
    <2>1. /\ stage[c] = "connect" /\ taker[c] = None /\ serving # c
          /\ \A i \in 1 .. Len(backlog) : backlog[i] # c
      BY <1>1, TransferAssumption DEF Connect, Senders, Connected, Served, Queued, TTypeOK
    <2>2. /\ Len(backlog') = Len(backlog) + 1 /\ backlog'[Len(backlog) + 1] = c
          /\ \A i \in 1 .. Len(backlog) : backlog'[i] = backlog[i]
          /\ Len(backlog) \in Nat
      BY <1>1, AppendProperties, LenProperties DEF Connect, TTypeOK
    <2>3. Senders'
      BY <1>1 DEF Connect, Move, Senders, Connected, sender, wire, TTypeOK
    <2>4. Queued'
      <3> DEFINE Fresh(x) == stage'[x] \notin {"idle", "connect"} /\ taker[x] = None /\ serving # x
      <3>1. UNCHANGED <<taker, serving>>
        BY <1>1 DEF Connect, wire
      <3>2. \A i \in 1 .. Len(backlog) : backlog[i] \in Clients
        BY ElementOfSeq DEF TTypeOK
      <3>3. \A i \in 1 .. Len(backlog) : Fresh(backlog[i])
        BY <1>1, <3>2 DEF Connect, Move, Queued, Connected, TTypeOK
      <3>4. Fresh(c)
        BY <1>1, <2>1 DEF Connect, Move, TTypeOK
      <3> HIDE DEF Fresh
      <3>5. \A i \in 1 .. Len(backlog') : Fresh(backlog'[i])
        BY <2>2, <3>3, <3>4
      <3>6. \A i, j \in 1 .. Len(backlog') : backlog'[i] = backlog'[j] => i = j
        BY <2>1, <2>2 DEF Queued
      <3> QED
        BY <3>1, <3>5, <3>6 DEF Queued, Connected, Fresh
    <2>5. Served'
      BY <1>1 DEF Connect, Move, Served, Connected, wire, sender, TTypeOK, Received, Message
    <2>6. TakenIsHandled' /\ KeyOpens'
      BY <1>1 DEF Connect, TakenIsHandled, KeyOpens, Held, wire, sender
    <2> QED
      BY <2>3, <2>4, <2>5, <2>6
  <1>2. CASE GetAck(c)
    BY <1>2, SendMoves DEF GetAck, wire, receiver, Counted
  <1>3. CASE Write(c)
    BY <1>3, SendMoves DEF Write, receiver, Counted
  <1>4. CASE Refused(c) \/ GetClosed(c) \/ TcpGivesUp(c)
    BY <1>4, SendMoves DEF Refused, GetClosed, TcpGivesUp, wire, receiver, Counted
  <1> QED
    BY <1>1, <1>2, <1>3, <1>4 DEF Sending

\* A connection is served to its end and its content handled at most once.
LEMMA ReceivingInv ==
    ASSUME TTypeOK, TInv, Receiving
    PROVE  TInv'
  <1> USE DEF TInv
  <1>1. CASE Accept
    <2>1. /\ backlog # <<>> /\ Len(backlog) \in Nat \ {0} /\ Len(backlog') = Len(backlog) - 1
          /\ serving' = backlog[1]
          /\ \A i \in 1 .. Len(backlog') : backlog'[i] = backlog[i + 1]
      BY <1>1, HeadTailProperties, LenProperties, EmptySeq DEF Accept, TTypeOK
    <2>2. serving' \in Clients /\ serving = None
      BY <1>1, HeadTailProperties DEF Accept, TTypeOK, Busy
    <2>3. Senders'
      BY <1>1 DEF Accept, Senders, Connected, sender, wire
    <2>4. Queued'
      BY <1>1, <2>1 DEF Accept, Queued, Connected, wire
    <2>5. Served'
      BY <1>1, <2>1 DEF Accept, Served, Queued, Connected, wire
    <2>6. TakenIsHandled' /\ KeyOpens'
      BY <1>1 DEF Accept, TakenIsHandled, KeyOpens, Held, wire, sender
    <2> QED
      BY <2>3, <2>4, <2>5, <2>6
  <1>2. CASE AcceptTimeout
    BY <1>2, ExitEffect, ServingEnds DEF AcceptTimeout, sender, Counted
  <1>3. CASE Read
    <2>1. Senders'
      BY <1>3 DEF Read, Senders, Connected, sender, wire
    <2>2. Queued'
      BY <1>3 DEF Read, Queued, Connected, wire
    <2>3. Served'
      BY <1>3 DEF Read, Served, Connected, wire, sender, Received, Message
    <2>4. TakenIsHandled' /\ KeyOpens'
      BY <1>3 DEF Read, TakenIsHandled, KeyOpens, Held, wire, sender
    <2> QED
      BY <2>1, <2>2, <2>3, <2>4
  <1>4. CASE Reply
    <2>1. serving \in Clients /\ taker[serving] = None /\ cmd \in Commands /\ cmd # None
      BY <1>4, CommandType DEF Reply, Served, TTypeOK, Busy
    <2>2. Senders'
      BY <1>4, <2>1 DEF Reply, Senders, Served, Connected, sender, TTypeOK
    <2>3. Queued'
      BY <1>4, <2>1, EmptySeq DEF Reply, Queued, Connected, TTypeOK
    <2>4. Served'
      BY <1>4, <2>1 DEF Reply, Served, Connected, sender, Received, Message, TTypeOK
    <2>5. TakenIsHandled'
      BY <1>4, <2>1, TransferAssumption DEF Reply, TakenIsHandled, Held, sender, TTypeOK
    <2>6. KeyOpens'
      BY <1>4, <2>1 DEF Reply, KeyOpens, Senders, sender, TTypeOK
    <2> QED
      BY <2>2, <2>3, <2>4, <2>5, <2>6
  <1>5. CASE ReplyFails
    <2>1. serving \in Clients /\ taker[serving] = None /\ cmd \in Commands /\ cmd # None
      BY <1>5, CommandType DEF ReplyFails, Served, TTypeOK, Busy
    <2>2. CASE cmd.once
      BY <1>5, <2>1, <2>2, ExitEffect, ServingEnds
      DEF ReplyFails, sender, Counted, TTypeOK
    <2>3. CASE ~cmd.once
      <3>1. Senders'
        BY <1>5, <2>1, <2>3 DEF ReplyFails, Senders, Served, Connected, sender, TTypeOK
      <3>2. Queued'
        <4>1. UNCHANGED <<stage, serving, backlog>>
          BY <1>5, <2>3 DEF ReplyFails
        <4>2. \A x \in Clients : x # serving => taker'[x] = taker[x]
          BY <1>5, <2>1, <2>3 DEF ReplyFails, TTypeOK
        <4>3. \A i \in 1 .. Len(backlog) : backlog[i] \in Clients
          BY ElementOfSeq DEF TTypeOK
        <4> QED
          BY <4>1, <4>2, <4>3 DEF Queued, Connected
      <3>3. Served'
        BY <1>5, <2>1, <2>3
        DEF ReplyFails, Served, Connected, sender, Received, Message, TTypeOK
      <3>4. TakenIsHandled'
        BY <1>5, <2>1, <2>3, TransferAssumption
        DEF ReplyFails, TakenIsHandled, Held, sender, TTypeOK
      <3>5. KeyOpens'
        BY <1>5, <2>1, <2>3 DEF ReplyFails, KeyOpens, Senders, sender, TTypeOK
      <3> QED
        BY <3>1, <3>2, <3>3, <3>4, <3>5
    <2> QED
      BY <2>2, <2>3
  <1>6. CASE ReadFails \/ Reject
    <2>1. at = "read" /\ Done /\ at \in Busy
      BY <1>6 DEF ReadFails, Reject, Busy
    <2> QED
      BY <1>6, <2>1, DoneEffect, ServingEnds
      DEF ReadFails, Reject, sender, Counted
  <1>7. CASE Drop
    <2>1. at = "deliver" /\ Done /\ at \in Busy /\ serving # None
      BY <1>7 DEF Drop, Busy, TTypeOK
    <2>2. cmd.text /\ offer[serving].kind = "image"
      BY <1>7, <2>1, ServedIsOffered DEF Drop, Wanted, Content, Text, Image
    <2> QED
      BY <1>7, <2>1, <2>2, DoneEffect, ServingEnds DEF Drop, sender, Counted
  <1>8. CASE Deliver
    <2>1. /\ at = "deliver" /\ Done /\ at \in Busy
          /\ serving # None /\ serving \in Clients
          /\ taker[serving] = cmd /\ cmd # None
      BY <1>8, CommandType DEF Deliver, Busy, TTypeOK, Served
    <2>2. /\ Received(serving) = offer[serving] /\ offer[serving] \in Content
          /\ key[serving] \in {None, cmd.key}
      BY <2>1, ServedIsOffered
    <2>3. got'[serving] = offer[serving] \/ spent'["write"] > 0
      BY <1>8, <2>1, <2>2, SpendType DEF Deliver, BudgetKinds, TTypeOK
    <2>4. \A c \in Clients : got'[c] = got[c] \/ (c = serving /\ got'[c] = offer[c])
      BY <1>8, <2>1, <2>2 DEF Deliver, TTypeOK
    <2>5. Counted
      BY <1>8, SpendType DEF Deliver, Counted, BudgetKinds, TTypeOK
    <2> QED
      BY <1>8, <2>1, <2>2, <2>3, <2>4, <2>5, DoneEffect, ServingEnds DEF Deliver, sender
  <1> QED
    BY <1>1, <1>2, <1>3, <1>4, <1>5, <1>6, <1>7, <1>8 DEF Receiving

LEMMA EnvironmentInv ==
    ASSUME TTypeOK, TInv, Environment
    PROVE  TInv'
  <1>1. ASSUME NEW c \in Clients, Break(c) \/ Vanish(c)
        PROVE  TInv'
    <2>1. Counted /\ stage[c] # "idle"
      BY <1>1, SpendType DEF Break, Vanish, Counted, BudgetKinds, TTypeOK, Open
    <2> QED
      BY <1>1, <2>1, SendMoves DEF Break, Vanish, wire, receiver
  <1>2. ASSUME NEW c \in Clients, NEW o \in Offers[c], Send(c, o)
        PROVE  TInv'
    <2> USE DEF TInv
    <2>1. o.content \in Content /\ o.content # None
      BY TransferAssumption, ClipboardAssumption
    <2>2. /\ stage[c] = "idle" /\ taker[c] = None /\ got[c] = None /\ serving # c
          /\ \A i \in 1 .. Len(backlog) : backlog[i] # c
      BY <1>2, TransferAssumption DEF Send, Senders, Connected, Served, Queued, TTypeOK
    <2>3. Senders'
      BY <1>2, <2>1 DEF Send, Move, Senders, Connected, wire, TTypeOK
    <2>4. Queued'
      BY <1>2, <2>2 DEF Send, Move, Queued, Connected, wire, receiver, TTypeOK
    <2>5. Served'
      BY <1>2, <2>2
      DEF Send, Move, Served, Connected, wire, receiver, TTypeOK, Received, Message, Busy
    <2>6. TakenIsHandled' /\ KeyOpens'
      BY <1>2, <2>2 DEF Send, TakenIsHandled, KeyOpens, Held, wire, receiver, TTypeOK
    <2> QED
      BY <2>3, <2>4, <2>5, <2>6
  <1>3. ASSUME NEW m \in Commands, Run(m)
        PROVE  TInv'
    <2>1. Counted
      BY <1>3, SpendType DEF Run, Counted, BudgetKinds, TTypeOK
    <2>2. serving = None /\ at = "off"
      BY <1>3 DEF Run, TTypeOK, Busy
    <2> QED
      BY <1>3, <2>1, <2>2
      DEF TInv, Run, Senders, Queued, Served, TakenIsHandled, KeyOpens, Held, Connected,
          sender, wire, Counted, BudgetKinds
  <1>4. CASE Stop
    <2>1. Counted /\ spent'["stop"] > 0
      BY <1>4, SpendType DEF Stop, Counted, BudgetKinds, TTypeOK
    <2> QED
      BY <1>4, <2>1, ExitEffect, ServingEnds DEF Stop, sender
  <1>5. CASE ReceiverVanishes
    <2>1. Counted
      BY <1>5, SpendType DEF ReceiverVanishes, Counted, BudgetKinds, TTypeOK
    <2> QED
      BY <1>5, <2>1
      DEF TInv, ReceiverVanishes, Senders, Queued, Served, TakenIsHandled, KeyOpens,
          Held, Connected, sender, wire, receiver, Counted, BudgetKinds,
          Received, Message
  <1> QED
    BY <1>1, <1>2, <1>3, <1>4, <1>5 DEF Environment

\* THE TYPES AND THE INVARIANT hold in every state of every instance.
THEOREM TransferInvariant == Spec => [](TTypeOK /\ TInv)
  <1>1. Init => TTypeOK /\ TInv
    BY InvInit
  <1>2. TTypeOK /\ TInv /\ [Next]_vars => (TTypeOK /\ TInv)'
    <2> SUFFICES ASSUME TTypeOK, TInv, [Next]_vars
                 PROVE  TTypeOK' /\ TInv'
      OBVIOUS
    <2>1. TTypeOK'
      BY TypeStep DEF TInv
    <2>2. CASE \E c \in Clients : Sending(c)
      BY <2>1, <2>2, SendingInv
    <2>3. CASE Receiving
      BY <2>1, <2>3, ReceivingInv
    <2>4. CASE Environment
      BY <2>1, <2>4, EnvironmentInv
    <2>5. CASE UNCHANGED vars
      <3>1. TInv'
        BY <2>5
        DEF TInv, Senders, Queued, Served, TakenIsHandled, KeyOpens, Held, Connected,
            vars, sender, wire, receiver, Received, Message
      <3> QED
        BY <2>1, <3>1
    <2> QED
      BY <2>2, <2>3, <2>4, <2>5 DEF Next
  <1> QED
    BY <1>1, <1>2, PTL DEF Spec

\* The type invariant of the one-shot transfers.
THEOREM TransferTypes == Spec => []TTypeOK
  BY TransferInvariant, PTL

\* AN ACKNOWLEDGED CONTENT IS HANDLED, or about to be, for every number of senders,
\* unless the receiver was stopped, could not write, or takes texts only
\* (sync.rs:175, sync.rs:262).
THEOREM AckedIsHandledAlways == Spec => []AckedIsHandled
  <1>1. TTypeOK /\ TInv => AckedIsHandled
    BY DEF TInv, Senders, TakenIsHandled, AckedIsHandled
  <1> QED
    BY <1>1, TransferInvariant, PTL

\* ONLY THE KEY OPENS: nobody shows a content that was sealed with a key that the
\* command did not have (sync.rs extract_content).
THEOREM KeyOpensAlways == Spec => []KeyOpens
  <1>1. TInv => KeyOpens
    BY DEF TInv
  <1> QED
    BY <1>1, TransferInvariant, PTL

-----------------------------------------------------------------------------
(* Nobody is forgotten.  By itself that is not inductive: the next command *)
(* that is run must not find a queue that an earlier one has left.         *)

QueueIsServed == backlog # <<>> => Listening

Reached == NobodyIsForgotten /\ QueueIsServed

\* The end of a process or of a connection closes what it forgets.
LEMMA ExitReaches ==
    ASSUME NobodyIsForgotten, Exit, UNCHANGED <<stage, cmd>>
    PROVE  Reached'
  BY TransferAssumption DEF Reached, NobodyIsForgotten, QueueIsServed, Exit

LEMMA DoneReaches ==
    ASSUME Reached, at \in Busy, Done, UNCHANGED <<stage, cmd>>
    PROVE  Reached'
  <1>1. CASE cmd.once
    BY <1>1, ExitReaches DEF Done, Reached
  <1>2. CASE ~cmd.once
    BY <1>2, TransferAssumption
    DEF Done, NextConnection, Reached, NobodyIsForgotten, QueueIsServed, Waiting, Listening
  <1> QED
    BY <1>1, <1>2

LEMMA SendingReaches ==
    ASSUME TTypeOK, Reached, NEW c \in Clients, Sending(c)
    PROVE  Reached'
  <1>1. CASE Connect(c)
    <2>1. /\ Len(backlog') = Len(backlog) + 1 /\ backlog'[Len(backlog) + 1] = c
          /\ \A i \in 1 .. Len(backlog) : backlog'[i] = backlog[i]
          /\ Len(backlog) \in Nat /\ backlog' \in Seq(Clients)
      BY <1>1, AppendProperties, LenProperties DEF Connect, TTypeOK
    <2>2. DOMAIN backlog = 1 .. Len(backlog) /\ DOMAIN backlog' = 1 .. Len(backlog')
      BY <2>1, LenProperties DEF TTypeOK
    <2>3. Waiting \cup {c} \subseteq Waiting'
      BY <2>1, <2>2 DEF Waiting
    <2>4. Listening /\ Listening'
      BY <1>1 DEF Connect, Listening
    <2> QED
      BY <1>1, <2>3, <2>4
      DEF Connect, Move, Reached, NobodyIsForgotten, QueueIsServed, wire, TTypeOK
  <1>2. CASE ~Connect(c)
    <2>1. UNCHANGED <<cmd, at, serving, backlog, closed>>
      BY <1>2 DEF Sending, Refused, Write, GetAck, GetClosed, TcpGivesUp, receiver, wire
    <2>2. \A d \in Clients :
            stage'[d] \in {"write", "await"} => stage[d] \in {"write", "await"}
      BY <1>2 DEF Sending, Refused, Write, GetAck, GetClosed, TcpGivesUp, Move, TTypeOK
    <2> QED
      BY <2>1, <2>2 DEF Reached, NobodyIsForgotten, QueueIsServed, Waiting, Listening
  <1> QED
    BY <1>1, <1>2

LEMMA ReceivingReaches ==
    ASSUME TTypeOK, Reached, Receiving
    PROVE  Reached'
  <1>1. UNCHANGED <<stage, cmd>>
    BY DEF Receiving, Accept, AcceptTimeout, Read, ReadFails, Reject, Reply, ReplyFails, Drop,
           Deliver
  <1>2. CASE Accept
    <2>1. /\ backlog # <<>> /\ Len(backlog) \in Nat \ {0} /\ Len(backlog') = Len(backlog) - 1
          /\ serving' = backlog[1] /\ backlog' \in Seq(Clients)
          /\ \A i \in 1 .. Len(backlog') : backlog'[i] = backlog[i + 1]
      BY <1>2, HeadTailProperties, LenProperties, EmptySeq DEF Accept, TTypeOK
    <2>2. DOMAIN backlog = 1 .. Len(backlog) /\ DOMAIN backlog' = 1 .. Len(backlog')
      BY <2>1, LenProperties DEF TTypeOK
    <2>3. ASSUME NEW c \in Waiting, c # serving'
          PROVE  c \in Waiting'
      <3>1. PICK i \in 1 .. Len(backlog) : backlog[i] = c
        BY <2>2 DEF Waiting
      <3>2. i # 1 /\ i - 1 \in 1 .. Len(backlog') /\ backlog'[i - 1] = c
        BY <2>1, <2>3, <3>1
      <3> QED
        BY <2>2, <3>2 DEF Waiting
    <2>4. Listening' /\ serving = None /\ closed' = closed
      BY <1>2 DEF Accept, Listening, TTypeOK, Busy, wire
    <2> QED
      BY <1>1, <2>3, <2>4, TransferAssumption DEF Reached, NobodyIsForgotten, QueueIsServed
  <1>3. CASE AcceptTimeout \/ (ReplyFails /\ cmd.once)
    BY <1>1, <1>3, ExitReaches DEF AcceptTimeout, ReplyFails, Reached
  <1>4. CASE ReadFails \/ Reject \/ Drop \/ Deliver
    BY <1>1, <1>4, DoneReaches DEF ReadFails, Reject, Drop, Deliver, Busy
  <1>5. CASE Read \/ (ReplyFails /\ ~cmd.once)
    <2>1. UNCHANGED <<serving, closed, backlog>> /\ Listening'
      BY <1>1, <1>5 DEF Read, ReplyFails, wire, Listening
    <2> QED
      BY <1>1, <2>1 DEF Reached, NobodyIsForgotten, QueueIsServed, Waiting
  <1>6. CASE Reply /\ cmd.once
    BY <1>1, <1>6 DEF Reply, Reached, NobodyIsForgotten, QueueIsServed
  <1>7. CASE Reply /\ ~cmd.once
    <2>1. UNCHANGED <<serving, closed, backlog>> /\ Listening'
      BY <1>1, <1>7 DEF Reply, Listening
    <2> QED
      BY <1>1, <2>1 DEF Reached, NobodyIsForgotten, QueueIsServed, Waiting
  <1> QED
    BY <1>2, <1>3, <1>4, <1>5, <1>6, <1>7 DEF Receiving

LEMMA EnvironmentReaches ==
    ASSUME TTypeOK, Reached, Environment
    PROVE  Reached'
  <1>1. ASSUME NEW c \in Clients, Break(c) \/ Vanish(c) \/ \E o \in Offers[c] : Send(c, o)
        PROVE  Reached'
    BY <1>1
    DEF Break, Vanish, Send, Move, receiver, wire, TTypeOK,
        Reached, NobodyIsForgotten, QueueIsServed, Waiting, Listening
  <1>2. ASSUME NEW m \in Commands, Run(m)
        PROVE  Reached'
    <2>1. ~Listening /\ Listening'
      BY <1>2 DEF Run, Listening
    <2> QED
      BY <1>2, <2>1 DEF Run, wire, Reached, NobodyIsForgotten, QueueIsServed, Waiting
  <1>3. CASE Stop
    BY <1>3, ExitReaches DEF Stop, Reached
  <1>4. CASE ReceiverVanishes
    BY <1>4
    DEF ReceiverVanishes, receiver, wire,
        Reached, NobodyIsForgotten, QueueIsServed, Waiting, Listening
  <1> QED
    BY <1>1, <1>2, <1>3, <1>4 DEF Environment

\* NOBODY IS FORGOTTEN, with any number of senders and of commands that are run one
\* after the other, whatever is stopped, lost or late (sync.rs).  What is left of
\* SendsReturn is that processes are scheduled and timeouts pass.
THEOREM NobodyIsForgottenEver == Spec => []NobodyIsForgotten
  <1>1. Init => Reached
    BY DEF Init, Reached, NobodyIsForgotten, QueueIsServed
  <1>2. TTypeOK /\ Reached /\ [Next]_vars => Reached'
    <2>1. ASSUME Reached, UNCHANGED vars
          PROVE  Reached'
      BY <2>1
      DEF vars, receiver, wire, Reached, NobodyIsForgotten, QueueIsServed, Waiting, Listening
    <2> QED
      BY <2>1, SendingReaches, ReceivingReaches, EnvironmentReaches DEF Next
  <1>3. Reached => NobodyIsForgotten
    BY DEF Reached
  <1> QED
    BY <1>1, <1>2, <1>3, TransferTypes, PTL DEF Spec

-----------------------------------------------------------------------------
(* The commands implement Handover.                                        *)

HTold  == [c \in Clients |-> Told(c)]
HTaken == {c \in Clients : taker[c] # None}

LEMMA HandoverInit == Init => H!Init
  BY DEF Init, H!Init, Told, Held

\* A send that ends is told what it prints; one that was broken off is told nothing
\* better than `failed'.
LEMMA ToldMoves ==
    ASSUME TTypeOK, NEW c \in Clients, NEW to, Move(c, to), stage[c] \in Open
    PROVE  /\ HTold[c] = "nothing"
           /\ to \in {"ok", "failed"} => HTold' = [HTold EXCEPT ![c] = to]
           /\ to \notin {"ok", "failed"} => HTold' = HTold
  BY DEF Move, HTold, Told, Open, TTypeOK

LEMMA SendingHandover ==
    ASSUME TTypeOK, TInv, NEW c \in Clients, Sending(c)
    PROVE  [H!Next]_H!vars
  <1> USE DEF TInv
  <1>1. CASE Connect(c) \/ Write(c)
    <2>1. HTold' = HTold
      BY <1>1, ToldMoves DEF Connect, Write, Open
    <2>2. UNCHANGED <<offer, taker, at, serving, got>>
      BY <1>1 DEF Connect, Write, sender, wire, receiver
    <2> QED
      BY <2>1, <2>2 DEF H!vars, HTold, Held
  <1>2. CASE GetAck(c)
    <2>1. /\ HTold[c] = "nothing" /\ HTold' = [HTold EXCEPT ![c] = "ok"]
          /\ c \in HTaken
      BY <1>2, ToldMoves DEF GetAck, Open, HTaken, Senders
    <2>2. UNCHANGED <<offer, taker, at, serving, got>>
      BY <1>2 DEF GetAck, sender, wire, receiver
    <2>3. H!Confirm(c)
      BY <2>1, <2>2 DEF H!Confirm, HTold, HTaken, Held
    <2> QED
      BY <2>3 DEF H!Next
  <1>3. CASE Refused(c) \/ GetClosed(c) \/ TcpGivesUp(c)
    <2>1. /\ HTold[c] = "nothing" /\ HTold' = [HTold EXCEPT ![c] = "failed"]
          /\ offer[c] # None
      BY <1>3, ToldMoves DEF Refused, GetClosed, TcpGivesUp, Open, Senders
    <2>2. UNCHANGED <<offer, taker, at, serving, got>>
      BY <1>3 DEF Refused, GetClosed, TcpGivesUp, sender, wire, receiver
    <2>3. H!Fail(c)
      BY <2>1, <2>2 DEF H!Fail, HTold, Held
    <2> QED
      BY <2>3 DEF H!Next
  <1> QED
    BY <1>1, <1>2, <1>3 DEF Sending

LEMMA ReceivingHandover ==
    ASSUME TTypeOK, TInv, Receiving
    PROVE  [H!Next]_H!vars
  <1> USE DEF TInv
  <1>1. HTold' = HTold /\ UNCHANGED offer
    BY DEF Receiving, Accept, AcceptTimeout, Read, ReadFails, Reject, Reply, ReplyFails, Drop,
           Deliver, HTold, Told, sender
  <1>2. CASE Accept \/ AcceptTimeout \/ Read \/ ReadFails \/ Reject
    <2>1. Held = None /\ Held' = None
      BY <1>2, ExitEffect, DoneEffect
      DEF Accept, AcceptTimeout, Read, ReadFails, Reject, Held, Busy
    <2>2. UNCHANGED <<taker, got>>
      BY <1>2 DEF Accept, AcceptTimeout, Read, ReadFails, Reject, wire
    <2> QED
      BY <1>1, <2>1, <2>2 DEF H!vars, HTold
  <1>3. CASE Reply \/ (ReplyFails /\ ~cmd.once)
    <2>1. /\ serving \in Clients /\ offer[serving] # None
          /\ taker[serving] = None /\ cmd # None
      BY <1>3, CommandType, ServedIsOffered, ClipboardAssumption
      DEF Reply, ReplyFails, Served, TTypeOK, Busy
    <2>2. Held = None /\ Held' = serving /\ HTaken' = HTaken \cup {serving} /\ UNCHANGED got
      BY <1>3, <2>1 DEF Reply, ReplyFails, Held, HTaken, TTypeOK
    <2>3. PICK c \in Clients : c = serving
      BY <2>1
    <2>4. H!Take(c)
      BY <1>1, <2>1, <2>2, <2>3 DEF H!Take, HTold, HTaken
    <2> QED
      BY <2>4 DEF H!Next
  <1>4. CASE ReplyFails /\ cmd.once
    <2>1. Held = None /\ Held' = None /\ UNCHANGED <<taker, got>>
      BY <1>4, ExitEffect DEF ReplyFails, Held
    <2> QED
      BY <1>1, <2>1 DEF H!vars, HTold
  <1>5. CASE Drop \/ Deliver
    <2>1. /\ at = "deliver" /\ serving # None /\ serving \in Clients /\ Done /\ at \in Busy
          /\ UNCHANGED taker
      BY <1>5 DEF Drop, Deliver, Busy, TTypeOK
    <2>2. Held = serving /\ Held' = None
      BY <2>1, DoneEffect DEF Held
    <2>3. Received(serving) = offer[serving]
      BY <2>1, ServedIsOffered
    <2>4. got' = got \/ got' = [got EXCEPT ![serving] = offer[serving]]
      BY <1>5, <2>3 DEF Drop, Deliver
    <2>5. H!Lose \/ H!Handle
      BY <1>1, <2>1, <2>2, <2>4 DEF H!Lose, H!Handle, HTold
    <2> QED
      BY <2>5 DEF H!Next
  <1> QED
    BY <1>2, <1>3, <1>4, <1>5 DEF Receiving

LEMMA EnvironmentHandover ==
    ASSUME TTypeOK, TInv, Environment
    PROVE  [H!Next]_H!vars
  <1> USE DEF TInv
  <1>1. ASSUME NEW c \in Clients, Break(c)
        PROVE  H!Next
    <2>1. /\ HTold[c] = "nothing" /\ HTold' = [HTold EXCEPT ![c] = "failed"]
          /\ offer[c] # None
      BY <1>1, ToldMoves DEF Break, Open, Senders
    <2>2. UNCHANGED <<offer, taker, at, serving, got>>
      BY <1>1 DEF Break, sender, wire, receiver
    <2>3. H!Fail(c)
      BY <2>1, <2>2 DEF H!Fail, HTold, Held
    <2> QED
      BY <2>3 DEF H!Next
  <1>2. ASSUME NEW c \in Clients, Vanish(c)
        PROVE  UNCHANGED H!vars
    <2>1. HTold' = HTold
      BY <1>2, ToldMoves DEF Vanish
    <2> QED
      BY <1>2, <2>1 DEF Vanish, H!vars, HTold, Held, sender, wire, receiver
  <1>3. ASSUME NEW c \in Clients, NEW o \in Offers[c], Send(c, o)
        PROVE  H!Next
    <2>1. offer[c] = None /\ o.content \in Content
      BY <1>3, TransferAssumption DEF Send, Senders
    <2>2. HTold' = HTold
      BY <1>3 DEF Send, Move, HTold, Told, TTypeOK
    <2>3. H!Offer(c, o.content)
      BY <1>3, <2>1, <2>2 DEF Send, H!Offer, HTold, Held, wire, receiver
    <2> QED
      BY <2>1, <2>3 DEF H!Next
  <1>4. ASSUME NEW m \in Commands, Run(m)
        PROVE  UNCHANGED H!vars
    BY <1>4 DEF Run, H!vars, Told, Held, sender, wire
  <1>5. CASE Stop
    <2>1. HTold' = HTold /\ Held' = None /\ UNCHANGED <<offer, taker, got>>
      BY <1>5, ExitEffect DEF Stop, HTold, Told, Held, sender
    <2>2. H!Lose \/ UNCHANGED H!vars
      BY <2>1 DEF H!Lose, H!vars, HTold
    <2> QED
      BY <2>2 DEF H!Next
  <1>6. CASE ReceiverVanishes
    BY <1>6 DEF ReceiverVanishes, H!vars, Told, Held, sender, wire, receiver
  <1> QED
    BY <1>1, <1>2, <1>3, <1>4, <1>5, <1>6 DEF Environment

\* THE HANDOVER.  Every step of the commands is a step of Handover or changes nothing
\* that it speaks of: no success without a content taken, no content taken twice, none
\* but the offered one handled (sync.rs).
THEOREM HandoverRefined == Spec => HandoverImplemented
  <1>1. TTypeOK /\ TInv /\ [Next]_vars => [H!Next]_H!vars
    <2> SUFFICES ASSUME TTypeOK, TInv, [Next]_vars
                 PROVE  [H!Next]_H!vars
      OBVIOUS
    <2>1. CASE UNCHANGED vars
      BY <2>1 DEF vars, sender, wire, receiver, H!vars, Told, Held
    <2> QED
      BY <2>1, SendingHandover, ReceivingHandover, EnvironmentHandover DEF Next
  <1> QED
    BY <1>1, HandoverInit, TransferInvariant, PTL DEF Spec, HandoverImplemented, H!Spec
=============================================================================
