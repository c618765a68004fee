-------------------------------- MODULE Transfer --------------------------------
(***************************************************************************)
(* One-shot transfers: `cb-sync send' (cb-core/src/sync.rs send_internal)  *)
(* towards a host where `receive' or `listen' is run, again and again      *)
(* (receive_once_content_internal, listen_content_internal), and what the  *)
(* command line does with a content (cb-cli/src/main.rs).                  *)
(*                                                                         *)
(* The kernel accepts a connection, buffers what comes in and closes the   *)
(* sockets of a process that ends; a host that vanishes closes nothing.    *)
(* Time is left out: a timeout may pass whenever its wait is not over.     *)
(***************************************************************************)
EXTENDS Protocol, Integers, Sequences

CONSTANTS
    Clients,   \* runs of `cb-sync send'
    Offers,    \* Offers[c]: the [content, key] that c may send
    Commands,  \* the receiving commands that may be run
    Size,      \* Size[d]: the bytes of text or image d
    MaxSize,   \* MAX_MESSAGE_SIZE, without the JSON around the data
    Budget     \* bounds: runs of the receiver, faults of each kind

BudgetKinds == {"run", "stop", "net", "write", "vanish"}

\* `once' is receive, which takes one content; a `text' receiver is one of the
\* text-only functions of the library.
Command == [once : BOOLEAN, text : BOOLEAN, key : Keys \cup {None}]

ASSUME TransferAssumption ==
    /\ None \notin Clients
    /\ Offers \in [Clients -> SUBSET [content : Content, key : Keys \cup {None}]]
    /\ Commands \subseteq Command /\ Commands # {} /\ None \notin Commands
    /\ Size \in [Texts \cup Images -> Nat]
    /\ MaxSize \in Nat
    /\ Budget \in [BudgetKinds -> Nat]

VARIABLES
    offer,    \* offer[c]: the content that c sends, or None
    key,      \* key[c]: the key it is sealed with, or None
    stage,    \* stage[c]: where send_internal is
    arrived,  \* the clients whose line is in the receiver's buffer
    reply,    \* reply[c]: what became of the ack to c
    taker,    \* history: taker[c] is the command that took the content of c
    closed,   \* the clients whose connection the receiving end has closed
    cmd,      \* the receiving command, once one was run
    at,       \* where the receiving command is
    serving,  \* the client it serves, or None
    backlog,  \* connections it has not accepted yet
    lost,     \* its host has vanished
    got,      \* got[c]: what of c was put on the clipboard or into a file
    spent     \* how much of Budget is used

sender   == <<offer, key>>
wire     == <<arrived, reply, closed, taker>>
receiver == <<cmd, at, serving, backlog, lost>>
vars     == <<sender, stage, wire, receiver, got, spent>>

Open == {"connect", "write", "await"}   \* the stages of a send that runs
Busy == {"read", "reply", "deliver"}    \* a connection is served

TTypeOK ==
    /\ offer \in [Clients -> Content \cup {None}]
    /\ key \in [Clients -> Keys \cup {None}]
    /\ stage \in [Clients -> Open \cup {"idle", "ok", "failed", "gone"}]
    /\ arrived \subseteq Clients
    /\ reply \in [Clients -> {"none", "ack", "failed"}]
    /\ taker \in [Clients -> Commands \cup {None}]
    /\ closed \subseteq Clients
    /\ cmd \in Commands
    /\ at \in Busy \cup {"off", "accept"}
    /\ serving \in Clients \cup {None}
    /\ serving # None <=> at \in Busy
    /\ backlog \in Seq(Clients)
    /\ lost \in BOOLEAN
    /\ got \in [Clients -> Content \cup {None}]
    /\ spent \in [BudgetKinds -> Nat]

Init ==
    /\ offer = [c \in Clients |-> None]
    /\ key = [c \in Clients |-> None]
    /\ stage = [c \in Clients |-> "idle"]
    /\ arrived = {}
    /\ reply = [c \in Clients |-> "none"]
    /\ taker = [c \in Clients |-> None]
    /\ closed = {}
    /\ cmd \in Commands
    /\ at = "off"
    /\ serving = None
    /\ backlog = <<>>
    /\ lost = FALSE
    /\ got = [c \in Clients |-> None]
    /\ spent = [b \in BudgetKinds |-> 0]

Spend(b) == spent[b] < Budget[b] /\ spent' = [spent EXCEPT ![b] = @ + 1]

Move(c, to) == stage' = [stage EXCEPT ![c] = to]

-----------------------------------------------------------------------------
(* The sending command: send_internal of client c.                         *)

Message(c) == Wire(offer[c], key[c])

\* A host is told the content and whether to seal it (Commands::Send).
Send(c, o) ==
    /\ stage[c] = "idle"
    /\ offer' = [offer EXCEPT ![c] = o.content]
    /\ key' = [key EXCEPT ![c] = o.key]
    /\ Move(c, "connect")
    /\ UNCHANGED <<wire, receiver, got, spent>>

\* The listener of receive goes when its function returns, before the content
\* is handled.
Listening == at # "off" /\ ~(cmd.once /\ at = "deliver")

Connect(c) ==
    /\ stage[c] = "connect" /\ ~lost /\ Listening
    /\ backlog' = Append(backlog, c)
    /\ Move(c, "write")
    /\ UNCHANGED <<sender, wire, cmd, at, serving, lost, got, spent>>

Refused(c) ==
    /\ stage[c] = "connect" /\ ~lost /\ ~Listening
    /\ Move(c, "failed")
    /\ UNCHANGED <<sender, wire, receiver, got, spent>>

Write(c) ==
    /\ stage[c] = "write" /\ c \notin closed
    /\ arrived' = IF lost THEN arrived ELSE arrived \cup {c}
    /\ Move(c, "await")
    /\ UNCHANGED <<sender, reply, closed, taker, receiver, got, spent>>

\* Fault variant of GetAck: the line read is not looked at.
GetAckUnchecked(c) ==
    /\ stage[c] = "await" /\ (reply[c] = "ack" \/ c \in closed)
    /\ Move(c, "ok")
    /\ UNCHANGED <<sender, wire, receiver, got, spent>>

GetAck(c) ==
    /\ stage[c] = "await" /\ reply[c] = "ack"
    /\ Move(c, "ok")
    /\ UNCHANGED <<sender, wire, receiver, got, spent>>

\* A write on a closed connection, or an empty line in place of the ack.
GetClosed(c) ==
    /\ stage[c] \in {"write", "await"} /\ c \in closed /\ reply[c] # "ack"
    /\ Move(c, "failed")
    /\ UNCHANGED <<sender, wire, receiver, got, spent>>

\* The kernel gives up on a host that does not answer a connection request or
\* acknowledge data.  Nothing tells a sender that only waits for the ack.
TcpGivesUp(c) ==
    /\ lost /\ \/ stage[c] \in {"connect", "write"}
               \/ stage[c] = "await" /\ c \notin arrived
    /\ Move(c, "failed")
    /\ UNCHANGED <<sender, wire, receiver, got, spent>>

\* The network resets the connection, or the user interrupts the command; what
\* the receiver has not read yet may go with it.
Break(c) ==
    /\ stage[c] \in Open
    /\ Spend("net")
    /\ arrived' \in {arrived, arrived \ {c}}
    /\ Move(c, "failed")
    /\ UNCHANGED <<sender, reply, closed, taker, receiver, got>>

\* The sending host vanishes, and the connection stays.
Vanish(c) ==
    /\ stage[c] \in Open
    /\ Spend("vanish")
    /\ Move(c, "gone")
    /\ UNCHANGED <<sender, wire, receiver, got>>

-----------------------------------------------------------------------------
(* The receiving command.                                                  *)

Run(m) ==
    /\ at = "off" /\ ~lost /\ Spend("run")
    /\ cmd' = m
    /\ at' = "accept"
    /\ UNCHANGED <<sender, stage, wire, serving, backlog, lost, got>>

Waiting == {c \in Clients : \E i \in DOMAIN backlog : backlog[i] = c}

\* The end of the process: the kernel closes what it had open.
Exit ==
    /\ at' = "off"
    /\ serving' = None
    /\ backlog' = <<>>
    /\ closed' = closed \cup Waiting \cup ({serving} \ {None})

\* Fault variant of NextConnection: the connection is not let go.
NextConnectionKeeps ==
    /\ at' = "accept"
    /\ closed' = closed \cup {serving}
    /\ UNCHANGED <<serving, backlog>>

\* Fault variant of NextConnection: the socket stays open, as in a task of its own
\* that never ends.
NextConnectionLeaks ==
    /\ at' = "accept"
    /\ serving' = None
    /\ UNCHANGED <<closed, backlog>>

\* The end of one connection of listen
NextConnection ==
    /\ at' = "accept"
    /\ serving' = None
    /\ closed' = closed \cup {serving}
    /\ UNCHANGED backlog

Done == IF cmd.once THEN Exit ELSE NextConnection

Accept ==
    /\ at = "accept" /\ ~lost /\ backlog # <<>>
    /\ serving' = Head(backlog)
    /\ backlog' = Tail(backlog)
    /\ at' = "read"
    /\ UNCHANGED <<sender, stage, wire, cmd, lost, got, spent>>

\* Fault variant of AcceptTimeout: receive waits on, as listen does.
AcceptTimeoutContinues ==
    /\ at = "accept" /\ ~lost /\ backlog = <<>> /\ cmd.once
    /\ UNCHANGED vars

\* Nobody connects in time.  listen goes on and nothing changes.
AcceptTimeout ==
    /\ at = "accept" /\ ~lost /\ backlog = <<>> /\ cmd.once
    /\ Exit
    /\ UNCHANGED <<sender, stage, arrived, reply, taker, cmd, lost, got, spent>>

\* Fault variant of ReadFails: no timeout, only the end of the connection.
ReadFailsAtEof ==
    /\ at = "read" /\ ~lost /\ serving \notin arrived /\ stage[serving] = "failed"
    /\ Done
    /\ UNCHANGED <<sender, stage, arrived, reply, taker, cmd, lost, got, spent>>

\* The connection ends, or the timeout passes, without the whole line.
ReadFails ==
    /\ at = "read" /\ ~lost /\ serving \notin arrived
    /\ Done
    /\ UNCHANGED <<sender, stage, arrived, reply, taker, cmd, lost, got, spent>>

\* base64 with padding, and the 28 bytes that sealing adds
Base64Size(n) == 4 * ((n + 2) \div 3)
SealedSize(n) == Base64Size(n + 28)

\* How long the data of a message is; a sealed image is encoded twice.
Length(x, k) ==
    LET plain == IF x.kind = "text" THEN Size[x.data] ELSE Base64Size(Size[x.data])
    IN  IF k = None THEN plain ELSE SealedSize(plain)

extract_content(m, k) ==
    IF ~is_encrypted(m) THEN content(m)
    ELSE IF k = None THEN None ELSE decrypt_content(m, k)

\* What the receiver makes of the line; one that was cut is no message.
Received(c) ==
    IF Length(offer[c], key[c]) > MaxSize THEN None
    ELSE extract_content(Message(c), cmd.key)

Read ==
    /\ at = "read" /\ ~lost /\ serving \in arrived /\ Received(serving) # None
    /\ at' = "reply"
    /\ UNCHANGED <<sender, stage, wire, cmd, serving, backlog, lost, got, spent>>

Reject ==
    /\ at = "read" /\ ~lost /\ serving \in arrived /\ Received(serving) = None
    /\ Done
    /\ UNCHANGED <<sender, stage, arrived, reply, taker, cmd, lost, got, spent>>

\* The ack is sent; when receive has sent it, its sockets are closed.
Reply ==
    /\ at = "reply" /\ ~lost
    /\ reply' = [reply EXCEPT ![serving] = "ack"]
    /\ taker' = [taker EXCEPT ![serving] = cmd]
    /\ at' = "deliver"
    /\ IF cmd.once THEN /\ closed' = closed \cup Waiting \cup {serving}
                        /\ backlog' = <<>>
                   ELSE UNCHANGED <<closed, backlog>>
    /\ UNCHANGED <<sender, stage, arrived, cmd, serving, lost, got, spent>>

\* The sender has gone: listen hands the content over all the same, receive
\* returns the error.
ReplyFails ==
    /\ at = "reply" /\ ~lost /\ stage[serving] = "failed"
    /\ reply' = [reply EXCEPT ![serving] = "failed"]
    /\ IF cmd.once THEN Exit /\ UNCHANGED taker
       ELSE /\ at' = "deliver"
            /\ taker' = [taker EXCEPT ![serving] = cmd]
            /\ UNCHANGED <<serving, closed, backlog>>
    /\ UNCHANGED <<sender, stage, arrived, cmd, lost, got, spent>>

-----------------------------------------------------------------------------
(* What becomes of the content: handle_received_content, or nothing when a *)
(* text-only function has taken an image.                                  *)

\* Fault variant of Wanted: images go through the text-only callback.
WantedTextOnly(x) == x.kind = "text"

Wanted(x) == cmd.text => x.kind = "text"

Drop ==
    /\ at = "deliver" /\ ~lost /\ ~Wanted(Received(serving))
    /\ Done
    /\ UNCHANGED <<sender, stage, arrived, reply, taker, cmd, lost, got, spent>>

\* A text is handled on the clipboard; an image there or in a file, where one of the
\* two may fail.  Bound: the failures after which the content is nowhere.
Deliver ==
    /\ at = "deliver" /\ ~lost /\ Wanted(Received(serving))
    /\ \/ got' = [got EXCEPT ![serving] = Received(serving)] /\ UNCHANGED spent
       \/ Spend("write") /\ UNCHANGED got
    /\ Done
    /\ UNCHANGED <<sender, stage, arrived, reply, taker, cmd, lost>>

-----------------------------------------------------------------------------
(* The environment of the receiver.                                        *)

\* Ctrl+C, a kill, or an accept that fails under receive.
Stop ==
    /\ at # "off" /\ ~lost /\ Spend("stop")
    /\ Exit
    /\ UNCHANGED <<sender, stage, arrived, reply, taker, cmd, lost, got>>

ReceiverVanishes ==
    /\ ~lost /\ Spend("vanish")
    /\ lost' = TRUE
    /\ UNCHANGED <<sender, stage, wire, cmd, at, serving, backlog, got>>

-----------------------------------------------------------------------------
Sending(c) ==
    \/ Connect(c) \/ Refused(c) \/ Write(c)
    \/ GetAck(c) \/ GetClosed(c) \/ TcpGivesUp(c)

Receiving ==
    \/ Accept \/ AcceptTimeout \/ Read \/ ReadFails \/ Reject
    \/ Reply \/ ReplyFails \/ Drop \/ Deliver

Environment ==
    \/ \E c \in Clients : Break(c) \/ Vanish(c) \/ \E o \in Offers[c] : Send(c, o)
    \/ \E m \in Commands : Run(m)
    \/ Stop \/ ReceiverVanishes

Next == (\E c \in Clients : Sending(c)) \/ Receiving \/ Environment

Spec == Init /\ [][Next]_vars

\* Processes that are scheduled, clipboard commands that return, a network that
\* delivers or reports, and timeouts that pass; nobody has to run, stop or vanish.
Fairness == WF_vars(Receiving) /\ \A c \in Clients : WF_vars(Sending(c))

FairSpec == Spec /\ Fairness

-----------------------------------------------------------------------------
\* AN ACKNOWLEDGED CONTENT IS HANDLED.  A send that reports success has its
\* content on the clipboard or in a file of the receiver, or in the hands of the
\* receiving command, unless that was stopped, could not write, or is a text-only
\* function and the content an image (the ack is written before the content is
\* handled, sync.rs:175, sync.rs:262, and after everything that can refuse it).  A
\* receiving host that vanishes with the content in hand has it in hand for good.
Held == IF at = "deliver" THEN serving ELSE None

AckedIsHandled ==
    \A c \in Clients :
        stage[c] = "ok" =>
            \/ got[c] = offer[c]
            \/ Held = c
            \/ spent["stop"] > 0 \/ spent["write"] > 0
            \/ taker[c] # None /\ taker[c].text /\ offer[c].kind = "image"

\* ONLY THE KEY OPENS.  What a receiver shows of a sealed content, it has opened
\* with the key the content was sealed with (extract_content); without a key it
\* shows what came in the clear, and with one that too.
KeyOpens ==
    \A c \in Clients : got[c] # None => key[c] \in {None, taker[c].key}

\* NOBODY IS FORGOTTEN.  A connection that a send has made waits for a listener that
\* runs, is served, or is closed, so that its sender finds out: no timeout, stop,
\* refusal or lost ack, of its own connection or of another one, leaves it open with
\* nobody to serve it (receive_once_content_internal, listen_content_internal).
NobodyIsForgotten ==
    \A c \in Clients :
        stage[c] \in {"write", "await"} =>
            \/ c \in Waiting /\ Listening
            \/ serving = c
            \/ c \in closed

\* EVERY SEND RETURNS while its receiver's host answers: other senders that
\* stall or vanish hold it up for a bounded time (the timeouts of
\* receive_once_content_internal and listen_content_internal).
SendsReturn ==
    []~lost => \A c \in Clients : stage[c] \in Open ~> stage[c] \notin Open

\* RECEIVE ENDS, whether or not somebody connects or sends (CLIPBOARD_TIMEOUT).
ReceiveEnds == []~lost => (at # "off" /\ cmd.once ~> at = "off")

\* EVERY SEND RETURNS, in a time that `timeout_secs' of the configuration bounds
\* ("Timeout in seconds for clipboard sync", config.rs:221).
EverySendReturns == \A c \in Clients : stage[c] \in Open ~> stage[c] \notin Open

\* THE HANDOVER.  The commands implement Handover: a success is reported only
\* of a content that was taken, and contents are taken one at a time.
Told(c) == IF stage[c] \in {"ok", "failed"} THEN stage[c] ELSE "nothing"

H == INSTANCE Handover WITH
        Contents <- Content,
        told     <- [c \in Clients |-> Told(c)],
        taken    <- {c \in Clients : taker[c] # None},
        held     <- Held

HandoverImplemented == H!Spec
=============================================================================
