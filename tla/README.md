# cb-sync in TLA+

A model of cb-sync, the clipboard synchronisation daemon of this repository:
what its daemons promise, under which conditions they keep it, and where the
code does something else than its documentation says. Paths below are relative
to the repository; `daemon.rs`, `sync.rs`, `protocol.rs`, `crypto.rs`,
`clipboard.rs` and `config.rs` are in `crates/cb-core/src`, `main.rs` in
`crates/cb-cli/src`, `cb-sync.service` in `contrib/systemd`.

## The system

| Component | State it keeps | Operations | Interacts with |
|---|---|---|---|
| Daemon main loop (`daemon.rs` `run`, `poll_clipboard`) | `DaemonState`: `last_content_hash`, `last_received_hash`, `last_received_time` | poll tick, accept, Ctrl+C | reads the clipboard, spawns sender tasks and handlers, shares `DaemonState` with handlers |
| Sender tasks (`daemon.rs` `broadcast_content`, `sync.rs` `send_internal`) | attempt number, content | connect, write, await ack, retry | one task for each peer of each broadcast, unordered |
| Handlers (`daemon.rs` `handle_connection`) | the message, the content | read, parse, reject plaintext, decrypt, ack, store hashes, write clipboard | one task for each connection; concurrent with each other and with the poll |
| Wire protocol (`protocol.rs`) | none | constructors, `decrypt_content`, `content`, predicates | sender and receivers |
| Crypto (`crypto.rs`) | none | key derivation and encoding, seal, open | protocol |
| Clipboard backends (`clipboard.rs`) | the selection of the desktop, outside of the process | read, write, `has_image`, backend detection | daemon, command line |
| One-shot transfer (`sync.rs` `send_internal`, `receive_once*`, `listen*`) | the connection being served; the kernel keeps a backlog | connect, write, await the ack; bind, accept with timeout, read with timeout, ack, callback | command line, peer |
| Configuration (`config.rs`) | the file | load (defaults on any error), example, keys, targets | command line, daemon, user's editor |
| Command line (`main.rs`) | none | send, receive, listen, daemon, config init; `get_key`, `resolve_target`, `parse_addr`, `handle_received_content` | everything |
| User unit (`cb-sync.service`) | systemd's state of the unit | start, stop, restart after a failure | the daemon's exit status |

What is hard about it: three kinds of tasks share one lock that covers neither
the read nor the write of the clipboard; the clipboard also belongs to the user;
messages of different tasks overtake each other; an ack says that a content was
decrypted, not that it was applied; a process that restarts has forgotten what
it received; a loop prevention by hashes and a cooldown has to tell a content
that was received from one that was copied. A one-shot receiver serves one
connection after the other while clients stall, break or vanish, and also
acknowledges before it has handled anything. The start of a command depends on
arguments, variables and a file that may change, be broken or be missing, and on
a desktop that may come later than the daemon.

What makes each component right:

* main loop: a change of the clipboard is processed in the end (`CatchesUp`);
  nothing is broadcast without a cause (`BroadcastsPaidFor`), nothing is dropped
  but what this daemon has broadcast or stored before (`DropsOnlyKnown`);
  received content is not broadcast (`NoEcho`);
* sender tasks: they end (`EverySendEnds`), because nothing sets one back
  (`AttemptsOnlyAdvance`), and use all the attempts the configuration gives them
  (`CopyReachesPeers`), so that as many connections lost with an error as there
  are retries lose nothing that fits into a message (`NothingDropped`);
* handlers: only content of the host's key gets through (`KeyIsolation`), once
  for each time it is sent (`OneDeliveryPerSend`);
* network: clipboards only change for a reason and along the configured edges
  (`NetRefinement`), what they show comes from a user who may send there
  (`ProvenanceHolds`), a copy reaches the peers, the clipboards agree
  (`Converges`) and sending stops (`ComesToRest`) once users have stopped;
* one-shot transfers: a success means that the content was taken, once
  (`HandoverImplemented`), and is handled unless something is known to have gone
  wrong (`AckedIsHandled`); a sealed content is shown only by who has its key
  (`KeyOpens`); no connection stays open with nobody to serve it
  (`NobodyIsForgotten`); one stalled client does not block the others for ever
  (`SendsReturn`) nor keep `receive` from ending (`ReceiveEnds`);
* configuration and command line: a secret that can be read is used
  (`SealedIfPossible`), the clipboard that works is chosen (`PicksWhatWorks`);
* service: a daemon runs only with what it needs (`RunsWhatItNeeds`), and runs in
  the end once that is there (`ServiceComesUp`).

## The modules

`Clipboard` has the contents, what each backend reads, writes and refuses, and
`hash_content`. Bytes are atoms. WSL reads a text back without its trailing
newlines (`Trim`), WSL and Windows have no images and make an error of an empty
text. `read_content` runs two commands (`has_image`, then a read); if the
selection changes between them the second one fails, and a failing poll changes
nothing, so one step is enough.

`Protocol` has the messages. Sealing is symbolic: a ciphertext opens with its
key only. Sizes are left to the modules that use it. Base64 is a wrapper whose removal can fail. JSON and the timestamps,
which no receiver reads, are left out.

`Daemon` composes the daemons of a network. Its actions are the steps between
two points where another task can run:

| Action | Code |
|---|---|
| `PollRead` | tick, `read_content`, hash, up to the lock (`daemon.rs` 129, 175-179) |
| `PollUnchanged`, `PollSkip`, `PollBroadcast` | the section under the lock; the last one also spawns the sender tasks, which touches nothing shared (181-211, 217-225) |
| `CooldownElapses` | `t.elapsed() < cooldown` turns false (190) |
| `Accept` | connect, accept by the main loop (only while no poll runs), spawn of the handler, write of the message |
| `Refused`, `Unreachable`, `PeerGone` | the errors of `send_internal`; each ends in the retry loop (`Failed`, 226-251) |
| `Reply` | read, parse, checks, decryption, ack (268-300); the ack is received in the same step, since nothing else waits for it |
| `Reject`, `Break` | the error returns before the ack is received; after `Break` the handler goes on if the message had come and the ack could be written |
| `Silence` | the connection is lost and no error reaches the sender: `send_internal` reads the ack without a timeout (`sync.rs` 84), so the task waits for ever |
| `HandlerStore` | 303-308 |
| `HandlerWrite`, `HandlerWriteFails` | 311; for an image on WSL or Windows only the second one |
| `Copy`, `CliSend`, `Crash`, `Start` | a user; `cb-sync send`; the end of the process with its tasks; `Daemon::new` and `run` |

`up`, `clip`, `polled`, `jobs` and `handlers` are the processes, the desktops,
the local variable of `poll_clipboard` and the two kinds of tasks; `cooling[n]`
stands for `last_received_time`: it is true while that is `Some` and younger
than the cooldown. A retry delay is the time until the next `Accept`. A crash
may take the selection of a Linux desktop with it, because the `wl-copy` or
`xclip` that serves it dies with the service. A crash is that of a process: the
kernel closes its sockets and the peer notices (`PeerGone`). A lost connection
has two forms, each with a budget of its own: the sender gets an error (`net`) or
is told nothing (`silent`). A host that vanishes is `Silence` for the tasks that
wait for it, and `Crash`. A task that waits for ever can take no step any more
and is taken out of `jobs`.

A message longer than `MAX_MESSAGE_SIZE` is cut (`daemon.rs` 268) and no longer
JSON (281): the peer refuses it on every attempt, without any fault, and the
sender gives up. `Oversized` are the contents whose sealed line is that long;
`IsAcceptable` has the check. Which contents those are is a constant here; how the
length comes about is in `Transfer` (`Length`).

`DaemonHistory` adds history variables (how much was broadcast, sent and stored,
who set a clipboard last, what each host has shown, what its user has copied, and
`known`: the hashes of what its daemon has broadcast or stored since it started) and
states the properties that need them. They decide nothing, except that polls stop at
`MaxBroadcasts`. `SerialSpec` restricts it to behaviours in which nothing
disturbs a handler between its two writes. `ClipboardNet` is the abstract
network, with clipboards and what users have copied and sent. It also says what
follows for any group of hosts that nobody outside can send to (`Closed`):
whatever they show was `Given` to one of them (`Provenance`).

`Transfer` has the one-shot commands: several runs of `cb-sync send` towards a
host where `receive`, `listen` or one of the text-only functions of the library
is run, again and again. Kernel and process are kept apart, because what a sender
learns depends on it: a connection is made when the kernel queues it (`backlog`),
a line has come when it is in the kernel's buffer (`arrived`), the sockets of a
process that ends are closed for it (`closed`), and a host that vanishes closes
nothing.

| Action of `Transfer` | Code |
|---|---|
| `Send` | `Commands::Send` with a content and a key or none, up to the connection |
| `Connect`, `Refused`, `Write` | `sync.rs` 69-73 |
| `GetAck`, `GetClosed` | 84-94: the line that is read, or its absence |
| `TcpGivesUp`, `Break`, `Vanish` | the kernel's timeouts; a reset or an interrupted send; the sending host gone without a word |
| `Run`, `Accept`, `AcceptTimeout` | bind; accept with `CLIPBOARD_TIMEOUT` under `receive`, without an effect under `listen` |
| `Read`, `ReadFails`, `Reject` | the read with its timeout, parse, `extract_content`; a message above `MAX_MESSAGE_SIZE` is cut and refused |
| `Reply`, `ReplyFails` | the ack; when it cannot be written `receive` returns the error and `listen` goes on to the callback |
| `Drop`, `Deliver` | the text-only callbacks; `handle_received_content` of `main.rs`: the content ends on the clipboard or in a file, or the write fails |
| `Stop`, `ReceiverVanishes` | a signal; the host gone |

`Handover` is what these commands promise, in five variables: a content is
offered, taken, handled or lost, and its sender is told `ok` only after it was
taken.

`Service` has the start of the commands of one user on one host. Pure functions
of the code are operators of the same name (`load`, `get_key`, `resolve_target`,
`parse_addr`, `detect_display_server`, `create_clipboard`); strings are atoms,
and whether the address parser or base64 accepts one is a constant.

| Action of `Service` | Code |
|---|---|
| `Launch`, `LaunchFails` | `Commands::Daemon` (`main.rs`): load, key, peers, addresses |
| `Bind`, `BindFails` | `daemon.rs` 117-124: clipboard, bind, the interval that panics on a zero period |
| `Crash`, `Restart`, `StartUnit`, `StopUnit` | `cb-sync.service`: `Restart=on-failure`, start and stop. A SIGTERM, SIGINT, SIGHUP or SIGPIPE is a clean end to systemd, whoever sends it: `StopUnit`, not `Crash` |
| `InitCheck`, `InitWrite` | `config init`: the key, which `main` asks for before every command (196), the test for a file, and the later write |
| `Send` | `Commands::Send` up to the transfer |
| `Edit`, `TakePort`, `LeavePort`, `DesktopChanges` | the user's editor, other processes, the session and its tools |

`MCDaemon`, `MCHistory`, `MCTransfer` and `MCService` are the instances for TLC.
`ProtocolProofs`, `DaemonProofs`, `HistoryProofs`, `NetProofs`, `DeliveryProofs`,
`EchoProofs`, `TransferProofs` and `ServiceProofs` hold the theorems. The operators called fault variants are
plausible errors of the code (a dropped update, one attempt too few, a missing
check) with which each property was seen to fail.

## The runs

| Run | Instance | What it shows |
|---|---|---|
| `Exchange` | 2 hosts, 2 texts, 2 copies by either user, a self-listed host, a WSL host | `BroadcastsPaidFor` under concurrent copies |
| `Faults` | 3 hosts in a chain, 3 backends, 2 keys, an image, a text and one that is too long; a copy, a command line send, a connection lost with an error, one lost silently, a crash | `HTypeOK`, `KeyIsolation`, `BroadcastsPaidFor`, `OneDeliveryPerSend`, `ProvenanceHolds`, `NetRefinement`, `DropsOnlyKnown`, `AttemptsOnlyAdvance` |
| `Serial` | 2 hosts, 2 copies of 3 texts, one of them too long, a send, a network fault, one retry, `SerialSpec` | `NoEcho`: with undisturbed handlers the loop prevention works, before and after the cooldown; `NothingDropped` |
| `Progress` | 2 hosts, 2 copies of 2 texts, one of them too long, a connection lost with an error, one lost silently, a crash, one retry, fair | `CopyReachesPeers`, `CatchesUp` |
| `Sends` | 2 hosts, a copy, a command line send with the key or without, one of the texts too long, a connection lost with an error, one lost silently, a failing write, one retry, fair | `TypeOK`, `EverySendEnds` |
| `Echo` | as `Exchange`, without trimming | `NoEcho` is violated |
| `Overtaken` | one user, one direction, 2 copies, fair | `Converges` is violated |
| `Loop` | 2 hosts, 2 copies, fair | `ComesToRest` is violated |
| `Handed` | 2 sends (in the clear, with the receiver's key, with another one; a text, an image, an image that is too long once sealed), 3 runs out of a `receive`, a `listen` and their text-only forms, a stop, a break, a failed write and a vanished host, fair | `TTypeOK`, `AckedIsHandled`, `KeyOpens`, `NobodyIsForgotten`, `HandoverImplemented`, `SendsReturn`, `ReceiveEnds` |
| `Vanished` | 1 send, 1 `listen`, its host may vanish, fair | `EverySendReturns` is violated |
| `StartUp` | 5 configurations (complete, or with one mistake each), 4 desktops, 2 environments, 2 edits and one of everything else, fair | `STypeOK`, `RunsWhatItNeeds`, `SealedIfPossible`, `PicksWhatWorks`, `ServiceComesUp` |
| `Priority` | 1 send with a password as argument and a key in the environment | `PriorityKept` is violated |

The bounds. `Budget` bounds what the environment does: copies, command line
sends, lost connections of both kinds, failing writes and crashes. Two copies are what it takes
to have something older and something newer; one fault of a kind against one
retry gives both success after a fault and giving up. `NothingDropped` is checked in
`Serial`, with two users, two slots and one fault against one retry, until a command line
send ends its premise, and for the texts that fit as long as no host has had the
long one (`AllFit`); the timing that `Serial` excludes, between the two
writes of a handler, touches no sender task, and its theorem has no such restriction.
`Slots` bounds the
broadcasts of one host in flight; a host does not poll while its slots are
used, which delays polls and never drops one. Two slots let the tasks of two
broadcasts overtake each other. `MaxBroadcasts` bounds the history counters and
only stops polling. Both of these bounds only remove behaviours, so a
counterexample is one of the unbounded system; the theorems have no need of
them, since they hold for every value.

In `Faults` contents go along a chain, `a` to `b`, which has its key, and `b` to `c`,
which has another one and lists `b`: what a host passes on is received first, and a
refusal for the wrong key and one for the length are both met. Silent losses are left
out of `Exchange` and `Serial`, whose properties do not depend on them
(`BroadcastsPaidFor` is checked with one in `Faults`, `NothingDropped` excludes them,
and to `NoEcho` it makes no difference what becomes of a sender).

In `Transfer`, two sends let one wait behind the other, three runs of the receiver
make a command meet what an earlier one left (a sender whose connection was closed,
or that was never accepted), and one fault of each kind can hit any stage of
either. In `Service`, two edits take the file from nothing over a faulty
configuration to a complete one, or back, while the daemon starts from what was there before; there
is one crash, one port taken, one change of the desktop, each at any step. Both
modules have theorems for the safety properties, which need no bound.

Deadlock is not checked where a network can come to rest: a daemon whose
clipboard is empty polls and fails without a change, and a bound may end the
polls. Nor is it checked where commands simply end and nobody runs another one
(`Handed`, `Vanished`), or where a daemon runs undisturbed, its steady state in
`Service` (`StartUp`). `Overtaken`, `Loop` and `Priority` check it.

Fairness (`Fairness` in `Daemon`). The tokio runtime runs every task that is
ready, and the poll ticks for ever: weak fairness of the poll, of each step of
a handler, and of the error returns of a sender. For the polls and the writes this
assumes that the clipboard commands return: they block a thread of the runtime, and
nothing in the code bounds how long. `Accept` is enabled only
between two polls; `select!` picks among ready branches at random, so that a
connection that is waiting between polls again and again is taken: strong
fairness. Users, the network, crashes and starts, and the passing of the
cooldown have no fairness. `EverySendEnds` and `CopyReachesPeers` assume that no
connection is lost silently (`spent["silent"] = 0`): after `Silence` the sender task
does not end.

In `Transfer` it is weak fairness of the receiving command and of each send: a
process is scheduled, a clipboard command returns, a network delivers or reports, and
a timeout passes. A send that waits for the ack of a host that vanished has no enabled step, so
nothing is assumed of it. Nobody has to run, stop or vanish. `SendsReturn` and
`ReceiveEnds` assume that the receiver's host does not vanish (`[]~lost`);
the senders may. In `Service` it is weak fairness of what systemd and a start do.
`ServiceComesUp` assumes that from some time on the file, the port and the user
permit the daemon to run (`<>[]Ready`); `RestartSec` keeps the restarts below the
limit at which systemd gives up.

### Where the code and its documentation disagree

* `Echo`. README.md:137 says "Won't re-broadcast received content". A handler
  stores the hash of a new content before it writes the clipboard. A poll
  between the two (or one that had read before) sees the older content, which
  was received too, compares it with the new hash and broadcasts it.
* `Overtaken`. README.md:52 says "Copy on any device, paste on all others". The
  sender tasks of two broadcasts race. If the older one comes last the peer ends
  with the older content, and both daemons consider everything processed.
* `Loop`. abst.md:19 says that infinite loops of sending changes back are
  detected and prevented. Two contents copied at the same time are swapped, and
  with polls that fall between the two writes of a handler, or are overtaken by
  one, they are swapped again for ever. `BroadcastsPaidFor` bounds the rate: each
  reception pays for at most two broadcasts.

* `Vanished`. config.rs:221 describes `timeout_secs` as "Timeout in seconds for
  clipboard sync". No transfer uses it (`config show` prints it, main.rs:371): the
  receivers have a constant of their own and the sender waits for the ack without
  any timeout (sync.rs:84). When the receiving host vanishes after its kernel took
  the message, the send never returns. The sender task of a daemon waits in the same
  way (`Silence`), and its content is not sent again.
* `Priority`. main.rs:151 says "Priority: CLI args > env vars > config file".
  `clap` fills `cli.key` from CB_SYNC_KEY before `get_key` runs, and `get_key` looks at
  the key first (154): with that variable set, `--password` is ignored.

Met while stating the properties, without a run of their own:

* a copy is never broadcast if the same content was delivered to the host by a
  command line send before the next poll, which is why `CopyReachesPeers` excludes
  those (`Calm`);
* an acknowledged content may be lost, because both receivers acknowledge before
  they handle it: the exceptions in `AckedIsHandled` are the ways;
* the text-only functions acknowledge an image and drop it, so its sender reports
  success (`taker[c].text` in `AckedIsHandled`);
* a copy that is too long once sealed is refused by every peer and the daemon gives
  up after its retries, without any fault: `CopyReachesPeers` and `NothingDropped`
  exclude it (`Oversized`, `AllFit`);
* the images that a receiver saves are named after the second they came in, so that
  two of one second overwrite each other, and an `--image-dir` (main.rs:85 calls it a directory)
  that does not exist yet is used as the name of one file, which every
  image overwrites;
* config.rs:161 says that `load` returns the defaults if the file does not exist; it
  does so for a file that cannot be read or parsed as well, so that a send whose
  key stands in such a file goes out in the clear: the exception in
  `SealedIfPossible`;
* main.rs:570 lists a hostname among the targets; `parse_addr` accepts addresses
  only, and of IPv6 only what still parses once a port is added (`Addresses`).

## The theorems

For all hosts, keys, peers, backends, contents, retries and bounds, from the
named assumptions of `Clipboard`, `Protocol`, `Daemon`, `Transfer` and `Service` (in essence: `Trim` is
a function on texts; `None` is no content, key, hash or encoding; the configuration
has the types one expects; what a backend reads back of a content of a key is
again a content of that key):

* `TypeCorrect` and `KeysIsolated` (`DaemonProofs`), from one inductive
  invariant `Inv`. Neither property is inductive. Every message in flight was
  sealed with the key its content belongs to (`JobsOfKey`, `HandlersOfKey`), a
  handler that has acknowledged has opened its message with its host's key
  (`IsAcceptable`), so by `SealedRoundTrip` the content it stores and writes is of
  that key; a poll that was read before the clipboard changed keeps to it too
  (`PolledOfKey`). The type of a stored hash depends on the second fact, which
  is why types and keys are proved together.
  `SealedRoundTrip` and `ClearRoundTrip` (`ProtocolProofs`) say that what is sealed
  or wrapped comes back as it was, with the same key only.
* `HistoryObserves`: the specification with history implements the one without.
* `BroadcastsBounded` (`HistoryProofs`). The bound on broadcasts is not
  inductive by itself; what a poll could still broadcast (`Owed`, at most two) is
  added to it. A change of the clipboard or of the state adds one to what is
  owed and one to the changes (`ClipChanges`, `StateChanges`); reading adds
  nothing (`ReadOwed`); processing a content pays one (`Processed`).
* `RefinesNet` (`NetProofs`): the daemons implement `ClipboardNet`. The
  invariant `NetInv` traces what is on its way to where it came from: a content
  read by a poll, or carried by a sender task or a handler, was seen on the
  clipboard of its sender, which lists the receiver and sealed it with its key
  (`Rightful`), or was sent by a command line user. It is needed because a
  clipboard may have changed, and its daemon stopped, long before the content
  arrives. A handler's write is then `Arrives` (`WriteArrives`, by
  `AcceptedIsSent`), a crash may be `Loses`, and all else is a copy, a command
  line send, or a stutter (`NetStep`).

* `HistoryTypes` (`NetProofs`): the types of the history variables. They need
  `NetInv` for the contents that `seen` and `sent` collect.
* `ContentHasOrigin` (`NetProofs`), for every group of hosts that is closed. It is
  proved of the abstract network, by whose steps the daemons move (`NetStep`). The
  clipboards alone are not inductive: a content may arrive long after the
  clipboard it was read from has changed, so the same is said of everything a
  host has ever shown (`Traced`). That WSL trims each text it reads does not
  spread, since trimming twice is trimming once (`ReadTrims`, `ReadsOfReads`).
* `DropsKnown` (`NetProofs`): from `StateKnown`, each of the two hashes is `None` or one
  of what was broadcast or stored since the start. It rests on the
  assumption that a stored hash is not `None` (`HashAssumption`).
* `DeliveredOnce` (`DeliveryProofs`): a content is stored once for each sender task,
  and a second time only for a network fault. The invariant says which tasks and
  handlers belong together (`Distinct`): a slot, sender and receiver have one task and
  each attempt of it one handler (`JobsDistinct`, `HandlersDistinct`), no handler is
  ahead of its task (`AttemptsOrdered`), and nobody waits for a handler that has
  answered (`Answered`). So each step moves at most one expected delivery: an ack
  turns a task into a handler that owes its delivery (`ReplyDue`), a store pays it
  (`StoreDue`), only a broken connection leaves both (`BreakDue`), and a process that
  ends, or a task that waits for ever, leaves at most one handler for each task that
  is gone (`FewerDue`).
* `RetriesMaskFaults` (`DeliveryProofs`), from `DropInv`: as long as hosts share a key,
  no process stops, no connection is lost silently, no host has had a content that is
  too long for a message, and at most `MaxRetries` connections were lost with an error,
  nothing is dropped. That no content is
  missing cannot be shown by counting alone: a task must not have used up its
  attempts without faults, nor wait for a handler that is gone or will refuse it.
  `Standing` says so: no task has made more attempts than there were network
  faults, each task that waits has a handler that has not answered yet, and all of
  them come from hosts. Then `Reply` turns a task into a pending content
  (`ReplyKeeps`), `HandlerStore` a pending content into a stored one (`StoreKeeps`), a
  fault leaves a task that may try again (`RetryCounts`, `BreakKeeps`), and a
  message is never refused, since hosts of one key sealed it and, having been read on
  a clipboard, it fits (`AllAcceptable`, from `AllFit`). The premises are needed: a crash
  takes tasks and handlers along, after a silent loss the sender waits for an answer
  that does not come, a peer with another key refuses every attempt, and every peer
  refuses a content that is too long, and a command line send has no retry.
* `TasksAdvance` (`DeliveryProofs`): by the `Distinct` of `DeliveredOnce`, the task of
  a slot after a step is the one before it, and either it connects or it is one
  attempt further; `ToGo` counts what is left. With `TypeCorrect` this is the safety
  half of `EverySendEnds`: at most `2 * MaxRetries + 2` steps of a task.
* `EchoPrevented` (`EchoProofs`): under `SerialSpec`, and `Steady`, there is no echo.
  The invariant is that a clipboard which its user did not set shows what the daemon
  has processed (`ShownProcessed`), or will as soon as the handler that stored the
  hash has written the content (`StoredComes`); so a poll that finds something new
  has read a copy of the user (`PolledProcessed`). `Steady` names what it takes
  besides the timing: backends that read back what they were given (WSL trims it, WSL
  and Windows refuse images), no write that fails and no restart. After each of
  those a daemon broadcasts what it has received, even if nothing disturbs its
  handlers.
* `TransferInvariant`, `TransferTypes`, `AckedIsHandledAlways`, `KeyOpensAlways`
  (`TransferProofs`), from the invariant `TInv`. `AckedIsHandled` speaks of senders
  that know of their success; by then the receiver may have gone on to others.
  So the same is said of every content that was taken (`TakenIsHandled`), which
  the receiver's steps preserve, and `Senders` connects the two: success comes from
  an ack, an ack from a taking. A content is taken once because a connection is
  in one place only: not made, once in the backlog, served, or over (`Queued`,
  `Served`). What is served is what was offered, opened with the key of the
  command that took it (`ReceivedIsOffered`, by the round trips).
* `NobodyIsForgottenEver`: with `QueueIsServed`, a queue has a listener. Without that the
  next command that is run could find connections that an earlier one has left.
  It is the safety half of `SendsReturn`.
* `HandoverRefined`: `Transfer` implements `Handover`. `Send` is `Offer`; `Refused`,
  `GetClosed`, `TcpGivesUp` and `Break` are `Fail`; `GetAck` is `Confirm`; `Reply`, and
  `ReplyFails` under `listen`, are `Take`; `Deliver` is `Handle`, or `Lose` when
  nothing could be written; `Drop` is `Lose`; `Stop` is `Lose` when a content was
  held. All else changes nothing that `Handover` speaks of.
* `ServiceTypes`, `RunningIsChecked`, `SecretsAreUsed`, `WorkingIsPicked`
  (`ServiceProofs`). A running daemon has what it needs because the configuration
  that `Launch` checked is the one it keeps, from the check to the bind and whatever
  the file becomes (`LaunchChecked`, the strengthening). The other two are about every
  combination of arguments, variables and files, and of desktops and tools.

Only model-checked: the liveness properties (`CopyReachesPeers`, `CatchesUp`,
`EverySendEnds`, `SendsReturn`, `ReceiveEnds`, `ServiceComesUp`), because the provers do
not treat `ENABLED`, in which weak and strong fairness are stated. What they need
of safety is proved for every instance: a task's attempts run out
(`TasksAdvance`), none is lost before that (`RetriesMaskFaults`), a poll drops only
what was processed (`DropsKnown`), a connection always has somebody to end it
(`NobodyIsForgottenEver`).

## Not modelled, and what is left

Not modelled, and why:

* `--peers` and `--poll-interval` of `cb-sync daemon`, which override the file: the
  unit passes neither, and the checks of `MayStart` are the same for both sources;
* the port (`get_port`): one number for all commands of a host, so the model has one port;
* what `cb-sync send` takes as content (arguments, standard input, a file, the
  clipboard): a choice made before anything that is modelled here, and its
  outcome is any content;
* `copy`, `paste`, `info`, `config show` and the other printing commands: one
  clipboard command or one line of output, without state;
* `save`, `TargetConfig::resolve` and `is_enabled` of the configuration: nothing but
  tests calls them;
* where a received image goes and under which name (`handle_received_content`): the
  name has the second in which it was chosen, the write comes later, and the clock may
  step back, so that nothing follows from the names; `got` is what was put on the
  clipboard or into some file;
* selections that offer several formats: which formats there are is decided by
  the application that owns the selection;
* key derivation and encoding, JSON, logging, file modes, error wording, the
  installer and the notification unit: pure functions of libraries, or no
  behaviour of the program.

What is left: a composition of `Service` with `Daemon`, in which a restart by
systemd is the `Start` of a daemon with another configuration, so that the peers of
a host and its key change while messages under the old ones are on their way.
