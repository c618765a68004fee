-------------------------------- MODULE MCDaemon --------------------------------
(***************************************************************************)
(* Instances of the daemons for TLC: the values the configurations give to *)
(* the constants of Daemon.                                                *)
(***************************************************************************)
EXTENDS Daemon, TLC

CONSTANTS
    a, b, c,        \* hosts
    k1, k2,         \* keys
    i1,             \* an image
    e,              \* the empty text
    t1, t2, t3, t4  \* texts; where trimming matters t1 is t2 with a newline

-----------------------------------------------------------------------------
(* Bounds on what the environment does.                                    *)

Limits(copy, send, net, silent, write, crash) ==
    [x \in BudgetKinds |->
        CASE x = "copy"   -> copy
          [] x = "send"   -> send
          [] x = "net"    -> net
          [] x = "silent" -> silent
          [] x = "write"  -> write
          [] x = "crash"  -> crash]

TwoCopies      == Limits(2, 0, 0, 0, 0, 0)
EachFaultOnce  == Limits(1, 1, 1, 1, 0, 1)
CopiesOrFault  == Limits(2, 0, 1, 1, 0, 1)
SendsAndFaults == Limits(1, 1, 1, 1, 1, 0)
CopiesAndSend  == Limits(2, 1, 1, 0, 0, 0)

-----------------------------------------------------------------------------
(* Configurations of the hosts.                                            *)

OneKey     == [n \in Nodes |-> k1]
AllWayland == [n \in Nodes |-> "Wayland"]
WithWsl    == [n \in Nodes |-> IF n = a THEN "Wayland" ELSE "Wsl"]
NoTrim     == [t \in Texts |-> t]
TrimFirst  == [t \in Texts |-> IF t = t1 THEN t2 ELSE t]
TwoTexts   == [k \in Keys \cup {None} |-> {Text(t1), Text(t2)}]
ThreeTexts == (k1 :> {Text(t1), Text(t2), Text(t3)}) @@ (None :> {Text(t1)})
LongText   == {Text(t2)}

\* Every host lists the others; only a lists the others; a lists itself too,
\* as with the one configuration for all devices of README.md:38-43.
OtherPeers == [n \in Nodes |-> Nodes \ {n}]
OneWay     == [n \in Nodes |-> IF n = a THEN Nodes \ {a} ELSE {}]
SelfPeer   == [n \in Nodes |-> IF n = a THEN Nodes ELSE Nodes \ {n}]

\* Three hosts on three backends; c has another key, and b sends to it anyway.
MixedPeers   == (a :> {b}) @@ (b :> {c}) @@ (c :> {b})
MixedKey     == (a :> k1) @@ (b :> k1) @@ (c :> k2)
MixedBackend == (a :> "Wayland") @@ (b :> "Wsl") @@ (c :> "Windows")
MixedWords   == (k1 :> {Text(t1), Text(t2), Image(i1)})
                @@ (k2 :> {Text(t3)}) @@ (None :> {Text(t4)})
=============================================================================
