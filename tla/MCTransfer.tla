------------------------------- MODULE MCTransfer -------------------------------
(***************************************************************************)
(* Instances of the one-shot transfers for TLC.                            *)
(***************************************************************************)
EXTENDS Transfer, TLC

CONSTANTS
    s1, s2,  \* runs of the sending command
    k1, k2,  \* keys
    e, t1,   \* texts; e is the empty one
    i1, i2   \* images

Identity == [t \in Texts |-> t]

\* Data of i1 fits when it is in the clear, and is too long when sealed.
Sizes == (e :> 0) @@ (t1 :> 3) @@ (i1 :> 9) @@ (i2 :> 3)

Of(x, k) == [content |-> x, key |-> k]

\* One sends in the clear, or an image that is too long once sealed, the other
\* one with a key.
TwoOffers == (s1 :> {Of(Text(t1), None), Of(Image(i1), None), Of(Image(i1), k1)})
             @@ (s2 :> {Of(Text(t1), k2), Of(Image(i2), k1)})
OneOffer  == (s1 :> {Of(Text(t1), k1)})

Limits(run, stop, net, write, vanish) ==
    [x \in BudgetKinds |->
        CASE x = "run"    -> run
          [] x = "stop"   -> stop
          [] x = "net"    -> net
          [] x = "write"  -> write
          [] x = "vanish" -> vanish]

\* The receiver runs three times, with one fault of each kind.
EachFaultOnce == Limits(3, 1, 1, 1, 1)
HostVanishes  == Limits(1, 0, 0, 0, 1)

receive(k)   == [once |-> TRUE, text |-> FALSE, key |-> k]
listen(k)    == [once |-> FALSE, text |-> FALSE, key |-> k]
receive_text == [once |-> TRUE, text |-> TRUE, key |-> None]
listen_text  == [once |-> FALSE, text |-> TRUE, key |-> None]

AllCommands == {receive(k1), listen(k1), receive_text, listen_text}
OneCommand  == {listen(k1)}
=============================================================================
