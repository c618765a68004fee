-------------------------------- MODULE Handover --------------------------------
(***************************************************************************)
(* What a one-shot transfer promises (cb-core/src/sync.rs): a receiver     *)
(* takes the contents that senders offer one at a time, and a sender is    *)
(* told `ok' only for a content that was taken.  A content that was taken  *)
(* may be lost before it is handled, and a sender may be told `failed' of  *)
(* a content that was taken.                                               *)
(***************************************************************************)
CONSTANTS
    Clients,   \* those who offer a content, once each
    Contents,  \* what they offer
    None

VARIABLES
    offer,  \* offer[c]: what c has offered, or None
    told,   \* told[c]: what c was told
    taken,  \* the clients whose content the receiver has taken
    held,   \* the client whose content is taken and not yet handled, or None
    got     \* got[c]: what the receiver has handled of c

vars == <<offer, told, taken, held, got>>

Init ==
    /\ offer = [c \in Clients |-> None]
    /\ told = [c \in Clients |-> "nothing"]
    /\ taken = {}
    /\ held = None
    /\ got = [c \in Clients |-> None]

Offer(c, x) ==
    /\ offer[c] = None
    /\ offer' = [offer EXCEPT ![c] = x]
    /\ UNCHANGED <<told, taken, held, got>>

Take(c) ==
    /\ offer[c] # None /\ c \notin taken /\ held = None
    /\ taken' = taken \cup {c}
    /\ held' = c
    /\ UNCHANGED <<offer, told, got>>

Handle ==
    /\ held # None
    /\ got' = [got EXCEPT ![held] = offer[held]]
    /\ held' = None
    /\ UNCHANGED <<offer, told, taken>>

Lose ==
    /\ held # None
    /\ held' = None
    /\ UNCHANGED <<offer, told, taken, got>>

Confirm(c) ==
    /\ c \in taken /\ told[c] = "nothing"
    /\ told' = [told EXCEPT ![c] = "ok"]
    /\ UNCHANGED <<offer, taken, held, got>>

Fail(c) ==
    /\ offer[c] # None /\ told[c] = "nothing"
    /\ told' = [told EXCEPT ![c] = "failed"]
    /\ UNCHANGED <<offer, taken, held, got>>

Next ==
    \/ \E c \in Clients : Take(c) \/ Confirm(c) \/ Fail(c)
    \/ \E c \in Clients, x \in Contents : Offer(c, x)
    \/ Handle
    \/ Lose

Spec == Init /\ [][Next]_vars
=============================================================================
