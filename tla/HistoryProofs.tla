------------------------------ MODULE HistoryProofs ------------------------------
(***************************************************************************)
(* Theorems about the daemons with history variables.  The inductive       *)
(* invariant of DaemonProofs holds of them, because history variables only *)
(* observe; what is added is how each step changes what a daemon owes.     *)
(***************************************************************************)
EXTENDS DaemonHistory, DaemonProofs

-----------------------------------------------------------------------------
(* The history variables never change what the daemons do.                 *)

LEMMA HInitImpliesInit == HInit => Init
  BY DEF HInit

LEMMA HNextImpliesNext == [HNext]_hvars => [Next]_vars
  <1> SUFFICES ASSUME [HNext]_hvars PROVE [Next]_vars
    OBVIOUS
  <1>1. CASE \E n \in Nodes : HPollRead(n) \/ HPollBroadcast(n) \/ HStart(n)
    BY <1>1 DEF HPollRead, HPollBroadcast, HStart, Next, MainLoop, Environment
  <1>2. CASE \E h \in handlers : HHandlerStore(h) \/ HHandlerWrite(h)
    BY <1>2 DEF HHandlerStore, HHandlerWrite, Next, Handling
  <1>3. CASE \E n \in Users : \E c \in Vocabulary[Key[n]] : HCopy(n, c)
    BY <1>3 DEF HCopy, Next, Environment
  <1>4. CASE \E p \in Nodes, k \in Keys \cup {None} : \E c \in Vocabulary[k] : HCliSend(p, c, k)
    BY <1>4 DEF HCliSend, Next, Environment
  <1>5. CASE Unrecorded
    BY <1>5 DEF Unrecorded, Next, MainLoop, Handling, Environment
  <1>6. CASE UNCHANGED hvars
    BY <1>6 DEF hvars
  <1> QED
    BY <1>1, <1>2, <1>3, <1>4, <1>5, <1>6 DEF HNext

\* So every invariant of the daemons is one of the daemons with history.
THEOREM HistoryObserves == HSpec => Spec
  BY HInitImpliesInit, HNextImpliesNext, PTL DEF HSpec, Spec

LEMMA InvAlways == HSpec => []Inv
  BY HistoryObserves, InvInit, InvNext, PTL DEF Spec

-----------------------------------------------------------------------------
(* What a daemon owes, as the clipboard, the state and the poll change.    *)

LEMMA OwedNat == \A p, r, l : OwedFor(p, r, l) \in 0 .. 2
  BY DEF OwedFor, OneIf

\* A change of the clipboard, or of the state, adds at most one.
LEMMA ClipChanges == \A p, r, rr, l : OwedFor(p, rr, l) <= OwedFor(p, r, l) + 1
  BY DEF OwedFor, OneIf

LEMMA StateChanges == \A p, r, l, ll : OwedFor(p, r, ll) <= OwedFor(p, r, l) + 1
  BY DEF OwedFor, OneIf

\* A read adds nothing, nor does the end of a poll that finds no change or dies.
LEMMA ReadOwed == \A r, l : r # None => OwedFor(r, r, l) <= OwedFor(None, r, l)
  BY DEF OwedFor, OneIf

LEMMA PollGone == \A p, r, l : /\ OwedFor(None, r, l) <= OwedFor(p, r, l)
                               /\ OwedFor(None, None, l) <= OwedFor(p, r, l)
  BY DEF OwedFor, OneIf

\* Processing a content that differs from the state pays one.
LEMMA Processed ==
    \A p, r, l : p # None /\ hash_content(p) # l =>
        OwedFor(None, r, hash_content(p)) + 1 <= OwedFor(p, r, l)
  BY DEF OwedFor, OneIf
-----------------------------------------------------------------------------
(* Every broadcast is paid for.                                            *)

CountersOK == changes \in [Nodes -> Nat] /\ broadcasts \in [Nodes -> Nat]

PaidInv == CountersOK /\ BroadcastsPaidFor

\* What host m owes and has paid is not touched by a step.
Untouched(m) ==
    /\ polled'[m] = polled[m] /\ clip'[m] = clip[m]
    /\ last_content_hash'[m] = last_content_hash[m]
    /\ broadcasts'[m] = broadcasts[m] /\ changes'[m] = changes[m]

\* A step of one host need only be looked at there.
LEMMA OnlyHere ==
    ASSUME BroadcastsPaidFor, NEW n \in Nodes,
           \A m \in Nodes \ {n} : Untouched(m),
           broadcasts'[n] + OwedFor(polled'[n], read_content(Backend[n], clip'[n]),
                                    last_content_hash'[n]) <= changes'[n]
    PROVE  BroadcastsPaidFor'
  BY DEF BroadcastsPaidFor, Owed, Readable, Untouched

\* The steps of the main loop.
LEMMA PollPaid ==
    ASSUME Inv, PaidInv, NEW n \in Nodes,
           HPollRead(n) \/ HPollBroadcast(n) \/
           ((PollUnchanged(n) \/ PollSkip(n)) /\ UNCHANGED history)
    PROVE  PaidInv'
  <1> DEFINE p == polled[n]
             r == Readable(n)
             l == last_content_hash[n]
  <1>1. /\ broadcasts[n] \in Nat /\ changes[n] \in Nat
        /\ broadcasts[n] + OwedFor(p, r, l) <= changes[n]
    BY DEF PaidInv, CountersOK, BroadcastsPaidFor, Owed
  <1>2. /\ polled \in [Nodes -> Selection]
        /\ last_content_hash \in [Nodes -> Hashes \cup {None}]
    BY DEF Inv, TypeOK
  <1>3. OwedFor(p, r, l) \in Nat /\ OwedFor(None, r, hash_content(p)) \in Nat
        /\ OwedFor(r, r, l) \in Nat /\ OwedFor(None, r, l) \in Nat
    BY OwedNat
  <1>4. CASE HPollRead(n)
    <2>1. /\ polled' = [polled EXCEPT ![n] = r] /\ p = None /\ r # None
          /\ UNCHANGED <<clip, last_content_hash, broadcasts, changes>>
      BY <1>4 DEF HPollRead, PollRead, state
    <2>2. OwedFor(r, r, l) <= OwedFor(p, r, l)
      BY <2>1, ReadOwed
    <2>3. broadcasts[n] + OwedFor(r, r, l) <= changes[n]
      BY <1>1, <1>3, <2>2
    <2>4. BroadcastsPaidFor'
      BY <1>2, <2>1, <2>3, OnlyHere DEF PaidInv, Untouched, Readable
    <2> QED
      BY <2>1, <2>4 DEF PaidInv, CountersOK
  <1>5. CASE HPollBroadcast(n)
    <2>1. /\ polled' = [polled EXCEPT ![n] = None]
          /\ last_content_hash' = [last_content_hash EXCEPT ![n] = hash_content(p)]
          /\ broadcasts' = [broadcasts EXCEPT ![n] = @ + 1]
          /\ UNCHANGED <<clip, changes>>
          /\ p # None /\ hash_content(p) # l
      BY <1>5 DEF HPollBroadcast, PollBroadcast, IsUnchanged
    <2>2. OwedFor(None, r, hash_content(p)) + 1 <= OwedFor(p, r, l)
      BY <2>1, Processed
    <2>3. broadcasts[n] + 1 + OwedFor(None, r, hash_content(p)) <= changes[n]
      BY <1>1, <1>3, <2>2
    <2>4. broadcasts'[n] = broadcasts[n] + 1 /\ broadcasts' \in [Nodes -> Nat]
      BY <2>1 DEF PaidInv, CountersOK
    <2>5. BroadcastsPaidFor'
      BY <1>2, <2>1, <2>3, <2>4, OnlyHere DEF PaidInv, CountersOK, Untouched, Readable
    <2> QED
      BY <2>1, <2>4, <2>5 DEF PaidInv, CountersOK
  <1>6. CASE PollUnchanged(n) /\ UNCHANGED history
    <2>1. /\ polled' = [polled EXCEPT ![n] = None]
          /\ UNCHANGED <<clip, last_content_hash, broadcasts, changes>>
      BY <1>6 DEF PollUnchanged, state, history
    <2>2. OwedFor(None, r, l) <= OwedFor(p, r, l)
      BY PollGone
    <2>3. broadcasts[n] + OwedFor(None, r, l) <= changes[n]
      BY <1>1, <1>3, <2>2
    <2>4. BroadcastsPaidFor'
      BY <1>2, <2>1, <2>3, OnlyHere DEF PaidInv, Untouched, Readable
    <2> QED
      BY <2>1, <2>4 DEF PaidInv, CountersOK
  <1>7. CASE PollSkip(n) /\ UNCHANGED history
    <2>1. /\ polled' = [polled EXCEPT ![n] = None]
          /\ last_content_hash' = [last_content_hash EXCEPT ![n] = hash_content(p)]
          /\ UNCHANGED <<clip, broadcasts, changes>>
          /\ p # None /\ hash_content(p) # l
      BY <1>7 DEF PollSkip, IsUnchanged, history
    <2>2. OwedFor(None, r, hash_content(p)) + 1 <= OwedFor(p, r, l)
      BY <2>1, Processed
    <2>3. broadcasts[n] + OwedFor(None, r, hash_content(p)) <= changes[n]
      BY <1>1, <1>3, <2>2
    <2>4. BroadcastsPaidFor'
      BY <1>2, <2>1, <2>3, OnlyHere DEF PaidInv, Untouched, Readable
    <2> QED
      BY <2>1, <2>4 DEF PaidInv, CountersOK
  <1> QED
    BY <1>4, <1>5, <1>6, <1>7

\* The steps that change the clipboard or the state, and count as a change.
LEMMA ChangePaid ==
    ASSUME Inv, PaidInv, NEW n \in Nodes,
           Change(n), UNCHANGED <<broadcasts, polled>>,
           \/ /\ UNCHANGED last_content_hash
              /\ \E c : clip' = [clip EXCEPT ![n] = c]
           \/ /\ UNCHANGED clip
              /\ \E x : last_content_hash' = [last_content_hash EXCEPT ![n] = x]
    PROVE  PaidInv'
  <1> DEFINE p  == polled[n]
             r  == Readable(n)
             l  == last_content_hash[n]
             rr == read_content(Backend[n], clip'[n])
             ll == last_content_hash'[n]
  <1>1. /\ broadcasts[n] \in Nat /\ changes[n] \in Nat
        /\ broadcasts[n] + OwedFor(p, r, l) <= changes[n]
    BY DEF PaidInv, CountersOK, BroadcastsPaidFor, Owed
  <1>2. OwedFor(p, r, l) \in Nat /\ OwedFor(p, rr, ll) \in Nat
    BY OwedNat
  <1>3. (ll = l) \/ (rr = r)
    BY DEF Readable
  <1>4. OwedFor(p, rr, ll) <= OwedFor(p, r, l) + 1
    BY <1>3, ClipChanges, StateChanges
  <1>5. changes'[n] = changes[n] + 1 /\ CountersOK'
    BY DEF Change, PaidInv, CountersOK
  <1>6. broadcasts[n] + OwedFor(p, rr, ll) <= changes[n] + 1
    BY <1>1, <1>2, <1>4
  <1>7. \A m \in Nodes \ {n} : Untouched(m)
    BY DEF Inv, TypeOK, PaidInv, CountersOK, Change, Untouched
  <1>8. BroadcastsPaidFor'
    BY <1>5, <1>6, <1>7, OnlyHere DEF PaidInv
  <1> QED
    BY <1>5, <1>8 DEF PaidInv

LEMMA CrashPaid ==
    ASSUME Inv, PaidInv, NEW n \in Nodes, Crash(n), UNCHANGED history
    PROVE  PaidInv'
  <1> DEFINE p == polled[n]
             r == Readable(n)
             l == last_content_hash[n]
  <1>1. /\ broadcasts[n] \in Nat /\ changes[n] \in Nat
        /\ broadcasts[n] + OwedFor(p, r, l) <= changes[n]
    BY DEF PaidInv, CountersOK, BroadcastsPaidFor, Owed
  <1>2. /\ polled' = [polled EXCEPT ![n] = None]
        /\ UNCHANGED <<last_content_hash, broadcasts, changes>>
        /\ clip' = clip \/ clip' = [clip EXCEPT ![n] = None]
    BY DEF Crash, state, history
  <1>3. read_content(Backend[n], None) = None
    BY ReadNone
  <1>4. /\ clip \in [Nodes -> Selection] /\ polled \in [Nodes -> Selection]
    BY DEF Inv, TypeOK
  <1>5. read_content(Backend[n], clip'[n]) \in {r, None}
    BY <1>2, <1>3, <1>4 DEF Readable
  <1>6. OwedFor(None, r, l) <= OwedFor(p, r, l) /\ OwedFor(None, None, l) <= OwedFor(p, r, l)
    BY PollGone
  <1>7. OwedFor(p, r, l) \in Nat /\ OwedFor(None, r, l) \in Nat /\ OwedFor(None, None, l) \in Nat
    BY OwedNat
  <1>8. broadcasts[n] + OwedFor(None, read_content(Backend[n], clip'[n]), l) <= changes[n]
    BY <1>1, <1>5, <1>6, <1>7
  <1>9. \A m \in Nodes \ {n} : Untouched(m)
    BY <1>2, <1>4 DEF Untouched
  <1>10. BroadcastsPaidFor'
    BY <1>2, <1>4, <1>8, <1>9, OnlyHere DEF PaidInv
  <1> QED
    BY <1>2, <1>10 DEF PaidInv, CountersOK

\* The steps that touch neither clipboards, nor polls, nor the hash compared.
LEMMA OtherPaid ==
    ASSUME PaidInv, UNCHANGED <<polled, clip, last_content_hash, changes, broadcasts>>
    PROVE  PaidInv'
  BY DEF PaidInv, CountersOK, BroadcastsPaidFor, Owed, Readable

LEMMA PaidNext == Inv /\ PaidInv /\ [HNext]_hvars => PaidInv'
  <1> SUFFICES ASSUME Inv, PaidInv, [HNext]_hvars PROVE PaidInv'
    OBVIOUS
  <1>1. ASSUME NEW n \in Nodes, HPollRead(n) \/ HPollBroadcast(n)
        PROVE  PaidInv'
    BY <1>1, PollPaid
  <1>2. ASSUME NEW n \in Nodes, HStart(n)
        PROVE  PaidInv'
    BY <1>2, ChangePaid DEF HStart, Start
  <1>3. ASSUME NEW h \in handlers, HHandlerStore(h)
        PROVE  PaidInv'
    <2>1. h.to \in Nodes
      BY DEF Inv, TypeOK, Handler
    <2> QED
      BY <1>3, <2>1, ChangePaid DEF HHandlerStore, HandlerStore
  <1>4. ASSUME NEW h \in handlers, HHandlerWrite(h)
        PROVE  PaidInv'
    <2>1. h.to \in Nodes
      BY DEF Inv, TypeOK, Handler
    <2> QED
      BY <1>4, <2>1, ChangePaid DEF HHandlerWrite, HandlerWrite, state
  <1>5. ASSUME NEW n \in Users, NEW c \in Vocabulary[Key[n]], HCopy(n, c)
        PROVE  PaidInv'
    <2>1. n \in Nodes
      BY DaemonAssumption
    <2> QED
      BY <1>5, <2>1, ChangePaid DEF HCopy, Copy, state
  <1>6. ASSUME NEW q \in Nodes, NEW k \in Keys \cup {None}, NEW c \in Vocabulary[k],
               HCliSend(q, c, k)
        PROVE  PaidInv'
    BY <1>6, OtherPaid DEF HCliSend, CliSend, state
  <1>7. ASSUME Unrecorded, UNCHANGED history
        PROVE  PaidInv'
    <2>1. ASSUME NEW n \in Nodes, PollUnchanged(n) \/ PollSkip(n)
          PROVE  PaidInv'
      BY <1>7, <2>1, PollPaid
    <2>2. ASSUME NEW n \in Nodes, CooldownElapses(n)
          PROVE  PaidInv'
      BY <1>7, <2>2, OtherPaid DEF CooldownElapses, history
    <2>3. ASSUME NEW n \in Nodes, Crash(n)
          PROVE  PaidInv'
      BY <1>7, <2>3, CrashPaid
    <2>4. ASSUME NEW j \in jobs, Sending(j)
          PROVE  PaidInv'
      BY <1>7, <2>4, OtherPaid
      DEF Sending, Accept, Refused, Unreachable, PeerGone, state, history
    <2>5. ASSUME NEW h \in handlers,
                 Reply(h) \/ Reject(h) \/ Break(h) \/ Silence(h) \/ HandlerWriteFails(h)
          PROVE  PaidInv'
      BY <1>7, <2>5, OtherPaid DEF Reply, Reject, Break, Silence, HandlerWriteFails, state, history
    <2> QED
      BY <1>7, <2>1, <2>2, <2>3, <2>4, <2>5 DEF Unrecorded
  <1>8. CASE UNCHANGED hvars
    BY <1>8, OtherPaid DEF hvars, vars, state, history
  <1> QED
    BY <1>1, <1>2, <1>3, <1>4, <1>5, <1>6, <1>7, <1>8 DEF HNext

LEMMA PaidInit == HInit => PaidInv
  <1> SUFFICES ASSUME HInit PROVE PaidInv
    OBVIOUS
  <1>1. CountersOK
    BY DEF HInit, CountersOK
  <1>2. ASSUME NEW n \in Nodes
        PROVE  broadcasts[n] + Owed(n) <= changes[n]
    <2>1. broadcasts[n] = 0 /\ changes[n] = 1 /\ polled[n] = None
      BY DEF HInit, Init
    <2> QED
      BY <2>1 DEF Owed, OwedFor, OneIf
  <1> QED
    BY <1>1, <1>2 DEF PaidInv, BroadcastsPaidFor

\* A daemon broadcasts at most once for each copy, store, write and start,
\* whatever the network, the number of hosts and the interleaving: received
\* content can cause two broadcasts at its receiver, and never more.
THEOREM BroadcastsBounded == HSpec => []BroadcastsPaidFor
  <1>1. PaidInv => BroadcastsPaidFor
    BY DEF PaidInv
  <1> QED
    BY <1>1, InvAlways, PaidInit, PaidNext, PTL DEF HSpec
=============================================================================
