------------------------------ MODULE ClipboardNet ------------------------------
(***************************************************************************)
(* What the network of daemons promises, without tasks, messages or state: *)
(* a clipboard changes only because its user copied, because it was lost,  *)
(* or because a content arrived that a host which lists this one as a peer *)
(* and has its key had on its own clipboard before, or that a command line *)
(* user who has its key sent.                                              *)
(***************************************************************************)
EXTENDS Clipboard

CONSTANTS Nodes, Users, Peers, Key, Backend, Vocabulary

VARIABLES
    clip,    \* clip[n]: the selection of n
    seen,    \* seen[n]: what could be read from it so far
    copied,  \* copied[n]: what its user has copied
    sent     \* sent[n]: what the command line tool has sent to n with its key

netVars == <<clip, seen, copied, sent>>

NetInit ==
    /\ clip = [n \in Nodes |-> None]
    /\ seen = [n \in Nodes |-> {}]
    /\ copied = [n \in Nodes |-> {}]
    /\ sent = [n \in Nodes |-> {}]

Shows(n, c) ==
    /\ clip' = [clip EXCEPT ![n] = c]
    /\ seen' = [seen EXCEPT ![n] = @ \cup ({read_content(Backend[n], c)} \ {None})]

UserCopies(n) ==
    /\ n \in Users
    /\ \E c \in Vocabulary[Key[n]] :
        /\ Shows(n, c)
        /\ copied' = [copied EXCEPT ![n] = @ \cup {c}]
    /\ UNCHANGED sent

UserSends(n) ==
    /\ \E c \in Vocabulary[Key[n]] : sent' = [sent EXCEPT ![n] = @ \cup {c}]
    /\ UNCHANGED <<clip, seen, copied>>

\* The hosts n may receive from, and what may reach it.
Sources(n) == {m \in Nodes : n \in Peers[m] /\ Key[m] = Key[n]}

CanArrive(n) == sent[n] \cup UNION {seen[m] : m \in Sources(n)}

Arrives(n) ==
    /\ \E c \in CanArrive(n) : Shows(n, c)
    /\ UNCHANGED <<copied, sent>>

Loses(n) ==
    /\ clip' = [clip EXCEPT ![n] = None]
    /\ UNCHANGED <<seen, copied, sent>>

NetNext == \E n \in Nodes : UserCopies(n) \/ UserSends(n) \/ Arrives(n) \/ Loses(n)

NetSpec == NetInit /\ [][NetNext]_netVars

-----------------------------------------------------------------------------
\* WHERE CONTENT COMES FROM.  Take any hosts S that no host outside S can send to.
\* What their clipboards show was copied by a user of S or sent to S from the
\* command line, perhaps without the trailing newlines a WSL host has trimmed.
Closed(S) == \A n \in S : Sources(n) \subseteq S

Given(S) == UNION {copied[n] \cup sent[n] : n \in S}

Traces(S) == Given(S) \cup ({read_content("Wsl", d) : d \in Given(S)} \ {None})

Provenance ==
    \A S \in SUBSET Nodes : Closed(S) => \A n \in S : clip[n] \in Traces(S) \cup {None}
=============================================================================
