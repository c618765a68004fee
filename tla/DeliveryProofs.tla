------------------------------ MODULE DeliveryProofs ------------------------------
(***************************************************************************)
(* Nothing is stored more often than it was sent.  Every sender task may   *)
(* still lead to one delivery, and so may every handler that no sender     *)
(* task waits for; the sum of both and of what was stored grows only with  *)
(* a new sender task, or with a network fault that makes one task into     *)
(* both.                                                                   *)
(*                                                                         *)
(* In the other direction, up to max_retries network faults lose nothing,  *)
(* and no step of a sender task sets it back.                              *)
(***************************************************************************)
EXTENDS NetProofs, FunctionTheorems

\* h belongs to an attempt of j that is over, or to the one that j waits for
Precedes(h, j) == h.attempt < j.attempt \/ (h.attempt = j.attempt /\ j.at = "ack")

JobsDistinct == \A i, j \in jobs : Same(i, j) => i = j

HandlersDistinct == \A g, h \in handlers : Same(g, h) /\ g.attempt = h.attempt => g = h

AttemptsOrdered == \A j \in jobs, h \in handlers : Same(j, h) => Precedes(h, j)

\* whoever was answered does not wait any more
Answered == \A h \in handlers : h.at # "read" => Awaiting(h) = {}

Distinct == JobsDistinct /\ HandlersDistinct /\ AttemptsOrdered /\ Answered

FiniteTasks == IsFiniteSet(jobs) /\ IsFiniteSet(handlers)

\* the deliveries that may still come
Due == Cardinality(Orphans) + Cardinality(jobs)

DeliveryInv == FiniteTasks /\ Distinct /\ OneDeliveryPerSend

-----------------------------------------------------------------------------
(* What a step does to the tasks and handlers.                             *)

\* the next attempt of a task
Again(j) == [j EXCEPT !.attempt = @ + 1, !.at = "connect"]

LEMMA AgainIs ==
    ASSUME NEW j \in Job
    PROVE  /\ Same(Again(j), j) /\ Again(j).at = "connect"
           /\ Again(j).attempt = j.attempt + 1
           /\ j.attempt \in Nat
  <1>1. j.attempt \in Nat
    BY DaemonAssumption DEF Job
  <1> QED
    BY <1>1 DEF Again, Same, Job

\* At most one task waits for a handler's answer.
LEMMA OneAwaits ==
    ASSUME Distinct, NEW h \in handlers
    PROVE  Awaiting(h) = {} \/ \E j \in jobs : Awaiting(h) = {j} /\ j.at = "ack"
  BY DEF Distinct, JobsDistinct, Awaiting, Same

\* ... and no task waits for two of them.
LEMMA OneAwaited ==
    ASSUME Distinct, NEW g \in handlers, NEW h \in handlers, NEW j \in Awaiting(g),
           j \in Awaiting(h)
    PROVE  g = h
  BY DEF Distinct, HandlersDistinct, Awaiting, Same

LEMMA FailedIs ==
    ASSUME NEW J \in SUBSET jobs, jobs \subseteq Job, NEW i \in Failed(J)
    PROVE  \/ i \in jobs \ J
           \/ \E j \in J : i = Again(j)
  BY DEF Failed, Again

LEMMA StepIs ==
    ASSUME handlers \subseteq Handler, NEW h \in handlers, NEW stage
    PROVE  \E g : /\ Step(h, stage) = (handlers \ {h}) \cup {g}
                  /\ Same(g, h) /\ g.attempt = h.attempt /\ g.at = stage
  <1> DEFINE g == [h EXCEPT !.at = stage]
  <1>1. h \in Handler
    OBVIOUS
  <1>2. Same(g, h) /\ g.attempt = h.attempt /\ g.at = stage
    BY <1>1 DEF Same, Handler
  <1> QED
    BY <1>2 DEF Step

-----------------------------------------------------------------------------
(* The tasks stay distinct.                                                *)

\* Tasks that end or try again keep their order.
LEMMA JobsKeepOrder ==
    ASSUME jobs \subseteq Job, JobsDistinct, NEW J \in SUBSET jobs,
           jobs' = Failed(J) \/ jobs' \subseteq jobs
    PROVE  /\ JobsDistinct'
           /\ \A i \in jobs' : i \in jobs \/ \E j \in J : i = Again(j)
  <1>1. ASSUME NEW i \in jobs'
        PROVE  i \in jobs \/ \E j \in J : i = Again(j)
    BY FailedIs
  <1>2. CASE jobs' \subseteq jobs
    BY <1>2 DEF JobsDistinct
  <1>3. CASE jobs' = Failed(J)
    <2>1. ASSUME NEW i \in jobs', NEW j \in jobs', Same(i, j)
          PROVE  i = j
      <3>1. \A x \in J : Same(Again(x), x)
        BY AgainIs
      <3>2. \/ i \in jobs \ J
            \/ \E x \in J : i = Again(x)
        BY <1>3, FailedIs
      <3>3. \/ j \in jobs \ J
            \/ \E x \in J : j = Again(x)
        BY <1>3, FailedIs
      <3>4. CASE i \in jobs \ J /\ j \in jobs \ J
        BY <2>1, <3>4 DEF JobsDistinct
      <3>5. CASE i \in jobs \ J /\ \E x \in J : j = Again(x)
        BY <2>1, <3>1, <3>5 DEF JobsDistinct, Same
      <3>6. CASE j \in jobs \ J /\ \E x \in J : i = Again(x)
        BY <2>1, <3>1, <3>6 DEF JobsDistinct, Same
      <3>7. ASSUME NEW x \in J, NEW y \in J, i = Again(x), j = Again(y)
            PROVE  i = j
        <4>1. Same(x, y)
          BY <2>1, <3>1, <3>7 DEF Same
        <4> QED
          BY <3>7, <4>1 DEF JobsDistinct
      <3> QED
        BY <3>2, <3>3, <3>4, <3>5, <3>6, <3>7
    <2> QED
      BY <1>1, <2>1 DEF JobsDistinct
  <1> QED
    BY <1>1, <1>2, <1>3

\* A step that starts no task or handler: tasks end or try again, handlers end or,
\* when nobody waits for them, go on.
LEMMA DistinctStays ==
    ASSUME TypeOK, Distinct, NEW J \in SUBSET jobs,
           jobs' = Failed(J) \/ jobs' \subseteq jobs,
           \/ handlers' \subseteq handlers
           \/ \E h \in handlers, stage \in {"store", "write"} :
                /\ handlers' = Step(h, stage)
                /\ Awaiting(h) \cap jobs' = {}
    PROVE  Distinct'
  <1>1. jobs \subseteq Job /\ handlers \subseteq Handler
    BY DEF TypeOK
  <1>2. /\ JobsDistinct'
        /\ \A i \in jobs' : i \in jobs \/ \E j \in J : i = Again(j)
    BY <1>1, JobsKeepOrder DEF Distinct
  <1>3. \A h \in handlers : h.attempt \in Nat
    BY <1>1, DaemonAssumption DEF Handler
  \* a task that waits has waited before
  <1>4. ASSUME NEW i \in jobs', i.at = "ack"
        PROVE  i \in jobs
    BY <1>1, <1>2, <1>4, AgainIs
  <1>5. ASSUME NEW g \in handlers, NEW i \in jobs', Same(i, g)
        PROVE  Precedes(g, i)
    <2>1. CASE i \in jobs
      BY <1>5, <2>1 DEF Distinct, AttemptsOrdered
    <2>2. ASSUME NEW j \in J, i = Again(j)
          PROVE  Precedes(g, i)
      <3>1. Same(j, g) /\ i.attempt = j.attempt + 1 /\ j.attempt \in Nat
        BY <1>1, <1>5, <2>2, AgainIs DEF Same
      <3>2. Precedes(g, j)
        BY <3>1 DEF Distinct, AttemptsOrdered
      <3> QED
        BY <1>3, <3>1, <3>2 DEF Precedes
    <2> QED
      BY <1>2, <2>1, <2>2
  <1>6. ASSUME NEW g \in handlers, g.at # "read"
        PROVE  Awaiting(g)' = {}
    BY <1>4, <1>6 DEF Distinct, Answered, Awaiting
  <1>7. CASE handlers' \subseteq handlers
    BY <1>2, <1>5, <1>6, <1>7
    DEF Distinct, HandlersDistinct, AttemptsOrdered, Answered
  <1>8. ASSUME NEW h \in handlers, NEW stage \in {"store", "write"},
               handlers' = Step(h, stage), Awaiting(h) \cap jobs' = {}
        PROVE  Distinct'
    <2>1. PICK g : /\ handlers' = (handlers \ {h}) \cup {g}
                   /\ Same(g, h) /\ g.attempt = h.attempt /\ g.at = stage
      BY <1>1, <1>8, StepIs
    <2>2. HandlersDistinct'
      BY <2>1 DEF Distinct, HandlersDistinct, Same
    <2>3. ASSUME NEW i \in jobs', Same(i, g)
          PROVE  Precedes(g, i)
      BY <1>5, <2>1, <2>3 DEF Same, Precedes
    <2>4. AttemptsOrdered'
      BY <1>5, <2>1, <2>3 DEF AttemptsOrdered
    <2>5. Awaiting(g)' = {}
      BY <1>4, <1>8, <2>1 DEF Awaiting, Same
    <2>6. Answered'
      BY <1>6, <2>1, <2>5 DEF Answered
    <2> QED
      BY <1>2, <2>2, <2>4, <2>6 DEF Distinct
  <1> QED
    BY <1>7, <1>8

-----------------------------------------------------------------------------
(* Counting.                                                               *)

LEMMA OrphansFinite ==
    ASSUME FiniteTasks
    PROVE  /\ IsFiniteSet(Orphans) /\ Cardinality(Orphans) \in Nat
           /\ Cardinality(jobs) \in Nat
           /\ Due \in Nat
  <1>1. Orphans \in SUBSET handlers
    BY DEF Orphans
  <1>2. IsFiniteSet(Orphans) /\ Cardinality(Orphans) \in Nat
    BY <1>1, FS_Subset, FS_CardinalityType DEF FiniteTasks
  <1>3. Cardinality(jobs) \in Nat
    BY FS_CardinalityType DEF FiniteTasks
  <1> QED
    BY <1>2, <1>3 DEF Due

\* Elements that are replaced, added, or only taken away
LEMMA Replaced ==
    ASSUME NEW S, IsFiniteSet(S), NEW x \in S, NEW y, NEW T \in SUBSET ((S \ {x}) \cup {y})
    PROVE  IsFiniteSet(T) /\ Cardinality(T) \in Nat /\ Cardinality(T) <= Cardinality(S)
  <1>1. IsFiniteSet(S \ {x}) /\ Cardinality(S \ {x}) = Cardinality(S) - 1
    BY FS_RemoveElement
  <1>2. /\ IsFiniteSet((S \ {x}) \cup {y})
        /\ Cardinality((S \ {x}) \cup {y}) \in {Cardinality(S \ {x}), Cardinality(S \ {x}) + 1}
    BY <1>1, FS_AddElement
  <1>3. IsFiniteSet(T) /\ Cardinality(T) <= Cardinality((S \ {x}) \cup {y})
    BY <1>2, FS_Subset
  <1>4. Cardinality(T) \in Nat /\ Cardinality(S) \in Nat
    BY <1>3, FS_CardinalityType
  <1> QED
    BY <1>1, <1>2, <1>3, <1>4

LEMMA OneMore ==
    ASSUME NEW S, IsFiniteSet(S), NEW y, NEW T \in SUBSET (S \cup {y})
    PROVE  IsFiniteSet(T) /\ Cardinality(T) \in Nat /\ Cardinality(T) <= Cardinality(S) + 1
  <1>1. /\ IsFiniteSet(S \cup {y})
        /\ Cardinality(S \cup {y}) \in {Cardinality(S), Cardinality(S) + 1}
    BY FS_AddElement
  <1>2. IsFiniteSet(T) /\ Cardinality(T) <= Cardinality(S \cup {y})
    BY <1>1, FS_Subset
  <1>3. Cardinality(T) \in Nat /\ Cardinality(S) \in Nat
    BY <1>2, FS_CardinalityType
  <1> QED
    BY <1>1, <1>2, <1>3

LEMMA NoMore ==
    ASSUME NEW S, IsFiniteSet(S), NEW T \in SUBSET S
    PROVE  IsFiniteSet(T) /\ Cardinality(T) \in Nat /\ Cardinality(T) <= Cardinality(S)
  BY FS_Subset, FS_CardinalityType

\* A task that fails is one task, or none.
LEMMA FailedCount ==
    ASSUME IsFiniteSet(jobs), NEW J \in SUBSET jobs, J = {} \/ \E j \in jobs : J = {j}
    PROVE  IsFiniteSet(Failed(J)) /\ Cardinality(Failed(J)) <= Cardinality(jobs)
  <1>1. CASE J = {}
    <2>1. Failed(J) = jobs
      BY <1>1 DEF Failed
    <2> QED
      BY <2>1, FS_CardinalityType
  <1>2. ASSUME NEW j \in jobs, J = {j}
        PROVE  IsFiniteSet(Failed(J)) /\ Cardinality(Failed(J)) <= Cardinality(jobs)
    <2>1. Failed(J) \in SUBSET ((jobs \ {j}) \cup {Again(j)})
      BY <1>2 DEF Failed, Again
    <2> QED
      BY <2>1, Replaced
  <1> QED
    BY <1>1, <1>2

\* A handler waits for the same tasks unless one of them has failed or ended.
LEMMA StillAwaited ==
    ASSUME NEW h \in handlers, NEW J \in SUBSET jobs, jobs \ J \subseteq jobs',
           Awaiting(h) \cap J = {}, Awaiting(h)' = {}
    PROVE  Awaiting(h) = {}
  BY DEF Awaiting

LEMMA OrphansStay ==
    ASSUME handlers' \subseteq handlers,
           \A h \in handlers' : Awaiting(h)' = {} => Awaiting(h) = {}
    PROVE  Orphans' \subseteq Orphans
  BY DEF Orphans

\* Counts of the next state from counts of this one
LEMMA DueBound ==
    ASSUME FiniteTasks, NEW m \in Nat, NEW n \in Nat,
           IsFiniteSet(jobs'), IsFiniteSet(handlers'),
           Cardinality(jobs') <= Cardinality(jobs) + m,
           IsFiniteSet(Orphans'), Cardinality(Orphans') <= Cardinality(Orphans) + n
    PROVE  FiniteTasks' /\ Due' \in Nat /\ Due' <= Due + m + n
  <1>1. Cardinality(jobs') \in Nat /\ Cardinality(Orphans') \in Nat
    BY FS_CardinalityType
  <1> QED
    BY <1>1, OrphansFinite DEF Due, FiniteTasks

-----------------------------------------------------------------------------
(* The sender tasks.                                                       *)

LEMMA AcceptDistinct ==
    ASSUME TypeOK, Distinct, NEW j \in jobs, Accept(j)
    PROVE  Distinct'
  <1> DEFINE waiting == [j EXCEPT !.at = "ack"]
             new == HandlerOf(j)
  <1>1. j \in Job /\ handlers \subseteq Handler
    BY DEF TypeOK
  <1>2. /\ Same(waiting, j) /\ waiting.attempt = j.attempt /\ waiting.at = "ack"
        /\ Same(new, j) /\ new.attempt = j.attempt /\ new.at = "read"
    BY <1>1 DEF Same, Job, HandlerOf
  <1>3. /\ jobs' = (jobs \ {j}) \cup {waiting} /\ handlers' = handlers \cup {new}
        /\ j.at = "connect"
    BY DEF Accept
  <1> HIDE DEF waiting, new
  <1>4. /\ j.attempt \in Nat
        /\ \A h \in handlers : h.attempt \in Nat
    BY <1>1, DaemonAssumption DEF Job, Handler
  \* the handlers of earlier attempts
  <1>5. ASSUME NEW h \in handlers, Same(j, h)
        PROVE  h.attempt < j.attempt
    BY <1>3, <1>5 DEF Distinct, AttemptsOrdered, Precedes
  <1>6. JobsDistinct'
    BY <1>2, <1>3 DEF Distinct, JobsDistinct, Same
  <1>7. HandlersDistinct'
    <2>1. ASSUME NEW h \in handlers
          PROVE  ~(Same(h, new) /\ h.attempt = new.attempt) /\ ~(Same(new, h) /\ h.attempt = new.attempt)
      BY <1>2, <1>4, <1>5 DEF Same
    <2> QED
      BY <1>3, <2>1 DEF Distinct, HandlersDistinct
  <1>8. AttemptsOrdered'
    <2>1. ASSUME NEW i \in jobs \ {j}
          PROVE  ~Same(i, new)
      BY <1>2 DEF Distinct, JobsDistinct, Same
    <2>2. ASSUME NEW h \in handlers, Same(waiting, h)
          PROVE  Precedes(h, waiting)
      BY <1>2, <1>5, <2>2 DEF Same, Precedes
    <2>3. Precedes(new, waiting)
      BY <1>2 DEF Precedes
    <2> QED
      BY <1>3, <2>1, <2>2, <2>3 DEF Distinct, AttemptsOrdered
  <1>9. Answered'
    <2>1. ASSUME NEW h \in handlers
          PROVE  Awaiting(h)' = {} \/ h.at = "read"
      <3>1. ~(Same(waiting, h) /\ waiting.attempt = h.attempt)
        BY <1>2, <1>4, <1>5 DEF Same
      <3> QED
        BY <1>3, <3>1 DEF Distinct, Answered, Awaiting, Same
    <2> QED
      BY <1>2, <1>3, <2>1 DEF Answered
  <1> QED
    BY <1>6, <1>7, <1>8, <1>9 DEF Distinct

\* A sender task may come to more attempts, never to more deliveries.
LEMMA SendingDue ==
    ASSUME TypeOK, FiniteTasks, Distinct, NEW j \in jobs, Sending(j)
    PROVE  FiniteTasks' /\ Distinct' /\ Due' <= Due
  <1>1. IsFiniteSet(jobs) /\ IsFiniteSet(handlers) /\ IsFiniteSet(Orphans)
    BY OrphansFinite DEF FiniteTasks
  <1>2. CASE Accept(j)
    <2>1. /\ jobs' = (jobs \ {j}) \cup {[j EXCEPT !.at = "ack"]}
          /\ handlers' = handlers \cup {HandlerOf(j)} /\ j.at = "connect"
      BY <1>2 DEF Accept
    <2>2. IsFiniteSet(jobs') /\ Cardinality(jobs') <= Cardinality(jobs)
      BY <1>1, <2>1, Replaced
    <2>3. IsFiniteSet(handlers')
      BY <1>1, <2>1, FS_AddElement
    <2>4. ASSUME NEW h \in handlers, Awaiting(h)' = {}
          PROVE  Awaiting(h) = {}
      BY <2>1, <2>4 DEF Awaiting
    <2>5. Awaiting(HandlerOf(j))' # {}
      <3> DEFINE waiting == [j EXCEPT !.at = "ack"]
      <3>1. j \in Job
        BY DEF TypeOK
      <3>2. /\ waiting.at = "ack" /\ waiting.from = j.from /\ waiting.to = j.to
            /\ waiting.slot = j.slot /\ waiting.attempt = j.attempt
        BY <3>1 DEF Job
      <3>3. waiting \in jobs'
        BY <2>1
      <3> HIDE DEF waiting
      <3> QED
        BY <3>2, <3>3 DEF Awaiting, HandlerOf
    <2>6. Orphans' \in SUBSET Orphans
      BY <2>1, <2>4, <2>5 DEF Orphans
    <2>7. IsFiniteSet(Orphans') /\ Cardinality(Orphans') <= Cardinality(Orphans)
      BY <1>1, <2>6, NoMore
    <2>8. FiniteTasks' /\ Due' \in Nat /\ Due' <= Due + 0 + 0
      BY <2>2, <2>3, <2>7, DueBound, OrphansFinite
    <2> QED
      BY <1>2, <2>8, AcceptDistinct, OrphansFinite
  <1>3. CASE Refused(j) \/ Unreachable(j) \/ PeerGone(j)
    <2>1. jobs' = Failed({j}) /\ handlers' = handlers
      BY <1>3 DEF Refused, Unreachable, PeerGone
    <2>2. \A h \in handlers : Awaiting(h) \cap {j} = {}
      BY <1>3 DEF Refused, Unreachable, PeerGone, Awaiting
    <2>3. IsFiniteSet(jobs') /\ Cardinality(jobs') <= Cardinality(jobs)
      BY <1>1, <2>1, FailedCount
    <2>4. jobs \ {j} \subseteq jobs'
      BY <2>1 DEF Failed
    <2>5. Orphans' \in SUBSET Orphans
      BY <2>1, <2>2, <2>4, StillAwaited, OrphansStay
    <2>6. IsFiniteSet(Orphans') /\ Cardinality(Orphans') <= Cardinality(Orphans)
      BY <1>1, <2>5, NoMore
    <2>7. FiniteTasks' /\ Due' \in Nat /\ Due' <= Due + 0 + 0
      BY <1>1, <2>1, <2>3, <2>6, DueBound, OrphansFinite
    <2>8. Distinct'
      BY <2>1, DistinctStays
    <2> QED
      BY <2>7, <2>8, OrphansFinite
  <1> QED
    BY <1>2, <1>3 DEF Sending

-----------------------------------------------------------------------------
(* The handlers.                                                           *)

\* The tasks that wait for one handler do not wait for another one.
LEMMA OthersAwait ==
    ASSUME Distinct, NEW h \in handlers, jobs \ Awaiting(h) \subseteq jobs',
           NEW g \in handlers \ {h}, Awaiting(g)' = {}
    PROVE  Awaiting(g) = {}
  <1>1. Awaiting(g) \cap Awaiting(h) = {}
    BY OneAwaited
  <1>2. Awaiting(h) \in SUBSET jobs
    BY DEF Awaiting
  <1> QED
    BY <1>1, <1>2, StillAwaited

LEMMA EndsOrphans ==
    ASSUME FiniteTasks, Distinct, NEW h \in handlers, handlers' = handlers \ {h},
           jobs \ Awaiting(h) \subseteq jobs'
    PROVE  IsFiniteSet(Orphans') /\ Cardinality(Orphans') <= Cardinality(Orphans)
  <1>1. Orphans' \in SUBSET Orphans
    BY OthersAwait DEF Orphans
  <1> QED
    BY <1>1, NoMore, OrphansFinite

LEMMA StepOrphans ==
    ASSUME TypeOK, FiniteTasks, Distinct, NEW h \in handlers, NEW stage,
           handlers' = Step(h, stage), jobs \ Awaiting(h) \subseteq jobs'
    PROVE  /\ IsFiniteSet(handlers')
           /\ IsFiniteSet(Orphans') /\ Cardinality(Orphans') <= Cardinality(Orphans) + 1
           /\ h \in Orphans => Cardinality(Orphans') <= Cardinality(Orphans)
           /\ h \in Orphans /\ stage = "write" => Cardinality(Orphans') <= Cardinality(Orphans) - 1
  <1>1. PICK g : /\ handlers' = (handlers \ {h}) \cup {g} /\ g.at = stage
    BY StepIs DEF TypeOK
  <1>2. IsFiniteSet(handlers')
    BY <1>1, Replaced DEF FiniteTasks
  <1>3. Orphans' \in SUBSET ((Orphans \ {h}) \cup {g})
    BY <1>1, OthersAwait DEF Orphans
  <1>4. IsFiniteSet(Orphans) /\ Cardinality(Orphans) \in Nat
    BY OrphansFinite
  <1>5. IsFiniteSet(Orphans') /\ Cardinality(Orphans') <= Cardinality(Orphans) + 1
    <2>1. Orphans' \in SUBSET (Orphans \cup {g})
      BY <1>3
    <2> QED
      BY <1>4, <2>1, OneMore
  <1>6. ASSUME h \in Orphans
        PROVE  Cardinality(Orphans') <= Cardinality(Orphans)
    BY <1>3, <1>4, <1>6, Replaced
  <1>7. ASSUME h \in Orphans, stage = "write"
        PROVE  Cardinality(Orphans') <= Cardinality(Orphans) - 1
    <2>1. Orphans' \in SUBSET (Orphans \ {h})
      BY <1>1, <1>3, <1>7 DEF Orphans
    <2>2. IsFiniteSet(Orphans \ {h}) /\ Cardinality(Orphans \ {h}) = Cardinality(Orphans) - 1
      BY <1>4, <1>7, FS_RemoveElement
    <2> QED
      BY <2>1, <2>2, NoMore
  <1> QED
    BY <1>2, <1>5, <1>6, <1>7

\* An answer ends the waiting, and the handler owes the delivery in its place.
LEMMA ReplyDue ==
    ASSUME TypeOK, FiniteTasks, Distinct, NEW h \in handlers, Reply(h)
    PROVE  FiniteTasks' /\ Distinct' /\ Due' <= Due
  <1>1. /\ jobs' = jobs \ Awaiting(h) /\ handlers' = Step(h, "store") /\ h.at = "read"
        /\ Awaiting(h) \in SUBSET jobs
    BY DEF Reply, Awaiting
  <1>2. /\ IsFiniteSet(handlers')
        /\ IsFiniteSet(Orphans') /\ Cardinality(Orphans') <= Cardinality(Orphans) + 1
        /\ h \in Orphans => Cardinality(Orphans') <= Cardinality(Orphans)
    BY <1>1, StepOrphans
  <1>3. IsFiniteSet(jobs')
    BY <1>1, FS_Subset DEF FiniteTasks
  <1>4. Distinct'
    BY <1>1, DistinctStays
  <1>5. CASE Awaiting(h) = {}
    <2>1. h \in Orphans /\ jobs' = jobs
      BY <1>1, <1>5 DEF Orphans
    <2>2. FiniteTasks' /\ Due' <= Due + 0 + 0
      BY <1>2, <2>1, DueBound, OrphansFinite DEF FiniteTasks
    <2> QED
      BY <1>4, <2>2, OrphansFinite
  <1>6. ASSUME NEW j \in jobs, Awaiting(h) = {j}
        PROVE  FiniteTasks' /\ Due' <= Due
    <2>1. Cardinality(jobs') = Cardinality(jobs) - 1
      BY <1>1, <1>6, FS_RemoveElement DEF FiniteTasks
    <2>2. FiniteTasks'
      BY <1>2, <1>3 DEF FiniteTasks
    <2>3. Cardinality(Orphans') \in Nat
      BY <1>2, FS_CardinalityType
    <2>4. Cardinality(jobs) \in Nat /\ Cardinality(Orphans) \in Nat
      BY OrphansFinite
    <2> QED
      BY <1>2, <2>1, <2>2, <2>3, <2>4 DEF Due
  <1> QED
    BY <1>4, <1>5, <1>6, OneAwaits

\* A task whose connection fails tries again or gives up.
LEMMA AwaitingFails ==
    ASSUME FiniteTasks, Distinct, NEW h \in handlers, jobs' = Failed(Awaiting(h))
    PROVE  /\ IsFiniteSet(jobs') /\ Cardinality(jobs') <= Cardinality(jobs)
           /\ jobs \ Awaiting(h) \subseteq jobs'
           /\ Awaiting(h) \in SUBSET jobs
  <1>1. Awaiting(h) \in SUBSET jobs
    BY DEF Awaiting
  <1> QED
    BY <1>1, OneAwaits, FailedCount DEF FiniteTasks, Failed

LEMMA RejectDue ==
    ASSUME TypeOK, FiniteTasks, Distinct, NEW h \in handlers, jobs' = Failed(Awaiting(h)),
           handlers' = handlers \ {h}
    PROVE  FiniteTasks' /\ Distinct' /\ Due' \in Nat /\ Due' <= Due
  <1>1. Distinct'
    BY AwaitingFails, DistinctStays
  <1>2. IsFiniteSet(Orphans') /\ Cardinality(Orphans') <= Cardinality(Orphans)
    BY AwaitingFails, EndsOrphans
  <1>3. IsFiniteSet(handlers')
    BY FS_RemoveElement DEF FiniteTasks
  <1>4. FiniteTasks' /\ Due' \in Nat /\ Due' <= Due + 0 + 0
    BY <1>2, <1>3, AwaitingFails, DueBound, OrphansFinite
  <1> QED
    BY <1>1, <1>4, OrphansFinite

\* A task that fails while its handler goes on: two deliveries in place of one.
LEMMA BreakDue ==
    ASSUME TypeOK, FiniteTasks, Distinct, NEW h \in handlers, Break(h)
    PROVE  FiniteTasks' /\ Distinct' /\ Due' + spent["net"] <= Due + spent'["net"]
  <1>1. /\ jobs' = Failed(Awaiting(h)) /\ h.at = "read"
        /\ handlers' = handlers \ {h} \/ handlers' = Step(h, "store")
    BY DEF Break
  <1>2. /\ spent["net"] \in Nat
        /\ spent' = spent \/ (Awaiting(h) # {} /\ spent'["net"] = spent["net"] + 1)
    BY DEF Break, Spend, TypeOK, BudgetKinds
  <1>3. CASE handlers' = handlers \ {h}
    <2>1. FiniteTasks' /\ Distinct' /\ Due' \in Nat /\ Due' <= Due
      BY <1>1, <1>3, RejectDue
    <2> QED
      BY <1>2, <2>1, OrphansFinite
  <1>4. CASE handlers' = Step(h, "store")
    <2>1. /\ IsFiniteSet(jobs') /\ Cardinality(jobs') <= Cardinality(jobs)
          /\ jobs \ Awaiting(h) \subseteq jobs'
          /\ Awaiting(h) \in SUBSET jobs
      BY <1>1, AwaitingFails
    <2>2. /\ IsFiniteSet(handlers')
          /\ IsFiniteSet(Orphans') /\ Cardinality(Orphans') <= Cardinality(Orphans) + 1
          /\ h \in Orphans => Cardinality(Orphans') <= Cardinality(Orphans)
      BY <1>4, <2>1, StepOrphans
    <2>3. Distinct'
      <3>1. Awaiting(h) \cap jobs' = {}
        <4>1. ASSUME NEW j \in Awaiting(h), j \in jobs'
              PROVE  FALSE
          <5>1. PICK i \in Awaiting(h) : j = Again(i)
            BY <1>1, <2>1, <4>1, FailedIs DEF TypeOK
          <5>2. j.at = "connect"
            BY <2>1, <5>1, AgainIs DEF TypeOK
          <5> QED
            BY <5>2 DEF Awaiting
        <4> QED
          BY <4>1
      <3> QED
        BY <1>1, <1>4, <2>1, <3>1, DistinctStays
    <2>4. Cardinality(jobs) \in Nat /\ Cardinality(Orphans) \in Nat
      BY OrphansFinite
    <2>5. CASE Awaiting(h) = {}
      <3>1. h \in Orphans
        BY <1>1, <2>5 DEF Orphans
      <3>2. FiniteTasks' /\ Due' \in Nat /\ Due' <= Due + 0 + 0
        BY <2>1, <2>2, <2>4, <3>1, DueBound
      <3> QED
        BY <1>2, <2>3, <2>5, <3>2, OrphansFinite
    <2>6. CASE Awaiting(h) # {}
      <3>1. spent'["net"] = spent["net"] + 1
        BY <1>2, <2>6 DEF Break, Spend, TypeOK, BudgetKinds
      <3>2. FiniteTasks' /\ Due' \in Nat /\ Due' <= Due + 0 + 1
        BY <2>1, <2>2, <2>4, DueBound
      <3> QED
        BY <1>2, <2>3, <3>1, <3>2, OrphansFinite
    <2> QED
      BY <2>5, <2>6
  <1> QED
    BY <1>1, <1>3, <1>4

\* What is stored is owed no more.
LEMMA StoreDue ==
    ASSUME TypeOK, FiniteTasks, Distinct, NEW h \in handlers, HandlerStore(h)
    PROVE  FiniteTasks' /\ Distinct' /\ Due' + 1 <= Due
  <1>1. jobs' = jobs /\ handlers' = Step(h, "write") /\ h.at = "store"
    BY DEF HandlerStore
  <1>2. Awaiting(h) = {} /\ h \in Orphans
    BY <1>1 DEF Distinct, Answered, Orphans
  <1>3. /\ IsFiniteSet(handlers')
        /\ IsFiniteSet(Orphans') /\ Cardinality(Orphans') <= Cardinality(Orphans) - 1
    BY <1>1, <1>2, StepOrphans
  <1>4. Distinct'
    BY <1>1, <1>2, DistinctStays
  <1>5. FiniteTasks'
    BY <1>1, <1>3 DEF FiniteTasks
  <1>6. Cardinality(Orphans') \in Nat
    BY <1>3, FS_CardinalityType
  <1> QED
    BY <1>1, <1>3, <1>4, <1>5, <1>6, OrphansFinite DEF Due

LEMMA WriteDue ==
    ASSUME TypeOK, FiniteTasks, Distinct, NEW h \in handlers,
           HandlerWrite(h) \/ HandlerWriteFails(h)
    PROVE  FiniteTasks' /\ Distinct' /\ Due' <= Due
  <1>1. jobs' = jobs /\ handlers' = handlers \ {h}
    BY DEF HandlerWrite, HandlerWriteFails
  <1>2. Distinct'
    BY <1>1, DistinctStays
  <1>3. IsFiniteSet(Orphans') /\ Cardinality(Orphans') <= Cardinality(Orphans)
    BY <1>1, EndsOrphans
  <1>4. IsFiniteSet(jobs') /\ IsFiniteSet(handlers')
    BY <1>1, FS_RemoveElement DEF FiniteTasks
  <1>5. FiniteTasks' /\ Due' <= Due + 0 + 0
    BY <1>1, <1>3, <1>4, DueBound, OrphansFinite
  <1> QED
    BY <1>2, <1>5, OrphansFinite

-----------------------------------------------------------------------------
(* New sender tasks, in a slot that is free, and the end of a process.     *)

LEMMA NewTasks ==
    ASSUME FiniteTasks, Distinct, NEW p, NEW s, IsFree(s, p), NEW N, IsFiniteSet(N),
           \A j \in N : j.from = p /\ j.slot = s /\ j.at = "connect",
           \A i, j \in N : i.to = j.to => i = j,
           jobs' = jobs \cup N, handlers' = handlers
    PROVE  FiniteTasks' /\ Distinct' /\ Due' \in Nat /\ Due' <= Due + Cardinality(N)
  <1>1. \A t \in jobs \cup handlers : ~(t.from = p /\ t.slot = s)
    BY DEF IsFree
  <1>2. JobsDistinct'
    BY <1>1 DEF Distinct, JobsDistinct, Same
  <1>3. AttemptsOrdered' /\ HandlersDistinct'
    BY <1>1 DEF Distinct, HandlersDistinct, AttemptsOrdered, Same
  <1>4. \A h \in handlers : Awaiting(h)' = Awaiting(h)
    BY DEF Awaiting
  <1>5. Answered' /\ Orphans' = Orphans
    BY <1>4 DEF Distinct, Answered, Orphans
  <1>6. /\ IsFiniteSet(jobs')
        /\ Cardinality(jobs') = Cardinality(jobs) + Cardinality(N) - Cardinality(jobs \cap N)
    BY FS_Union DEF FiniteTasks
  <1>7. Cardinality(N) \in Nat /\ Cardinality(jobs \cap N) \in Nat
    BY FS_CardinalityType, FS_Intersection
  <1>8. Cardinality(jobs') <= Cardinality(jobs) + Cardinality(N)
    BY <1>6, <1>7, OrphansFinite
  <1>9. IsFiniteSet(handlers') /\ IsFiniteSet(Orphans')
    BY <1>5, OrphansFinite DEF FiniteTasks
  <1>10. Cardinality(Orphans') <= Cardinality(Orphans) + 0
    BY <1>5, OrphansFinite
  <1>11. FiniteTasks' /\ Due' \in Nat /\ Due' <= Due + Cardinality(N) + 0
    BY <1>6, <1>7, <1>8, <1>9, <1>10, DueBound
  <1> QED
    BY <1>2, <1>3, <1>5, <1>7, <1>11, OrphansFinite DEF Distinct

LEMMA NewJobsCount ==
    ASSUME NEW n \in Nodes, NEW s, NEW c
    PROVE  /\ IsFiniteSet(NewJobs(n, s, c))
           /\ Cardinality(NewJobs(n, s, c)) \in Nat /\ Cardinality(Peers[n]) \in Nat
           /\ Cardinality(NewJobs(n, s, c)) <= Cardinality(Peers[n])
  <1> DEFINE job == [p \in Peers[n] |->
                        [from |-> n, to |-> p, slot |-> s, attempt |-> 0,
                         content |-> c, key |-> Key[n], at |-> "connect"]]
  <1>1. job \in [Peers[n] -> NewJobs(n, s, c)]
    BY DEF NewJobs
  <1>2. \A j \in NewJobs(n, s, c) : \E p \in Peers[n] : job[p] = j
    BY DEF NewJobs
  <1>3. IsFiniteSet(Peers[n])
    BY DaemonAssumption
  <1> HIDE DEF job
  <1>4. job \in Surjection(Peers[n], NewJobs(n, s, c))
    BY <1>1, <1>2, Fun_IsSurj
  <1> QED
    BY <1>3, <1>4, FS_Surjection, FS_CardinalityType

LEMMA BroadcastDue ==
    ASSUME FiniteTasks, Distinct, NEW n \in Nodes, PollBroadcast(n)
    PROVE  FiniteTasks' /\ Distinct' /\ Due' <= Due + Cardinality(Peers[n])
  <1>1. PICK s \in Slots : IsFree(s, n) /\ jobs' = jobs \cup NewJobs(n, s, polled[n])
    BY DEF PollBroadcast
  <1> DEFINE N == NewJobs(n, s, polled[n])
  <1>2. /\ \A j \in N : j.from = n /\ j.slot = s /\ j.at = "connect"
        /\ \A i, j \in N : i.to = j.to => i = j
    BY DEF NewJobs
  <1>3. handlers' = handlers
    BY DEF PollBroadcast
  <1>4. /\ IsFiniteSet(N) /\ Cardinality(N) \in Nat /\ Cardinality(Peers[n]) \in Nat
        /\ Cardinality(N) <= Cardinality(Peers[n])
    BY NewJobsCount
  <1> HIDE DEF N
  <1>5. jobs' = jobs \cup N
    BY <1>1 DEF N
  <1>6. FiniteTasks' /\ Distinct' /\ Due' \in Nat /\ Due' <= Due + Cardinality(N)
    BY <1>1, <1>2, <1>3, <1>4, <1>5, NewTasks
  <1> QED
    BY <1>4, <1>6, OrphansFinite

LEMMA CliSendDue ==
    ASSUME FiniteTasks, Distinct, NEW p, NEW c, NEW k, CliSend(p, c, k)
    PROVE  FiniteTasks' /\ Distinct' /\ Due' <= Due + 1
  <1>1. PICK s \in Slots :
            /\ IsFree(s, Cli)
            /\ jobs' = jobs \cup {[from |-> Cli, to |-> p, slot |-> s, attempt |-> MaxRetries,
                                   content |-> c, key |-> k, at |-> "connect"]}
    BY DEF CliSend
  <1> DEFINE N == {[from |-> Cli, to |-> p, slot |-> s, attempt |-> MaxRetries,
                    content |-> c, key |-> k, at |-> "connect"]}
  <1>2. /\ \A j \in N : j.from = Cli /\ j.slot = s /\ j.at = "connect"
        /\ \A i, j \in N : i.to = j.to => i = j
    OBVIOUS
  <1>3. IsFiniteSet(N) /\ Cardinality(N) = 1
    BY FS_Singleton
  <1>4. handlers' = handlers /\ jobs' = jobs \cup N
    BY <1>1 DEF CliSend
  <1> HIDE DEF N
  <1> QED
    BY <1>1, <1>2, <1>3, <1>4, NewTasks

\* Tasks that end without an answer, with their process or by a silent loss, leave
\* at most one handler each that nobody waits for any more.
LEMMA FewerDue ==
    ASSUME TypeOK, FiniteTasks, Distinct,
           jobs' \in SUBSET jobs, handlers' \in SUBSET handlers
    PROVE  FiniteTasks' /\ Distinct' /\ Due' <= Due
  <1> DEFINE new == Orphans' \ Orphans
             gone == jobs \ jobs'
             was == [h \in new |-> CHOOSE j \in gone : j \in Awaiting(h)]
  <1>1. jobs' \in SUBSET jobs /\ handlers' \in SUBSET handlers
    OBVIOUS
  <1>2. Distinct'
    BY <1>1, DistinctStays
  <1>3. FiniteTasks'
    BY <1>1, FS_Subset DEF FiniteTasks
  <1>4. ASSUME NEW h \in new
        PROVE  h \in handlers /\ \E j \in gone : j \in Awaiting(h)
    BY <1>1 DEF Orphans, Awaiting
  <1>5. \A h \in new : was[h] \in gone /\ was[h] \in Awaiting(h)
    BY <1>4
  <1>6. \A g, h \in new : was[g] = was[h] => g = h
    BY <1>4, <1>5, OneAwaited
  <1>7. was \in [new -> gone]
    BY <1>5
  <1> HIDE DEF was
  <1>8. was \in Injection(new, gone)
    BY <1>6, <1>7 DEF Injection, IsInjective
  <1>9. /\ IsFiniteSet(gone)
        /\ Cardinality(gone) = Cardinality(jobs) - Cardinality(jobs')
    <2>1. jobs \cap jobs' = jobs'
      BY <1>1
    <2> QED
      BY <2>1, FS_Difference DEF FiniteTasks
  <1>10. IsFiniteSet(new) /\ Cardinality(new) <= Cardinality(gone)
    BY <1>8, <1>9, FS_Injection
  <1>11. /\ IsFiniteSet(Orphans \cup new)
         /\ Cardinality(Orphans \cup new) =
                Cardinality(Orphans) + Cardinality(new) - Cardinality(Orphans \cap new)
    BY <1>10, OrphansFinite, FS_Union
  <1>12. Orphans \cap new = {}
    OBVIOUS
  <1>13. Orphans' \in SUBSET (Orphans \cup new)
    OBVIOUS
  <1> HIDE DEF new, gone
  <1>14. /\ Cardinality(Orphans') <= Cardinality(Orphans \cup new)
         /\ Cardinality(Orphans') \in Nat
    BY <1>11, <1>13, NoMore
  <1>15. Cardinality(Orphans \cup new) = Cardinality(Orphans) + Cardinality(new)
    <2>1. Cardinality(Orphans \cap new) = 0
      BY <1>12, FS_EmptySet
    <2>2. Cardinality(new) \in Nat
      BY <1>10, FS_CardinalityType
    <2> QED
      BY <1>11, <2>1, <2>2, OrphansFinite
  <1>16. Cardinality(jobs') \in Nat
    BY <1>3, FS_CardinalityType DEF FiniteTasks
  <1>17. Cardinality(new) \in Nat
    BY <1>10, FS_CardinalityType
  <1> QED
    BY <1>2, <1>3, <1>9, <1>10, <1>14, <1>15, <1>16, <1>17, OrphansFinite DEF Due

-----------------------------------------------------------------------------
(* The theorem.                                                            *)

\* A step that touches neither tasks nor handlers
LEMMA OtherDue ==
    ASSUME FiniteTasks, Distinct, UNCHANGED <<jobs, handlers>>
    PROVE  FiniteTasks' /\ Distinct' /\ Due' = Due
  <1>1. \A h \in handlers : Awaiting(h)' = Awaiting(h)
    BY DEF Awaiting
  <1>2. Orphans' = Orphans
    BY <1>1 DEF Orphans
  <1> QED
    BY <1>1, <1>2
    DEF FiniteTasks, Due, Distinct, JobsDistinct, HandlersDistinct, AttemptsOrdered, Answered

Counters == stores \in Nat /\ sends \in Nat /\ spent["net"] \in Nat

LEMMA DueNatNext ==
    ASSUME FiniteTasks'
    PROVE  /\ Cardinality(Orphans') \in Nat /\ Cardinality(jobs') \in Nat
           /\ Due' \in Nat
  <1>1. Orphans' \in SUBSET handlers'
    BY DEF Orphans
  <1> QED
    BY <1>1, FS_Subset, FS_CardinalityType DEF FiniteTasks, Due

\* From the change of the counters to the property
LEMMA Balance ==
    ASSUME Counters, OneDeliveryPerSend, FiniteTasks, FiniteTasks', Distinct',
           NEW m \in Nat, NEW n \in Nat,
           stores' = stores + m, sends' = sends + n, spent'["net"] \in Nat,
           Due' + m + spent["net"] <= Due + n + spent'["net"]
    PROVE  DeliveryInv'
  <1>1. stores + Due <= sends + spent["net"]
    BY OrphansFinite DEF OneDeliveryPerSend, Due, Counters
  <1>2. stores' + Due' <= sends' + spent'["net"]
    BY <1>1, DueNatNext, OrphansFinite DEF Counters
  <1>3. OneDeliveryPerSend'
    BY <1>2, DueNatNext DEF OneDeliveryPerSend, Due, Counters
  <1> QED
    BY <1>3 DEF DeliveryInv

\* The same for a step that counts neither a send nor a store, and owes no more
LEMMA NothingDue ==
    ASSUME Counters, DeliveryInv, FiniteTasks', Distinct', UNCHANGED <<stores, sends>>,
           spent'["net"] \in Nat, Due' + spent["net"] <= Due + spent'["net"]
    PROVE  DeliveryInv'
  <1>1. Due' + 0 + spent["net"] <= Due + 0 + spent'["net"]
    BY DueNatNext, OrphansFinite DEF DeliveryInv, Counters
  <1>2. stores' = stores + 0 /\ sends' = sends + 0
    BY DEF Counters
  <1> QED
    BY <1>1, <1>2, Balance DEF DeliveryInv

LEMMA UnrecordedDue ==
    ASSUME TypeOK, TypeOK', Counters, DeliveryInv, Unrecorded, UNCHANGED history
    PROVE  DeliveryInv'
  <1>1. /\ FiniteTasks /\ Distinct /\ UNCHANGED <<stores, sends>>
        /\ spent["net"] \in Nat /\ spent'["net"] \in Nat
    BY DEF DeliveryInv, history, TypeOK, BudgetKinds
  <1>2. ASSUME FiniteTasks', Due' <= Due, spent["net"] <= spent'["net"]
        PROVE  Due' + spent["net"] <= Due + spent'["net"]
    BY <1>1, <1>2, DueNatNext, OrphansFinite
  <1>3. ASSUME NEW n \in Nodes, PollUnchanged(n) \/ PollSkip(n) \/ CooldownElapses(n)
        PROVE  DeliveryInv'
    <2>1. UNCHANGED <<jobs, handlers, spent>>
      BY <1>3 DEF PollUnchanged, PollSkip, CooldownElapses
    <2>2. FiniteTasks' /\ Distinct' /\ Due' = Due
      BY <1>1, <2>1, OtherDue
    <2> QED
      BY <1>1, <1>2, <2>1, <2>2, OrphansFinite, NothingDue
  <1>4. ASSUME NEW n \in Nodes, Crash(n)
        PROVE  DeliveryInv'
    <2>1. FiniteTasks' /\ Distinct' /\ Due' <= Due
      BY <1>1, <1>4, FewerDue DEF Crash
    <2>2. spent["net"] <= spent'["net"]
      BY <1>1, <1>4 DEF Crash, Spend, TypeOK, BudgetKinds
    <2> QED
      BY <1>1, <1>2, <2>1, <2>2, NothingDue
  <1>5. ASSUME NEW j \in jobs, Sending(j)
        PROVE  DeliveryInv'
    <2>1. FiniteTasks' /\ Distinct' /\ Due' <= Due
      BY <1>1, <1>5, SendingDue
    <2>2. spent["net"] <= spent'["net"]
      BY <1>1, <1>5
      DEF Sending, Accept, Refused, Unreachable, PeerGone, Spend, TypeOK, BudgetKinds
    <2> QED
      BY <1>1, <1>2, <2>1, <2>2, NothingDue
  <1>6. ASSUME NEW h \in handlers, Reply(h) \/ Reject(h) \/ HandlerWriteFails(h)
        PROVE  DeliveryInv'
    <2>1. FiniteTasks' /\ Distinct' /\ Due' <= Due
      <3>1. CASE Reply(h)
        BY <1>1, <3>1, ReplyDue
      <3>2. CASE Reject(h)
        BY <1>1, <3>2, RejectDue DEF Reject
      <3>3. CASE HandlerWriteFails(h)
        BY <1>1, <3>3, WriteDue
      <3> QED
        BY <1>6, <3>1, <3>2, <3>3
    <2>2. spent["net"] <= spent'["net"]
      BY <1>1, <1>6 DEF Reply, Reject, HandlerWriteFails, Spend, TypeOK, BudgetKinds
    <2> QED
      BY <1>1, <1>2, <2>1, <2>2, NothingDue
  <1>7. ASSUME NEW h \in handlers, Break(h)
        PROVE  DeliveryInv'
    BY <1>1, <1>7, BreakDue, NothingDue
  <1>8. ASSUME NEW h \in handlers, Silence(h)
        PROVE  DeliveryInv'
    <2>1. FiniteTasks' /\ Distinct' /\ Due' <= Due
      BY <1>1, <1>8, FewerDue DEF Silence
    <2>2. spent["net"] <= spent'["net"]
      BY <1>1, <1>8 DEF Silence, Spend, TypeOK, BudgetKinds
    <2> QED
      BY <1>1, <1>2, <2>1, <2>2, NothingDue
  <1> QED
    BY <1>3, <1>4, <1>5, <1>6, <1>7, <1>8 DEF Unrecorded

LEMMA DeliveryNext ==
    TypeOK /\ TypeOK' /\ Counters /\ DeliveryInv /\ [HNext]_hvars => DeliveryInv'
  <1> SUFFICES ASSUME TypeOK, TypeOK', Counters, DeliveryInv, [HNext]_hvars
               PROVE  DeliveryInv'
    OBVIOUS
  <1>1. /\ FiniteTasks /\ Distinct /\ OneDeliveryPerSend
        /\ spent["net"] \in Nat /\ spent'["net"] \in Nat
    BY DEF DeliveryInv, TypeOK, BudgetKinds
  <1>2. ASSUME UNCHANGED <<jobs, handlers, spent, stores, sends>>
        PROVE  DeliveryInv'
    <2>1. FiniteTasks' /\ Distinct' /\ Due' = Due
      BY <1>1, <1>2, OtherDue
    <2>2. Due' + spent["net"] <= Due + spent'["net"]
      BY <1>1, <1>2, <2>1, OrphansFinite
    <2> QED
      BY <1>1, <1>2, <2>1, <2>2, NothingDue
  <1>3. ASSUME NEW n \in Nodes, HPollRead(n) \/ HStart(n)
        PROVE  DeliveryInv'
    BY <1>2, <1>3 DEF HPollRead, PollRead, HStart, Start
  <1>4. ASSUME NEW n \in Nodes, HPollBroadcast(n)
        PROVE  DeliveryInv'
    <2>1. FiniteTasks' /\ Distinct' /\ Due' <= Due + Cardinality(Peers[n])
      BY <1>1, <1>4, BroadcastDue DEF HPollBroadcast
    <2>2. Cardinality(Peers[n]) \in Nat
      BY DaemonAssumption, FS_CardinalityType
    <2>3. /\ stores' = stores + 0 /\ sends' = sends + Cardinality(Peers[n])
          /\ spent' = spent
      BY <1>4 DEF HPollBroadcast, PollBroadcast, Counters
    <2>4. Due' + 0 + spent["net"] <= Due + Cardinality(Peers[n]) + spent'["net"]
      BY <1>1, <2>1, <2>2, <2>3, DueNatNext, OrphansFinite
    <2> QED
      BY <1>1, <2>1, <2>2, <2>3, <2>4, Balance
  <1>5. ASSUME NEW h \in handlers, HHandlerStore(h)
        PROVE  DeliveryInv'
    <2>1. FiniteTasks' /\ Distinct' /\ Due' + 1 <= Due
      BY <1>1, <1>5, StoreDue DEF HHandlerStore
    <2>2. stores' = stores + 1 /\ sends' = sends + 0 /\ spent' = spent
      BY <1>5 DEF HHandlerStore, HandlerStore, Counters
    <2>3. Due' + 1 + spent["net"] <= Due + 0 + spent'["net"]
      BY <1>1, <2>1, <2>2, DueNatNext, OrphansFinite
    <2> QED
      BY <1>1, <2>1, <2>2, <2>3, Balance
  <1>6. ASSUME NEW h \in handlers, HHandlerWrite(h)
        PROVE  DeliveryInv'
    <2>1. FiniteTasks' /\ Distinct' /\ Due' <= Due
      BY <1>1, <1>6, WriteDue DEF HHandlerWrite
    <2>2. UNCHANGED <<stores, sends, spent>>
      BY <1>6 DEF HHandlerWrite, HandlerWrite
    <2>3. Due' + spent["net"] <= Due + spent'["net"]
      BY <1>1, <2>1, <2>2, DueNatNext, OrphansFinite
    <2> QED
      BY <1>1, <2>1, <2>2, <2>3, NothingDue
  <1>7. ASSUME NEW n \in Users, NEW c, HCopy(n, c)
        PROVE  DeliveryInv'
    <2>1. UNCHANGED <<jobs, handlers, stores, sends>> /\ spent'["net"] = spent["net"]
      BY <1>7 DEF HCopy, Copy, Spend, TypeOK, BudgetKinds
    <2>2. FiniteTasks' /\ Distinct' /\ Due' = Due
      BY <1>1, <2>1, OtherDue
    <2>3. Due' + spent["net"] <= Due + spent'["net"]
      BY <1>1, <2>1, <2>2, OrphansFinite
    <2> QED
      BY <1>1, <2>1, <2>2, <2>3, NothingDue
  <1>8. ASSUME NEW p \in Nodes, NEW k, NEW c, HCliSend(p, c, k)
        PROVE  DeliveryInv'
    <2>1. FiniteTasks' /\ Distinct' /\ Due' <= Due + 1
      BY <1>1, <1>8, CliSendDue DEF HCliSend
    <2>2. stores' = stores + 0 /\ sends' = sends + 1 /\ spent'["net"] = spent["net"]
      BY <1>8 DEF HCliSend, CliSend, Spend, TypeOK, BudgetKinds, Counters
    <2>3. Due' + 0 + spent["net"] <= Due + 1 + spent'["net"]
      BY <1>1, <2>1, <2>2, DueNatNext, OrphansFinite
    <2> QED
      BY <1>1, <2>1, <2>2, <2>3, Balance
  <1>9. CASE Unrecorded /\ UNCHANGED history
    BY <1>9, UnrecordedDue
  <1>10. CASE UNCHANGED hvars
    BY <1>2, <1>10 DEF hvars, vars, history
  <1> QED
    BY <1>3, <1>4, <1>5, <1>6, <1>7, <1>8, <1>9, <1>10 DEF HNext

LEMMA DeliveryInit == HInit => DeliveryInv
  <1> SUFFICES ASSUME HInit
               PROVE  DeliveryInv
    OBVIOUS
  <1>1. jobs = {} /\ handlers = {} /\ stores = 0 /\ sends = 0 /\ spent["net"] = 0
    BY DEF HInit, Init, BudgetKinds
  <1>2. Orphans = {}
    BY <1>1 DEF Orphans
  <1>3. FiniteTasks /\ OneDeliveryPerSend
    BY <1>1, <1>2, FS_EmptySet DEF FiniteTasks, OneDeliveryPerSend
  <1>4. Distinct
    BY <1>1 DEF Distinct, JobsDistinct, HandlersDistinct, AttemptsOrdered, Answered
  <1> QED
    BY <1>3, <1>4 DEF DeliveryInv

\* ONE DELIVERY FOR EACH SEND, for every network, number of retries and faults: a
\* content is stored once for each sender task, a second time only after a network
\* fault lost the ack of the first (broadcast_content, handle_connection).
THEOREM DeliveredOnce == HSpec => []OneDeliveryPerSend
  <1>1. HTypeOK => TypeOK /\ Counters
    BY DEF HTypeOK, TypeOK, BudgetKinds, Counters
  <1>2. DeliveryInv => OneDeliveryPerSend
    BY DEF DeliveryInv
  <1> QED
    BY <1>1, <1>2, HistoryTypes, DeliveryInit, DeliveryNext, PTL DEF HSpec

-----------------------------------------------------------------------------
(* Nothing is dropped.  Without damage, and with contents that fit into a  *)
(* message, a task never fails but by a network fault, of which it still   *)
(* has a retry left for each that is to come; its handler therefore waits  *)
(* for it until it answers, and then has a content to store.               *)

Standing ==
    /\ \A n \in Nodes : up[n]
    /\ \A j \in jobs :
        /\ j.from \in Nodes /\ j.attempt <= spent["net"]
        /\ j.at = "ack" => \E h \in handlers : h.at = "read" /\ j \in Awaiting(h)
    /\ \A h \in handlers : h.from \in Nodes

\* the contents that are still on their way
Kept == Cardinality(Pending) + Cardinality(jobs)

DropInv ==
    PeersShareKey /\ Undamaged /\ AllFit => Standing /\ sends <= stores + Kept

LEMMA KeptNat ==
    ASSUME FiniteTasks
    PROVE  /\ IsFiniteSet(Pending)
           /\ Cardinality(Pending) \in Nat /\ Cardinality(jobs) \in Nat /\ Kept \in Nat
  <1>1. Pending \in SUBSET handlers
    BY DEF Pending
  <1> QED
    BY <1>1, FS_Subset, FS_CardinalityType DEF FiniteTasks, Kept

LEMMA KeptNatNext ==
    ASSUME FiniteTasks'
    PROVE  /\ Cardinality(Pending') \in Nat /\ Cardinality(jobs') \in Nat /\ Kept' \in Nat
  <1>1. Pending' \in SUBSET handlers'
    BY DEF Pending
  <1> QED
    BY <1>1, FS_Subset, FS_CardinalityType DEF FiniteTasks, Kept

\* Between hosts of one key every message that fits is acceptable.
LEMMA AllAcceptable ==
    ASSUME Inv, NetInv, PeersShareKey, AllFit, NEW h \in handlers, h.from \in Nodes
    PROVE  IsAcceptable(h)
  <1>1. PICK k \in Keys \cup {None} : \E c \in Vocabulary[k] :
            h.msg = Wire(c, k) /\ Rightful(h.from, h.to, c, k)
    BY DEF NetInv, HandlersRightful
  <1>2. PICK c \in Vocabulary[k] : h.msg = Wire(c, k) /\ Rightful(h.from, h.to, c, k)
    BY <1>1
  <1>3. k = Key[h.to] /\ k \in Keys
    BY <1>2, DaemonAssumption DEF Rightful, PeersShareKey
  <1>4. h.msg = encrypted_content(c, k) /\ c \in Content
    BY <1>2, <1>3, KeysAssumption, VocabularyType DEF Wire
  <1>5. Received(h) = c
    BY <1>3, <1>4, SealedRoundTrip DEF Received
  <1>6. is_encrypted(h.msg)
    BY <1>4 DEF is_encrypted, encrypted_content, encrypted
  <1>7. c \notin Oversized
    BY <1>2 DEF Rightful, AllFit
  <1> QED
    BY <1>4, <1>5, <1>6, <1>7, ClipboardAssumption DEF IsAcceptable

\* A task with a retry left goes on as one task.
LEMMA RetryCounts ==
    ASSUME TypeOK, FiniteTasks, Distinct, NEW j \in jobs, j.attempt < MaxRetries
    PROVE  Cardinality(Failed({j})) = Cardinality(jobs)
  <1>1. j \in Job
    BY DEF TypeOK
  <1>2. Same(Again(j), j) /\ Again(j).attempt = j.attempt + 1 /\ j.attempt \in Nat
    BY <1>1, AgainIs
  <1>3. Again(j) \notin jobs
    BY <1>2 DEF Distinct, JobsDistinct
  <1>4. Failed({j}) = (jobs \ {j}) \cup {Again(j)}
    BY DEF Failed, Again
  <1>5. IsFiniteSet(jobs \ {j}) /\ Cardinality(jobs \ {j}) = Cardinality(jobs) - 1
    BY FS_RemoveElement DEF FiniteTasks
  <1>6. Cardinality(Failed({j})) = Cardinality(jobs \ {j}) + 1
    BY <1>3, <1>4, <1>5, FS_AddElement
  <1> QED
    BY <1>5, <1>6, KeptNat

\* A handler that answers has one content more to store.
LEMMA PendingGrows ==
    ASSUME TypeOK, FiniteTasks, Distinct, NEW h \in handlers, h.at = "read",
           handlers' = Step(h, "store")
    PROVE  Cardinality(Pending') = Cardinality(Pending) + 1
  <1>1. PICK g : /\ handlers' = (handlers \ {h}) \cup {g}
                 /\ Same(g, h) /\ g.attempt = h.attempt /\ g.at = "store"
    BY StepIs DEF TypeOK
  <1>2. g \notin handlers
    BY <1>1 DEF Distinct, HandlersDistinct
  <1>3. Pending' = Pending \cup {g} /\ g \notin Pending
    BY <1>1, <1>2 DEF Pending
  <1> QED
    BY <1>3, KeptNat, FS_AddElement

\* What stands, stands after a step in which only the tasks J fail or end, if they
\* fail by a network fault, and the handlers other tasks wait for stay.
LEMMA StandingStays ==
    ASSUME TypeOK, Standing, UNCHANGED up, NEW J \in SUBSET jobs,
           spent["net"] <= spent'["net"], spent'["net"] \in Nat,
           \/ jobs' = jobs \ J
           \/ jobs' = Failed(J) /\ (J = {} \/ spent'["net"] = spent["net"] + 1),
           \A g \in handlers' : \E h \in handlers : g.from = h.from,
           \A h \in handlers : h.at = "read" /\ ~(Awaiting(h) \subseteq J) => h \in handlers'
    PROVE  Standing'
  <1>1. jobs \subseteq Job /\ spent["net"] \in Nat
    BY DEF TypeOK, BudgetKinds
  <1>2. ASSUME NEW i \in jobs'
        PROVE  \/ i \in jobs \ J
               \/ spent'["net"] = spent["net"] + 1 /\ \E j \in J : i = Again(j)
    BY <1>1, FailedIs
  <1>3. ASSUME NEW i \in jobs \ J, i \in jobs'
        PROVE  /\ i.from \in Nodes /\ i.attempt <= spent'["net"]
               /\ i.at = "ack" => \E h \in handlers' : h.at = "read" /\ i \in Awaiting(h)'
    <2>1. i.from \in Nodes /\ i.attempt <= spent["net"] /\ i.attempt \in Nat
      BY <1>1, DaemonAssumption DEF Standing, Job
    <2>2. ASSUME i.at = "ack"
          PROVE  \E h \in handlers' : h.at = "read" /\ i \in Awaiting(h)'
      <3>1. PICK h \in handlers : h.at = "read" /\ i \in Awaiting(h)
        BY <2>2 DEF Standing
      <3>2. h \in handlers'
        BY <3>1
      <3> QED
        BY <1>3, <3>1, <3>2 DEF Awaiting
    <2> QED
      BY <1>1, <2>1, <2>2
  <1>4. ASSUME NEW j \in J, spent'["net"] = spent["net"] + 1
        PROVE  /\ Again(j).from \in Nodes /\ Again(j).attempt <= spent'["net"]
               /\ Again(j).at # "ack"
    <2>1. j.from \in Nodes /\ j.attempt <= spent["net"]
      BY DEF Standing
    <2>2. /\ Again(j).from = j.from /\ Again(j).attempt = j.attempt + 1
          /\ Again(j).at = "connect" /\ j.attempt \in Nat
      BY <1>1, AgainIs DEF Same
    <2> QED
      BY <1>1, <1>4, <2>1, <2>2
  <1> QED
    BY <1>2, <1>3, <1>4 DEF Standing

\* An undamaged state that stands
Sound ==
    /\ Inv /\ NetInv /\ FiniteTasks /\ Distinct
    /\ PeersShareKey /\ Undamaged /\ AllFit /\ Standing

LEMMA AcceptKeeps ==
    ASSUME Sound, TypeOK', NEW j \in jobs, Accept(j)
    PROVE  Standing' /\ Kept' = Kept
  <1> DEFINE waiting == [j EXCEPT !.at = "ack"]
             new == HandlerOf(j)
  <1>1. j \in Job /\ FiniteTasks /\ Distinct /\ Standing
    BY DEF Sound, Inv, TypeOK
  <1>2. /\ Same(waiting, j) /\ waiting.attempt = j.attempt /\ waiting.at = "ack"
        /\ Same(new, j) /\ new.attempt = j.attempt /\ new.at = "read"
    BY <1>1 DEF Same, Job, HandlerOf
  <1>3. /\ jobs' = (jobs \ {j}) \cup {waiting} /\ handlers' = handlers \cup {new}
        /\ j.at = "connect" /\ UNCHANGED <<up, spent>>
    BY DEF Accept
  <1> HIDE DEF waiting, new
  <1>4. waiting \in Awaiting(new)'
    BY <1>2, <1>3 DEF Awaiting, Same
  <1>5. ASSUME NEW i \in jobs \ {j}, i.at = "ack"
        PROVE  \E h \in handlers' : h.at = "read" /\ i \in Awaiting(h)'
    <2>1. PICK h \in handlers : h.at = "read" /\ i \in Awaiting(h)
      BY <1>1, <1>5 DEF Standing
    <2>2. i \in Awaiting(h)'
      BY <1>3, <2>1 DEF Awaiting
    <2> QED
      BY <1>3, <2>1, <2>2
  <1>6. \A i \in jobs' : i.from \in Nodes /\ i.attempt <= spent'["net"]
    BY <1>1, <1>2, <1>3 DEF Standing, Same
  <1>7. \A h \in handlers' : h.from \in Nodes
    BY <1>1, <1>2, <1>3 DEF Standing, Same
  <1>8. Standing'
    BY <1>1, <1>2, <1>3, <1>4, <1>5, <1>6, <1>7 DEF Standing
  <1>9. Cardinality(jobs') = Cardinality(jobs)
    <2>1. waiting \notin jobs \ {j}
      BY <1>1, <1>2 DEF Distinct, JobsDistinct
    <2>2. IsFiniteSet(jobs \ {j}) /\ Cardinality(jobs \ {j}) = Cardinality(jobs) - 1
      BY <1>1, FS_RemoveElement DEF FiniteTasks
    <2>3. Cardinality(jobs') = Cardinality(jobs \ {j}) + 1
      BY <1>3, <2>1, <2>2, FS_AddElement
    <2> QED
      BY <1>1, <2>2, <2>3, KeptNat
  <1>10. Pending' = Pending
    BY <1>2, <1>3 DEF Pending
  <1> QED
    BY <1>8, <1>9, <1>10 DEF Kept

\* Only a network fault makes a task fail, and it has a retry left for it.
LEMMA SendingKeeps ==
    ASSUME Sound, TypeOK', Undamaged', NEW j \in jobs, Sending(j)
    PROVE  Standing' /\ Kept' = Kept
  <1>1. TypeOK /\ j \in Job /\ FiniteTasks /\ Distinct /\ Standing
    BY DEF Sound, Inv, TypeOK
  <1>2. CASE Accept(j)
    BY <1>2, AcceptKeeps
  <1>3. CASE Refused(j)
    <2>1. up[j.to] /\ ~up[j.to]
      BY <1>1, <1>3 DEF Refused, Standing, Job
    <2> QED
      BY <2>1
  <1>4. CASE Unreachable(j)
    <2>1. /\ jobs' = Failed({j}) /\ UNCHANGED <<up, handlers>>
          /\ spent["net"] \in Nat /\ spent'["net"] = spent["net"] + 1
          /\ spent'["net"] <= MaxRetries
      BY <1>1, <1>4 DEF Unreachable, Spend, TypeOK, BudgetKinds, Undamaged
    <2>2. j.attempt < MaxRetries
      BY <1>1, <2>1, DaemonAssumption DEF Standing, Job
    <2>3. Standing'
      BY <1>1, <2>1, StandingStays
    <2>4. Cardinality(jobs') = Cardinality(jobs)
      BY <1>1, <2>1, <2>2, RetryCounts
    <2> QED
      BY <2>1, <2>3, <2>4 DEF Kept, Pending
  <1>5. CASE PeerGone(j)
    BY <1>1, <1>5 DEF PeerGone, Standing
  <1> QED
    BY <1>2, <1>3, <1>4, <1>5 DEF Sending

LEMMA ReplyKeeps ==
    ASSUME Sound, FiniteTasks', NEW h \in handlers, Reply(h)
    PROVE  Standing' /\ Kept' >= Kept
  <1>1. /\ TypeOK /\ FiniteTasks /\ Distinct /\ Standing
        /\ spent["net"] \in Nat
    BY DEF Sound, Inv, TypeOK, BudgetKinds
  <1>2. /\ jobs' = jobs \ Awaiting(h) /\ handlers' = Step(h, "store") /\ h.at = "read"
        /\ Awaiting(h) \in SUBSET jobs /\ UNCHANGED <<up, spent>>
    BY DEF Reply, Awaiting
  <1>3. \A g \in handlers' : \E f \in handlers : g.from = f.from
    BY <1>1, <1>2, StepType DEF TypeOK
  <1>4. handlers \ {h} \subseteq handlers'
    BY <1>2 DEF Step
  <1>5. Standing'
    BY <1>1, <1>2, <1>3, <1>4, StandingStays
  <1>6. Cardinality(Pending') = Cardinality(Pending) + 1
    BY <1>1, <1>2, PendingGrows
  <1>7. Cardinality(jobs') >= Cardinality(jobs) - 1
    <2>1. CASE Awaiting(h) = {}
      BY <1>1, <1>2, <2>1, KeptNat
    <2>2. ASSUME NEW j \in jobs, Awaiting(h) = {j}
          PROVE  Cardinality(jobs') = Cardinality(jobs) - 1
      BY <1>1, <1>2, <2>2, FS_RemoveElement DEF FiniteTasks
    <2> QED
      BY <1>1, <2>1, <2>2, OneAwaits, KeptNat
  <1> QED
    BY <1>1, <1>5, <1>6, <1>7, KeptNat, KeptNatNext DEF Kept

LEMMA BreakKeeps ==
    ASSUME Sound, FiniteTasks', TypeOK', Undamaged', NEW h \in handlers, Break(h)
    PROVE  Standing' /\ Kept' >= Kept
  <1>1. TypeOK /\ FiniteTasks /\ Distinct /\ Standing /\ spent["net"] \in Nat
    BY DEF Sound, Inv, TypeOK, BudgetKinds
  <1>2. /\ jobs' = Failed(Awaiting(h)) /\ h.at = "read" /\ Awaiting(h) \in SUBSET jobs
        /\ handlers' = handlers \ {h} \/ handlers' = Step(h, "store")
        /\ UNCHANGED up
    BY DEF Break, Awaiting
  <1>3. /\ spent'["net"] \in Nat /\ spent'["net"] <= MaxRetries
        /\ IF Awaiting(h) = {} THEN spent' = spent ELSE spent'["net"] = spent["net"] + 1
    BY <1>1 DEF Break, Spend, TypeOK, BudgetKinds, Undamaged
  <1>4. \A g \in handlers' : \E f \in handlers : g.from = f.from
    BY <1>1, <1>2, StepType DEF TypeOK
  <1>5. handlers \ {h} \subseteq handlers'
    BY <1>2 DEF Step
  <1>6. Standing'
    BY <1>1, <1>2, <1>3, <1>4, <1>5, StandingStays
  <1>7. Cardinality(Pending') >= Cardinality(Pending)
    <2>1. CASE handlers' = handlers \ {h}
      <3>1. Pending' = Pending
        BY <1>2, <2>1 DEF Pending
      <3> QED
        BY <1>1, <3>1, KeptNat
    <2>2. CASE handlers' = Step(h, "store")
      <3>1. Cardinality(Pending') = Cardinality(Pending) + 1
        BY <1>1, <1>2, <2>2, PendingGrows
      <3> QED
        BY <1>1, <3>1, KeptNat
    <2> QED
      BY <1>2, <2>1, <2>2
  <1>8. Cardinality(jobs') = Cardinality(jobs)
    <2>1. CASE Awaiting(h) = {}
      BY <1>2, <2>1 DEF Failed
    <2>2. ASSUME NEW j \in jobs, Awaiting(h) = {j}
          PROVE  Cardinality(jobs') = Cardinality(jobs)
      <3>1. j.attempt \in Nat /\ j.attempt <= spent["net"]
        BY <1>1, DaemonAssumption DEF Standing, TypeOK, Job
      <3>2. j.attempt < MaxRetries
        BY <1>1, <1>3, <2>2, <3>1, DaemonAssumption
      <3> QED
        BY <1>1, <1>2, <2>2, <3>2, RetryCounts
    <2> QED
      BY <1>1, <2>1, <2>2, OneAwaits
  <1> QED
    BY <1>1, <1>6, <1>7, <1>8, KeptNat, KeptNatNext DEF Kept

\* A handler that was answered, or is about to write, concerns no task.
LEMMA JobsStand ==
    ASSUME Standing, UNCHANGED <<up, jobs>>, spent'["net"] = spent["net"],
           \A g \in handlers' : \E h \in handlers : g.from = h.from,
           \A h \in handlers : h.at = "read" => h \in handlers'
    PROVE  Standing'
  <1>1. \A j \in jobs : j.at = "ack" => \E h \in handlers' : h.at = "read" /\ j \in Awaiting(h)'
    BY DEF Standing, Awaiting
  <1> QED
    BY <1>1 DEF Standing

\* What a handler stores is one content less that it has to store.
LEMMA StoreKeeps ==
    ASSUME Sound, NEW h \in handlers, HandlerStore(h)
    PROVE  Standing' /\ Kept' = Kept - 1
  <1>1. TypeOK /\ FiniteTasks /\ Standing
    BY DEF Sound, Inv
  <1>2. /\ h \in Pending /\ h.at = "store" /\ handlers' = Step(h, "write")
        /\ UNCHANGED <<up, jobs, spent>>
    BY DEF HandlerStore, Pending
  <1>3. PICK g : /\ handlers' = (handlers \ {h}) \cup {g}
                 /\ Same(g, h) /\ g.at = "write"
    BY <1>1, <1>2, StepIs DEF TypeOK
  <1>4. Standing'
    BY <1>1, <1>2, <1>3, JobsStand DEF Same
  <1>5. Pending' = Pending \ {h}
    BY <1>3 DEF Pending
  <1>6. Cardinality(Pending') = Cardinality(Pending) - 1
    BY <1>1, <1>2, <1>5, KeptNat, FS_RemoveElement
  <1> QED
    BY <1>1, <1>2, <1>4, <1>6, KeptNat DEF Kept

LEMMA HandlingKeeps ==
    ASSUME Sound, FiniteTasks', TypeOK', Undamaged', NEW h \in handlers,
           \/ Reply(h) \/ Reject(h) \/ Break(h) \/ Silence(h)
           \/ HandlerWrite(h) \/ HandlerWriteFails(h)
    PROVE  Standing' /\ Kept' >= Kept
  <1>1. TypeOK /\ FiniteTasks /\ Standing /\ spent["net"] \in Nat
    BY DEF Sound, Inv, TypeOK, BudgetKinds
  <1>2. CASE Reply(h)
    BY <1>2, ReplyKeeps
  <1>3. CASE Reject(h)
    BY <1>1, <1>3, AllAcceptable DEF Reject, Standing, Sound
  <1>4. CASE Break(h)
    BY <1>4, BreakKeeps
  <1>5. CASE HandlerWrite(h) \/ HandlerWriteFails(h)
    <2>1. /\ UNCHANGED <<up, jobs>> /\ h.at = "write" /\ handlers' = handlers \ {h}
          /\ spent'["net"] = spent["net"]
      BY <1>1, <1>5 DEF HandlerWrite, HandlerWriteFails, Spend, TypeOK, BudgetKinds
    <2>2. Standing'
      BY <1>1, <2>1, JobsStand
    <2>3. Pending' = Pending
      BY <2>1 DEF Pending
    <2> QED
      BY <1>1, <2>1, <2>2, <2>3, KeptNat DEF Kept
  <1>6. CASE Silence(h)
    <2>1. spent["silent"] \in Nat /\ spent'["silent"] = spent["silent"] + 1
      BY <1>1, <1>6 DEF Silence, Spend, TypeOK, BudgetKinds
    <2> QED
      BY <2>1 DEF Undamaged
  <1> QED
    BY <1>2, <1>3, <1>4, <1>5, <1>6

-----------------------------------------------------------------------------
(* A broadcast starts one task for each peer.                              *)

LEMMA BroadcastCount ==
    ASSUME FiniteTasks, NEW n \in Nodes, PollBroadcast(n)
    PROVE  Cardinality(jobs') >= Cardinality(jobs) + Cardinality(Peers[n])
  <1>1. PICK s \in Slots : IsFree(s, n) /\ jobs' = jobs \cup NewJobs(n, s, polled[n])
    BY DEF PollBroadcast
  <1> DEFINE N == NewJobs(n, s, polled[n])
             job == [p \in Peers[n] |->
                        [from |-> n, to |-> p, slot |-> s, attempt |-> 0,
                         content |-> polled[n], key |-> Key[n], at |-> "connect"]]
  <1>2. \A p \in Peers[n] : job[p] \in N /\ job[p].to = p
    BY DEF NewJobs
  <1>3. \A j \in N : j.from = n /\ j.slot = s
    BY DEF NewJobs
  <1>4. /\ IsFiniteSet(N) /\ Cardinality(N) \in Nat /\ Cardinality(Peers[n]) \in Nat
    BY NewJobsCount
  <1>5. job \in [Peers[n] -> N]
    BY <1>2
  <1> HIDE DEF N, job
  <1>6. job \in Injection(Peers[n], N)
    BY <1>2, <1>5, Fun_IsInj
  <1>7. Cardinality(Peers[n]) <= Cardinality(N)
    BY <1>4, <1>6, FS_Injection
  <1>8. jobs' = jobs \cup N /\ jobs \cap N = {}
    BY <1>1, <1>3 DEF N, IsFree
  <1>9. Cardinality(jobs') = Cardinality(jobs) + Cardinality(N) - Cardinality(jobs \cap N)
    BY <1>4, <1>8, FS_Union DEF FiniteTasks
  <1>10. Cardinality(jobs \cap N) = 0
    BY <1>8, FS_EmptySet
  <1> QED
    BY <1>4, <1>7, <1>9, <1>10, KeptNat

LEMMA BroadcastKeeps ==
    ASSUME Sound, FiniteTasks', NEW n \in Nodes, PollBroadcast(n)
    PROVE  Standing' /\ Kept' >= Kept + Cardinality(Peers[n])
  <1>1. TypeOK /\ FiniteTasks /\ Standing /\ spent["net"] \in Nat
    BY DEF Sound, Inv, TypeOK, BudgetKinds
  <1>2. PICK s \in Slots : jobs' = jobs \cup NewJobs(n, s, polled[n])
    BY DEF PollBroadcast
  <1>3. UNCHANGED <<up, handlers, spent>>
    BY DEF PollBroadcast
  <1>4. \A j \in NewJobs(n, s, polled[n]) : j.from \in Nodes /\ j.attempt = 0 /\ j.at # "ack"
    BY DEF NewJobs
  <1>5. \A j \in jobs, h \in handlers : j \in Awaiting(h) => j \in Awaiting(h)'
    BY <1>2 DEF Awaiting
  <1>6. Standing'
    BY <1>1, <1>2, <1>3, <1>4, <1>5 DEF Standing
  <1>7. Pending' = Pending
    BY <1>3 DEF Pending
  <1>8. Cardinality(Peers[n]) \in Nat
    BY DaemonAssumption, FS_CardinalityType
  <1> QED
    BY <1>1, <1>6, <1>7, <1>8, BroadcastCount, KeptNat, KeptNatNext DEF Kept

\* Damage is not undone.
LEMMA SpentStays ==
    ASSUME TypeOK, [HNext]_hvars
    PROVE  \A b \in BudgetKinds : spent[b] \in Nat /\ spent[b] <= spent'[b]
  <1>1. \A b \in BudgetKinds : spent[b] \in Nat
    BY DEF TypeOK
  <1>2. spent' = spent \/ \E b \in BudgetKinds : Spend(b)
    <2>1. CASE HNext
      <3>1. ASSUME NEW n \in Nodes, HPollRead(n) \/ HPollBroadcast(n) \/ HStart(n)
            PROVE  spent' = spent
        BY <3>1 DEF HPollRead, PollRead, HPollBroadcast, PollBroadcast, HStart, Start
      <3>2. ASSUME NEW h \in handlers, HHandlerStore(h) \/ HHandlerWrite(h)
            PROVE  spent' = spent
        BY <3>2 DEF HHandlerStore, HandlerStore, HHandlerWrite, HandlerWrite
      <3>3. ASSUME NEW n, NEW c, HCopy(n, c)
            PROVE  Spend("copy")
        BY <3>3 DEF HCopy, Copy
      <3>4. ASSUME NEW p, NEW k, NEW c, HCliSend(p, c, k)
            PROVE  Spend("send")
        BY <3>4 DEF HCliSend, CliSend
      <3>5. CASE Unrecorded
        <4>1. ASSUME NEW n \in Nodes,
                     PollUnchanged(n) \/ PollSkip(n) \/ CooldownElapses(n) \/ Crash(n)
              PROVE  spent' = spent \/ Spend("crash")
          BY <4>1 DEF PollUnchanged, PollSkip, CooldownElapses, Crash
        <4>2. ASSUME NEW j \in jobs, Sending(j)
              PROVE  spent' = spent \/ Spend("net")
          BY <4>2 DEF Sending, Accept, Refused, Unreachable, PeerGone
        <4>3. ASSUME NEW h \in handlers,
                     Reply(h) \/ Reject(h) \/ Break(h) \/ Silence(h) \/ HandlerWriteFails(h)
              PROVE  spent' = spent \/ Spend("net") \/ Spend("silent") \/ Spend("write")
          BY <4>3 DEF Reply, Reject, Break, Silence, HandlerWriteFails
        <4> QED
          BY <3>5, <4>1, <4>2, <4>3 DEF Unrecorded, BudgetKinds
      <3> QED
        BY <2>1, <3>1, <3>2, <3>3, <3>4, <3>5 DEF HNext, BudgetKinds
    <2> QED
      BY <2>1 DEF hvars, vars
  <1>3. ASSUME NEW b \in BudgetKinds, Spend(b)
        PROVE  \A d \in BudgetKinds : spent[d] <= spent'[d]
    BY <1>1, <1>3 DEF Spend, TypeOK
  <1> QED
    BY <1>1, <1>2, <1>3

\* What has been seen stays seen.
LEMMA SeenStays ==
    ASSUME SeenOK, [HNext]_hvars
    PROVE  \A n \in Nodes : seen[n] \subseteq seen'[n]
  <1>1. ASSUME NEW n, NEW c, NEW byUser, Sets(n, c, byUser)
        PROVE  \A m \in Nodes : seen[m] \subseteq seen'[m]
    BY <1>1 DEF Sets, SeenOK
  <1>2. CASE \E h \in handlers : HHandlerWrite(h)
    BY <1>1, <1>2 DEF HHandlerWrite
  <1>3. CASE \E n \in Users : \E c \in Vocabulary[Key[n]] : HCopy(n, c)
    BY <1>1, <1>3 DEF HCopy
  <1>4. CASE \E n \in Nodes : HPollRead(n) \/ HPollBroadcast(n) \/ HStart(n)
    BY <1>4 DEF HPollRead, HPollBroadcast, HStart
  <1>5. CASE \E h \in handlers : HHandlerStore(h)
    BY <1>5 DEF HHandlerStore
  <1>6. CASE \E p \in Nodes, k \in Keys \cup {None} : \E c \in Vocabulary[k] : HCliSend(p, c, k)
    BY <1>6 DEF HCliSend
  <1>7. CASE UNCHANGED history
    BY <1>7 DEF history
  <1> QED
    BY <1>2, <1>3, <1>4, <1>5, <1>6, <1>7 DEF HNext, hvars

\* A step that keeps what is on its way, and counts neither a send nor a store
LEMMA NothingLost ==
    ASSUME Counters, FiniteTasks, FiniteTasks', UNCHANGED <<sends, stores>>,
           sends <= stores + Kept, Kept' >= Kept
    PROVE  sends' <= stores' + Kept'
  BY KeptNat, KeptNatNext DEF Counters

LEMMA UnrecordedKeeps ==
    ASSUME Sound, FiniteTasks', TypeOK', Undamaged', Unrecorded
    PROVE  Standing' /\ Kept' >= Kept
  <1>1. TypeOK /\ FiniteTasks /\ Standing
    BY DEF Sound, Inv
  <1>2. ASSUME NEW n \in Nodes, PollUnchanged(n) \/ PollSkip(n) \/ CooldownElapses(n)
        PROVE  Standing' /\ Kept' >= Kept
    <2>1. UNCHANGED <<up, jobs, handlers, spent>>
      BY <1>2 DEF PollUnchanged, PollSkip, CooldownElapses
    <2>2. Standing'
      BY <1>1, <2>1, JobsStand
    <2> QED
      BY <1>1, <2>1, <2>2, KeptNat DEF Kept, Pending
  <1>3. ASSUME NEW n \in Nodes, Crash(n)
        PROVE  FALSE
    BY <1>1, <1>3 DEF Crash, Spend, TypeOK, BudgetKinds, Undamaged, Sound
  <1>4. ASSUME NEW j \in jobs, Sending(j)
        PROVE  Standing' /\ Kept' >= Kept
    BY <1>1, <1>4, SendingKeeps, KeptNat
  <1>5. ASSUME NEW h \in handlers,
               Reply(h) \/ Reject(h) \/ Break(h) \/ Silence(h) \/ HandlerWriteFails(h)
        PROVE  Standing' /\ Kept' >= Kept
    BY <1>5, HandlingKeeps
  <1> QED
    BY <1>2, <1>3, <1>4, <1>5 DEF Unrecorded

LEMMA DropNext ==
    Inv /\ Inv' /\ NetInv /\ DeliveryInv /\ DeliveryInv' /\ Counters /\ DropInv /\ [HNext]_hvars
        => DropInv'
  <1> SUFFICES ASSUME Inv, Inv', NetInv, DeliveryInv, DeliveryInv', Counters, DropInv,
                      [HNext]_hvars, PeersShareKey, Undamaged', AllFit'
               PROVE  Standing' /\ sends' <= stores' + Kept'
    BY DEF DropInv, PeersShareKey
  <1>1. /\ TypeOK /\ TypeOK' /\ FiniteTasks /\ FiniteTasks' /\ Distinct
        /\ spent["net"] \in Nat /\ spent["crash"] \in Nat /\ spent["send"] \in Nat
        /\ spent'["net"] \in Nat
    BY DEF Inv, TypeOK, BudgetKinds, DeliveryInv
  <1>2. Undamaged /\ AllFit
    <2>1. \A b \in BudgetKinds : spent[b] \in Nat /\ spent[b] <= spent'[b]
      BY <1>1, SpentStays
    <2>2. Undamaged
      BY <1>1, <2>1, DaemonAssumption DEF Undamaged, BudgetKinds
    <2>3. AllFit
      BY SeenStays DEF NetInv, AllFit
    <2> QED
      BY <2>2, <2>3
  <1>3. Sound /\ sends <= stores + Kept /\ Standing
    BY <1>1, <1>2 DEF Sound, DropInv
  <1>4. ASSUME UNCHANGED <<up, jobs, handlers, sends, stores>>, spent'["net"] = spent["net"]
        PROVE  Standing' /\ sends' <= stores' + Kept'
    <2>1. Standing'
      BY <1>3, <1>4, JobsStand
    <2> QED
      BY <1>3, <1>4, <2>1 DEF Kept, Pending
  <1>5. ASSUME NEW n \in Nodes, HPollRead(n) \/ HPollBroadcast(n) \/ HStart(n)
        PROVE  Standing' /\ sends' <= stores' + Kept'
    <2>1. CASE HPollRead(n)
      BY <1>4, <2>1 DEF HPollRead, PollRead
    <2>2. CASE HPollBroadcast(n)
      <3>1. Standing' /\ Kept' >= Kept + Cardinality(Peers[n])
        BY <1>1, <1>3, <2>2, BroadcastKeeps DEF HPollBroadcast
      <3>2. sends' = sends + Cardinality(Peers[n]) /\ stores' = stores
        BY <2>2 DEF HPollBroadcast
      <3>3. Cardinality(Peers[n]) \in Nat
        BY DaemonAssumption, FS_CardinalityType
      <3> QED
        BY <1>1, <1>3, <3>1, <3>2, <3>3, KeptNat, KeptNatNext DEF Counters
    <2>3. CASE HStart(n)
      BY <1>3, <2>3 DEF HStart, Start, Standing
    <2> QED
      BY <1>5, <2>1, <2>2, <2>3
  <1>6. ASSUME NEW h \in handlers, HHandlerStore(h)
        PROVE  Standing' /\ sends' <= stores' + Kept'
    <2>1. Standing' /\ Kept' = Kept - 1
      BY <1>3, <1>6, StoreKeeps DEF HHandlerStore
    <2>2. stores' = stores + 1 /\ sends' = sends
      BY <1>6 DEF HHandlerStore
    <2> QED
      BY <1>1, <1>3, <2>1, <2>2, KeptNat DEF Counters
  <1>7. ASSUME NEW h \in handlers, HHandlerWrite(h)
        PROVE  Standing' /\ sends' <= stores' + Kept'
    <2>1. Standing' /\ Kept' >= Kept
      BY <1>1, <1>3, <1>7, HandlingKeeps DEF HHandlerWrite
    <2> QED
      BY <1>1, <1>3, <1>7, <2>1, NothingLost DEF HHandlerWrite
  <1>8. ASSUME NEW n, NEW c, HCopy(n, c)
        PROVE  Standing' /\ sends' <= stores' + Kept'
    BY <1>1, <1>4, <1>8 DEF HCopy, Copy, Spend, TypeOK, BudgetKinds
  <1>9. ASSUME NEW p, NEW k, NEW c, HCliSend(p, c, k)
        PROVE  FALSE
    BY <1>1, <1>2, <1>9 DEF HCliSend, CliSend, Spend, TypeOK, BudgetKinds, Undamaged
  <1>10. CASE Unrecorded /\ UNCHANGED history
    <2>1. Standing' /\ Kept' >= Kept
      BY <1>1, <1>3, <1>10, UnrecordedKeeps
    <2>2. UNCHANGED <<sends, stores>>
      BY <1>10 DEF history
    <2> QED
      BY <1>1, <1>3, <2>1, <2>2, NothingLost
  <1>11. CASE UNCHANGED hvars
    BY <1>4, <1>11 DEF hvars, vars, history
  <1> QED
    BY <1>5, <1>6, <1>7, <1>8, <1>9, <1>10, <1>11 DEF HNext

LEMMA DropInit == HInit => DropInv
  <1> SUFFICES ASSUME HInit
               PROVE  DropInv
    OBVIOUS
  <1>1. /\ jobs = {} /\ handlers = {} /\ sends = 0 /\ stores = 0
        /\ up = [n \in Nodes |-> TRUE]
    BY DEF HInit, Init
  <1>2. FiniteTasks
    BY <1>1, FS_EmptySet DEF FiniteTasks
  <1>3. Kept \in Nat
    BY <1>2, KeptNat
  <1> QED
    BY <1>1, <1>3 DEF DropInv, Standing

\* NOTHING IS DROPPED, for every network of one key, number of retries and
\* interleaving: as long as no more connections are lost with an error than there are
\* retries and none is lost silently, no process stops, and no host has had a content
\* too long for a message, each sender task of broadcast_content is still trying, or
\* its content is stored or about to be.
THEOREM RetriesMaskFaults == HSpec => []NothingDropped
  <1>1. HTypeOK => TypeOK /\ Counters
    BY DEF HTypeOK, TypeOK, BudgetKinds, Counters
  <1>2. Counters /\ DeliveryInv /\ DropInv => NothingDropped
    BY KeptNat DEF DeliveryInv, DropInv, NothingDropped, Kept, Counters
  <1>3. Inv => TypeOK
    BY DEF Inv
  <1> QED
    BY <1>1, <1>2, <1>3, HistoryTypes, InvAlways, NetInvInit, NetInvNext,
       DeliveryInit, DeliveryNext, DropInit, DropNext, PTL DEF HSpec

-----------------------------------------------------------------------------
(* A task only advances.                                                   *)

OnlyAdvance == \A i \in jobs, j \in jobs' : Same(i, j) /\ i # j => Advances(i, j)

LEMMA FewerAdvance ==
    ASSUME JobsDistinct, jobs' \subseteq jobs
    PROVE  OnlyAdvance
  BY DEF JobsDistinct, OnlyAdvance

LEMMA FailedAdvance ==
    ASSUME TypeOK, JobsDistinct, NEW J \in SUBSET jobs, jobs' = Failed(J)
    PROVE  OnlyAdvance
  <1> SUFFICES ASSUME NEW i \in jobs, NEW j \in jobs', Same(i, j), i # j
               PROVE  Advances(i, j)
    BY DEF OnlyAdvance
  <1>1. PICK x \in J : j = Again(x)
    <2>1. j \notin jobs
      BY DEF JobsDistinct
    <2> QED
      BY <2>1, FailedIs DEF TypeOK
  <1>2. x \in Job
    BY DEF TypeOK
  <1>3. /\ Same(j, x) /\ j.at = "connect" /\ j.attempt = x.attempt + 1
        /\ x.attempt \in Nat /\ MaxRetries \in Nat
    BY <1>1, <1>2, AgainIs, DaemonAssumption
  <1>4. x = i
    BY <1>3 DEF JobsDistinct, Same
  <1>5. j.content = i.content /\ j.key = i.key
    BY <1>1, <1>2, <1>4 DEF Again, Job
  <1>6. ToGo(j) < ToGo(i)
    BY <1>3, <1>4 DEF ToGo
  <1> QED
    BY <1>5, <1>6 DEF Advances

LEMMA AcceptAdvance ==
    ASSUME TypeOK, JobsDistinct, NEW x \in jobs, Accept(x)
    PROVE  OnlyAdvance
  <1> SUFFICES ASSUME NEW i \in jobs, NEW j \in jobs', Same(i, j), i # j
               PROVE  Advances(i, j)
    BY DEF OnlyAdvance
  <1>1. j = [x EXCEPT !.at = "ack"] /\ x.at = "connect"
    BY DEF Accept, JobsDistinct
  <1>2. x \in Job
    BY DEF TypeOK
  <1>3. /\ Same(j, x) /\ j.at = "ack" /\ j.attempt = x.attempt
        /\ j.content = x.content /\ j.key = x.key
        /\ x.attempt \in Nat /\ MaxRetries \in Nat
    BY <1>1, <1>2, DaemonAssumption DEF Job, Same
  <1>4. x = i
    BY <1>3 DEF JobsDistinct, Same
  <1>5. ToGo(j) < ToGo(i)
    BY <1>1, <1>3, <1>4 DEF ToGo
  <1> QED
    BY <1>3, <1>4, <1>5 DEF Advances

\* New tasks do not take the place of one that is there.
LEMMA StartAdvance ==
    ASSUME JobsDistinct, NEW p, NEW s, IsFree(s, p), NEW N,
           \A j \in N : j.from = p /\ j.slot = s, jobs' = jobs \cup N
    PROVE  OnlyAdvance
  BY DEF JobsDistinct, OnlyAdvance, IsFree, Same

LEMMA HNextAdvance ==
    ASSUME TypeOK, Distinct, [HNext]_hvars
    PROVE  OnlyAdvance
  <1>1. JobsDistinct
    BY DEF Distinct
  <1>2. ASSUME NEW n \in Nodes, HPollRead(n) \/ HPollBroadcast(n) \/ HStart(n)
        PROVE  OnlyAdvance
    <2>1. CASE HPollRead(n) \/ HStart(n)
      BY <1>1, <2>1, FewerAdvance DEF HPollRead, PollRead, HStart, Start
    <2>2. CASE HPollBroadcast(n)
      <3>1. PICK s \in Slots : IsFree(s, n) /\ jobs' = jobs \cup NewJobs(n, s, polled[n])
        BY <2>2 DEF HPollBroadcast, PollBroadcast
      <3>2. \A j \in NewJobs(n, s, polled[n]) : j.from = n /\ j.slot = s
        BY DEF NewJobs
      <3> QED
        BY <1>1, <3>1, <3>2, StartAdvance
    <2> QED
      BY <1>2, <2>1, <2>2
  <1>3. ASSUME NEW h \in handlers, HHandlerStore(h) \/ HHandlerWrite(h)
        PROVE  OnlyAdvance
    BY <1>1, <1>3, FewerAdvance DEF HHandlerStore, HandlerStore, HHandlerWrite, HandlerWrite
  <1>4. ASSUME NEW n, NEW c, HCopy(n, c)
        PROVE  OnlyAdvance
    BY <1>1, <1>4, FewerAdvance DEF HCopy, Copy
  <1>5. ASSUME NEW p, NEW k, NEW c, HCliSend(p, c, k)
        PROVE  OnlyAdvance
    <2>1. PICK s \in Slots :
            /\ IsFree(s, Cli)
            /\ jobs' = jobs \cup {[from |-> Cli, to |-> p, slot |-> s, attempt |-> MaxRetries,
                                   content |-> c, key |-> k, at |-> "connect"]}
      BY <1>5 DEF HCliSend, CliSend
    <2> DEFINE N == {[from |-> Cli, to |-> p, slot |-> s, attempt |-> MaxRetries,
                      content |-> c, key |-> k, at |-> "connect"]}
    <2>2. \A j \in N : j.from = Cli /\ j.slot = s
      OBVIOUS
    <2>3. jobs' = jobs \cup N
      BY <2>1
    <2> HIDE DEF N
    <2> QED
      BY <1>1, <2>1, <2>2, <2>3, StartAdvance
  <1>6. CASE Unrecorded
    <2>1. ASSUME NEW n \in Nodes,
                 PollUnchanged(n) \/ PollSkip(n) \/ CooldownElapses(n) \/ Crash(n)
          PROVE  OnlyAdvance
      BY <1>1, <2>1, FewerAdvance DEF PollUnchanged, PollSkip, CooldownElapses, Crash
    <2>2. ASSUME NEW j \in jobs, Sending(j)
          PROVE  OnlyAdvance
      <3>1. CASE Accept(j)
        BY <1>1, <3>1, AcceptAdvance
      <3>2. CASE Refused(j) \/ Unreachable(j) \/ PeerGone(j)
        BY <1>1, <3>2, FailedAdvance DEF Refused, Unreachable, PeerGone
      <3> QED
        BY <2>2, <3>1, <3>2 DEF Sending
    <2>3. ASSUME NEW h \in handlers,
                 Reply(h) \/ Reject(h) \/ Break(h) \/ Silence(h) \/ HandlerWriteFails(h)
          PROVE  OnlyAdvance
      <3>1. Awaiting(h) \in SUBSET jobs
        BY DEF Awaiting
      <3>2. CASE Reject(h) \/ Break(h)
        BY <1>1, <3>1, <3>2, FailedAdvance DEF Reject, Break
      <3>3. CASE Reply(h) \/ Silence(h) \/ HandlerWriteFails(h)
        BY <1>1, <3>3, FewerAdvance DEF Reply, Silence, HandlerWriteFails
      <3> QED
        BY <2>3, <3>2, <3>3
    <2> QED
      BY <1>6, <2>1, <2>2, <2>3 DEF Unrecorded
  <1>7. CASE UNCHANGED hvars
    BY <1>1, <1>7, FewerAdvance DEF hvars, vars
  <1> QED
    BY <1>2, <1>3, <1>4, <1>5, <1>6, <1>7 DEF HNext

\* ATTEMPTS ONLY ADVANCE, whatever the number of retries and the faults: each step
\* of a sender task of broadcast_content leaves it fewer steps to go, with the same
\* content and key.  ToGo is at most 2 * max_retries + 1, so a task has no more steps.
THEOREM TasksAdvance == HSpec => AttemptsOnlyAdvance
  <1>1. HTypeOK => TypeOK /\ Counters
    BY DEF HTypeOK, TypeOK, BudgetKinds, Counters
  <1>2. TypeOK /\ DeliveryInv /\ [HNext]_hvars => OnlyAdvance
    BY HNextAdvance DEF DeliveryInv
  <1>3. OnlyAdvance <=> \A i \in jobs, j \in jobs' : Same(i, j) /\ i # j => Advances(i, j)
    BY DEF OnlyAdvance
  <1> QED
    BY <1>1, <1>2, <1>3, HistoryTypes, DeliveryInit, DeliveryNext, PTL
    DEF HSpec, AttemptsOnlyAdvance
=============================================================================
