--------------------------- MODULE LimitedProofs ---------------------------
(***************************************************************************)
(* Safety of the concurrency limit, for any finite set of callers and any  *)
(* number of permits: the permits add up and no wakeup is lost.            *)
(***************************************************************************)
EXTENDS Limited, FiniteSetTheorems, TLAPS

(***************************************************************************)
(* The inductive invariant.  TypeOK is not inductive alone: that a release *)
(* leaves at most Limit permits follows from PermitsConserved, because the *)
(* releasing task is one of the running ones.                              *)
(***************************************************************************)
IInv == TypeOK /\ PermitsConserved /\ NoLostWakeup

-----------------------------------------------------------------------------

\* The running tasks are a finite set, whose size is a natural number.
LEMMA RunningFinite ==
    IsFiniteSet(Running) /\ Cardinality(Running) \in Nat
  <1>1. Running \subseteq Tasks
    BY DEF Running
  <1>2. IsFiniteSet(Running)
    BY <1>1, LimitedAssumption, FS_Subset
  <1> QED
    BY <1>2, FS_CardinalityType

\* Initially all permits are free, nobody runs and nobody sleeps.
LEMMA InitIInv == Init => IInv
  <1> SUFFICES ASSUME Init PROVE IInv
    OBVIOUS
  <1>1. TypeOK /\ NoLostWakeup
    BY LimitedAssumption DEF Init, TypeOK, NoLostWakeup, Asleep
  <1>2. Running = {}
    BY DEF Init, Running
  <1>3. Cardinality(Running) = 0
    BY <1>2, FS_EmptySet
  <1> QED
    BY <1>1, <1>3, LimitedAssumption DEF Init, IInv, PermitsConserved

\* A permit taken is one task more that runs, a permit returned one less.
LEMMA PermitStep ==
    IInv /\ [Next]_vars => TypeOK' /\ PermitsConserved'
  <1> SUFFICES ASSUME IInv, [Next]_vars
               PROVE  TypeOK' /\ PermitsConserved'
    OBVIOUS
  <1> USE LimitedAssumption, RunningFinite
          DEF IInv, TypeOK, PermitsConserved
  <1> DEFINE Q == TypeOK' /\ PermitsConserved'
  <1>1. ASSUME available' = available,
               wakers' \subseteq Tasks,
               scheduled' \subseteq Tasks,
               towake' \in [Tasks -> SUBSET Tasks],
               pc' \in [Tasks -> {"idle", "entered", "pending", "running", "waking"}],
               \A u \in Tasks : pc'[u] = "running" <=> pc[u] = "running"
        PROVE  Q
    <2>1. Running' = Running
      BY <1>1 DEF Running
    <2> QED
      BY <1>1, <2>1
  <1>2. CASE UNCHANGED vars
    BY <1>1, <1>2 DEF vars
  <1>3. ASSUME NEW t \in Tasks, Call(t) PROVE Q
    BY <1>1, <1>3 DEF Call
  <1>4. ASSUME NEW t \in Tasks, Poll(t) PROVE Q
    <2>1. CASE TryAcquire(t)
      <3>1. Running' = Running \cup {t} /\ t \notin Running
        BY <1>4, <2>1 DEF Poll, TryAcquire, Running
      <3>2. Cardinality(Running') = Cardinality(Running) + 1
        BY <3>1, FS_AddElement
      <3> QED
        BY <1>4, <2>1, <3>2 DEF Poll, TryAcquire
    <2>2. CASE RegisterWaker(t)
      BY <1>1, <1>4, <2>2 DEF Poll, RegisterWaker
    <2> QED
      BY <1>4, <2>1, <2>2 DEF Poll
  <1>5. ASSUME NEW t \in Tasks, Cancel(t) PROVE Q
    BY <1>1, <1>5 DEF Cancel
  <1>6. ASSUME NEW t \in Tasks, Release(t) PROVE Q
    <2>1. Running' = Running \ {t} /\ t \in Running
      BY <1>6 DEF Release, Running
    <2>2. Cardinality(Running') = Cardinality(Running) - 1
      BY <2>1, FS_RemoveElement
    <2>3. Cardinality(Running') \in Nat
      BY <2>1, FS_Subset, FS_CardinalityType
    <2> QED
      BY <1>6, <2>2, <2>3 DEF Release
  <1>7. ASSUME NEW t \in Tasks, WakeOne(t) PROVE Q
    BY <1>1, <1>7 DEF WakeOne
  <1>8. ASSUME NEW t \in Tasks, WakersDone(t) PROVE Q
    BY <1>1, <1>8 DEF WakersDone
  <1> QED
    BY <1>2, <1>3, <1>4, <1>5, <1>6, <1>7, <1>8 DEF Next, Step

\* A sleeping task stays queued, or the drop that took its waker has it.
LEMMA WakeupStep == IInv /\ [Next]_vars => NoLostWakeup'
  <1> SUFFICES ASSUME IInv, [Next]_vars, NEW s \in Tasks, Asleep(s)'
               PROVE  \/ available' = 0 /\ s \in wakers'
                      \/ \E u \in Tasks : pc'[u] = "waking" /\ s \in towake'[u]
    BY DEF NoLostWakeup
  <1> DEFINE Q == \/ available' = 0 /\ s \in wakers'
                  \/ \E u \in Tasks : pc'[u] = "waking" /\ s \in towake'[u]
  <1> USE LimitedAssumption DEF IInv, TypeOK, NoLostWakeup, Asleep
  <1>1. CASE UNCHANGED vars
    BY <1>1 DEF vars
  <1>2. ASSUME NEW t \in Tasks, Call(t) PROVE Q
    BY <1>2 DEF Call
  <1>3. ASSUME NEW t \in Tasks, Poll(t) PROVE Q
    BY <1>3 DEF Poll, TryAcquire, RegisterWaker
  <1>4. ASSUME NEW t \in Tasks, Cancel(t) PROVE Q
    BY <1>4 DEF Cancel
  <1>5. ASSUME NEW t \in Tasks, Release(t) PROVE Q
    <2>1. s # t /\ Asleep(s)
      BY <1>5 DEF Release
    <2>2. CASE s \in wakers
      BY <1>5, <2>2 DEF Release
    <2>3. CASE \E u \in Tasks : pc[u] = "waking" /\ s \in towake[u]
      BY <1>5, <2>3 DEF Release
    <2> QED
      BY <2>1, <2>2, <2>3
  <1>6. ASSUME NEW t \in Tasks, WakeOne(t) PROVE Q
    BY <1>6 DEF WakeOne
  <1>7. ASSUME NEW t \in Tasks, WakersDone(t) PROVE Q
    BY <1>7 DEF WakersDone
  <1> QED
    BY <1>1, <1>2, <1>3, <1>4, <1>5, <1>6, <1>7 DEF Next, Step

-----------------------------------------------------------------------------

\* IInv is an invariant of the semaphore.
THEOREM IInvAlways == Spec => []IInv
  <1>1. IInv /\ [Next]_vars => IInv'
    BY PermitStep, WakeupStep DEF IInv
  <1> QED
    BY InitIInv, <1>1, PTL DEF Spec

\* Type correctness: in particular there are never more than Limit permits.
THEOREM TypeCorrect == Spec => []TypeOK
  <1>1. IInv => TypeOK
    BY DEF IInv
  <1> QED
    BY IInvAlways, <1>1, PTL

\* No permit of a LimitedTier is lost or forged, so at most Limit operations
\* run in the inner tier.
THEOREM LimitIsKept == Spec => []PermitsConserved
  <1>1. IInv => PermitsConserved
    BY DEF IInv
  <1> QED
    BY IInvAlways, <1>1, PTL

\* A waiter of a LimitedTier sleeps only while no permit is free or its
\* wakeup is under way.
THEOREM WakeupsNeverLost == Spec => []NoLostWakeup
  <1>1. IInv => NoLostWakeup
    BY DEF IInv
  <1> QED
    BY IInvAlways, <1>1, PTL
=============================================================================
