------------------------- MODULE SingleFlightProofs -------------------------
(***************************************************************************)
(* Safety of the single-flight gates, for any sets of tasks and keys and   *)
(* any supply of gates: one holder per key, no detached gate, no lost      *)
(* wakeup.                                                                 *)
(***************************************************************************)
EXTENDS SingleFlight, TLAPS

\* A gate serves one key.
MapInjective ==
    \A k, l \in Keys : map[k] = map[l] /\ map[k] # NoGate => k = l

\* A holder's gate is locked, and no two holders share one.
HolderLocks ==
    /\ \A t \in Tasks : pc[t] = "holding" => gate[t] \in held
    /\ \A t, u \in Tasks :
          pc[t] = "holding" /\ pc[u] = "holding" /\ gate[t] = gate[u] => t = u

(***************************************************************************)
(* The inductive invariant.  MutualExclusion alone is not inductive: two   *)
(* tasks hold the same key through two gates unless both gates are the one *)
(* in the map (NoDetachedGate), which a cleanup preserves because an       *)
(* active task's gate is counted, and a new entry because the gates in the *)
(* map and in the tasks are all different from the one it allocates.       *)
(***************************************************************************)
IInv ==
    /\ TypeOK
    /\ MapInjective
    /\ NoDetachedGate
    /\ HolderLocks
    /\ HeldByHolder
    /\ NoLostWakeup

-----------------------------------------------------------------------------

\* The initial states, in which every task is idle and the map is empty.
LEMMA InitIInv == Init => IInv
  BY GatesAssumption
  DEF Init, IInv, TypeOK, States, MapInjective, NoDetachedGate,
      Active, HolderLocks, HeldByHolder, NoLostWakeup, Asleep

\* Every step keeps the variables in their types; a task that has a gate to
\* lock or release has a real one.
LEMMA TypeStep ==
    TypeOK /\ [Next]_vars => TypeOK'
  <1> SUFFICES ASSUME TypeOK, [Next]_vars
               PROVE  TypeOK'
    OBVIOUS
  <1> USE GatesAssumption DEF TypeOK, States
  <1>1. CASE UNCHANGED vars
    BY <1>1 DEF vars
  <1>2. ASSUME NEW t \in Tasks, Enter(t) PROVE TypeOK'
    BY <1>2 DEF Enter, EntryOrDefault
  <1>3. ASSUME NEW t \in Tasks, Poll(t) PROVE TypeOK'
    <2>1. gate[t] \in Gates
      BY <1>3 DEF Poll
    <2>2. CASE TryAcquire(t)
      BY <1>3, <2>1, <2>2 DEF Poll, TryAcquire
    <2>3. CASE RegisterWaker(t)
      BY <1>3, <2>1, <2>3 DEF Poll, RegisterWaker
    <2> QED
      BY <1>3, <2>2, <2>3 DEF Poll
  <1>4. ASSUME NEW t \in Tasks, Cancel(t) PROVE TypeOK'
    BY <1>4 DEF Cancel
  <1>5. ASSUME NEW t \in Tasks, Release(t) PROVE TypeOK'
    <2>1. gate[t] \in Gates /\ wakers[gate[t]] \in SUBSET Tasks
      BY <1>5 DEF Release
    <2> QED
      BY <1>5, <2>1 DEF Release
  <1>6. ASSUME NEW t \in Tasks, WakeOne(t) PROVE TypeOK'
    BY <1>6 DEF WakeOne
  <1>7. ASSUME NEW t \in Tasks, WakersDone(t) PROVE TypeOK'
    BY <1>7 DEF WakersDone
  <1>8. ASSUME NEW t \in Tasks, Cleanup(t) PROVE TypeOK'
    BY <1>8 DEF Cleanup
  <1>9. ASSUME NEW t \in Tasks, DropArc(t) PROVE TypeOK'
    BY <1>9 DEF DropArc
  <1> QED
    BY <1>1, <1>2, <1>3, <1>4, <1>5, <1>6, <1>7, <1>8, <1>9 DEF Next, Step

\* The gate of an active task stays the one in the map.  Enter adds a gate
\* nobody refers to; a cleanup removes one only its own task refers to.
LEMMA MapStep ==
    IInv /\ [Next]_vars => MapInjective' /\ NoDetachedGate'
  <1> SUFFICES ASSUME IInv, [Next]_vars
               PROVE  MapInjective' /\ NoDetachedGate'
    OBVIOUS
  <1> USE GatesAssumption
          DEF IInv, TypeOK, States, MapInjective, NoDetachedGate, Active
  <1>1. CASE UNCHANGED vars
    BY <1>1 DEF vars
  <1>2. ASSUME NEW t \in Tasks, Enter(t) PROVE MapInjective' /\ NoDetachedGate'
    <2>1. PICK k \in Keys, g \in Gates :
             /\ EntryOrDefault(k, g)
             /\ key' = [key EXCEPT ![t] = k]
             /\ gate' = [gate EXCEPT ![t] = g]
      BY <1>2 DEF Enter
    <2>2. CASE map[k] # NoGate
      BY <1>2, <2>1, <2>2 DEF Enter, EntryOrDefault
    <2>3. CASE map[k] = NoGate
      BY <1>2, <2>1, <2>3 DEF Enter, EntryOrDefault, Unreferenced
    <2> QED
      BY <2>2, <2>3
  <1>3. ASSUME NEW t \in Tasks, Poll(t) PROVE MapInjective' /\ NoDetachedGate'
    BY <1>3 DEF Poll, TryAcquire, RegisterWaker
  <1>4. ASSUME NEW t \in Tasks, Cancel(t) PROVE MapInjective' /\ NoDetachedGate'
    BY <1>4 DEF Cancel
  <1>5. ASSUME NEW t \in Tasks, Release(t) PROVE MapInjective' /\ NoDetachedGate'
    BY <1>5 DEF Release
  <1>6. ASSUME NEW t \in Tasks, WakeOne(t) PROVE MapInjective' /\ NoDetachedGate'
    BY <1>6 DEF WakeOne
  <1>7. ASSUME NEW t \in Tasks, WakersDone(t) PROVE MapInjective' /\ NoDetachedGate'
    BY <1>7 DEF WakersDone
  <1>8. ASSUME NEW t \in Tasks, Cleanup(t) PROVE MapInjective' /\ NoDetachedGate'
    <2>1. CASE OnlyMapAndGuard(t)
      <3>1. map' = [map EXCEPT ![key[t]] = NoGate]
        BY <1>8, <2>1 DEF Cleanup
      <3>2. \A u \in Tasks : u # t /\ Active(u) => key[u] # key[t]
        BY <2>1 DEF OnlyMapAndGuard
      <3> QED
        BY <1>8, <3>1, <3>2 DEF Cleanup
    <2>2. CASE ~OnlyMapAndGuard(t)
      BY <1>8, <2>2 DEF Cleanup
    <2> QED
      BY <2>1, <2>2
  <1>9. ASSUME NEW t \in Tasks, DropArc(t) PROVE MapInjective' /\ NoDetachedGate'
    BY <1>9 DEF DropArc
  <1> QED
    BY <1>1, <1>2, <1>3, <1>4, <1>5, <1>6, <1>7, <1>8, <1>9 DEF Next, Step

\* A gate is locked while and only while one task holds it.
LEMMA HolderStep ==
    IInv /\ [Next]_vars => HolderLocks' /\ HeldByHolder'
  <1> SUFFICES ASSUME IInv, [Next]_vars
               PROVE  HolderLocks' /\ HeldByHolder'
    OBVIOUS
  <1> USE GatesAssumption
          DEF IInv, TypeOK, States, HolderLocks, HeldByHolder
  <1>1. CASE UNCHANGED vars
    BY <1>1 DEF vars
  <1>2. ASSUME NEW t \in Tasks, Enter(t) PROVE HolderLocks' /\ HeldByHolder'
    <2>1. PICK k \in Keys, g \in Gates :
             /\ EntryOrDefault(k, g)
             /\ gate' = [gate EXCEPT ![t] = g]
      BY <1>2 DEF Enter
    <2>2. held' \subseteq held /\ \A u \in Tasks : gate[u] \in held => gate[u] \in held'
      BY <2>1 DEF EntryOrDefault, Unreferenced
    <2> QED
      BY <1>2, <2>1, <2>2 DEF Enter
  <1>3. ASSUME NEW t \in Tasks, Poll(t) PROVE HolderLocks' /\ HeldByHolder'
    <2>1. CASE TryAcquire(t)
      BY <1>3, <2>1 DEF Poll, TryAcquire
    <2>2. CASE RegisterWaker(t)
      BY <1>3, <2>2 DEF Poll, RegisterWaker
    <2> QED
      BY <1>3, <2>1, <2>2 DEF Poll
  <1>4. ASSUME NEW t \in Tasks, Cancel(t) PROVE HolderLocks' /\ HeldByHolder'
    BY <1>4 DEF Cancel
  <1>5. ASSUME NEW t \in Tasks, Release(t) PROVE HolderLocks' /\ HeldByHolder'
    BY <1>5 DEF Release
  <1>6. ASSUME NEW t \in Tasks, WakeOne(t) PROVE HolderLocks' /\ HeldByHolder'
    BY <1>6 DEF WakeOne
  <1>7. ASSUME NEW t \in Tasks, WakersDone(t) PROVE HolderLocks' /\ HeldByHolder'
    BY <1>7 DEF WakersDone
  <1>8. ASSUME NEW t \in Tasks, Cleanup(t) PROVE HolderLocks' /\ HeldByHolder'
    BY <1>8 DEF Cleanup
  <1>9. ASSUME NEW t \in Tasks, DropArc(t) PROVE HolderLocks' /\ HeldByHolder'
    BY <1>9 DEF DropArc
  <1> QED
    BY <1>1, <1>2, <1>3, <1>4, <1>5, <1>6, <1>7, <1>8, <1>9 DEF Next, Step

\* A sleeping task stays registered, or the guard that took its waker has it.
LEMMA WakeupStep == IInv /\ [Next]_vars => NoLostWakeup'
  <1> SUFFICES ASSUME IInv, [Next]_vars, NEW s \in Tasks, Asleep(s)'
               PROVE  \/ gate'[s] \in held' /\ s \in wakers'[gate'[s]]
                      \/ \E u \in Tasks : pc'[u] = "waking" /\ s \in towake'[u]
    BY DEF NoLostWakeup
  <1> DEFINE Q == \/ gate'[s] \in held' /\ s \in wakers'[gate'[s]]
                  \/ \E u \in Tasks : pc'[u] = "waking" /\ s \in towake'[u]
  <1> USE GatesAssumption
          DEF IInv, TypeOK, States, NoLostWakeup, Asleep
  <1>1. CASE UNCHANGED vars
    BY <1>1 DEF vars
  <1>2. ASSUME NEW t \in Tasks, Enter(t) PROVE Q
    <2>1. PICK k \in Keys, g \in Gates :
             /\ EntryOrDefault(k, g)
             /\ gate' = [gate EXCEPT ![t] = g]
      BY <1>2 DEF Enter
    <2>2. s # t /\ Asleep(s) /\ gate'[s] = gate[s] /\ gate[s] \in Gates
      BY <1>2, <2>1 DEF Enter
    <2>3. gate[s] \in held => gate[s] \in held' /\ wakers'[gate[s]] = wakers[gate[s]]
      BY <2>1, <2>2 DEF EntryOrDefault, Unreferenced
    <2> QED
      BY <1>2, <2>2, <2>3 DEF Enter
  <1>3. ASSUME NEW t \in Tasks, Poll(t) PROVE Q
    <2>1. gate[t] \in Gates
      BY <1>3 DEF Poll
    <2>2. CASE TryAcquire(t)
      BY <1>3, <2>1, <2>2 DEF Poll, TryAcquire
    <2>3. CASE RegisterWaker(t)
      BY <1>3, <2>1, <2>3 DEF Poll, RegisterWaker
    <2> QED
      BY <1>3, <2>2, <2>3 DEF Poll
  <1>4. ASSUME NEW t \in Tasks, Cancel(t) PROVE Q
    BY <1>4 DEF Cancel
  <1>5. ASSUME NEW t \in Tasks, Release(t) PROVE Q
    <2>1. s # t /\ Asleep(s) /\ gate'[s] = gate[s] /\ gate[s] \in Gates
      BY <1>5 DEF Release
    <2>2. CASE gate[s] = gate[t] /\ s \in wakers[gate[s]]
      BY <1>5, <2>1, <2>2 DEF Release
    <2>3. CASE gate[s] # gate[t] /\ gate[s] \in held /\ s \in wakers[gate[s]]
      BY <1>5, <2>1, <2>3 DEF Release
    <2>4. CASE \E u \in Tasks : pc[u] = "waking" /\ s \in towake[u]
      BY <1>5, <2>1, <2>4 DEF Release
    <2> QED
      BY <2>1, <2>2, <2>3, <2>4
  <1>6. ASSUME NEW t \in Tasks, WakeOne(t) PROVE Q
    BY <1>6 DEF WakeOne
  <1>7. ASSUME NEW t \in Tasks, WakersDone(t) PROVE Q
    BY <1>7 DEF WakersDone
  <1>8. ASSUME NEW t \in Tasks, Cleanup(t) PROVE Q
    BY <1>8 DEF Cleanup
  <1>9. ASSUME NEW t \in Tasks, DropArc(t) PROVE Q
    BY <1>9 DEF DropArc
  <1> QED
    BY <1>1, <1>2, <1>3, <1>4, <1>5, <1>6, <1>7, <1>8, <1>9 DEF Next, Step

-----------------------------------------------------------------------------

\* IInv is an invariant: it holds at first and every step preserves it.
THEOREM IInvAlways == Spec => []IInv
  <1>1. IInv /\ [Next]_vars => IInv'
    BY TypeStep, MapStep, HolderStep, WakeupStep DEF IInv
  <1> QED
    BY InitIInv, <1>1, PTL DEF Spec

\* Type correctness of the gates.
THEOREM TypeCorrect == Spec => []TypeOK
  <1>1. IInv => TypeOK
    BY DEF IInv
  <1> QED
    BY IInvAlways, <1>1, PTL

\* acquire admits one holder per key at a time: two holders of a key both use
\* the gate in the map, and a gate has one holder.
THEOREM OneHolderPerKey == Spec => []MutualExclusion
  <1>1. IInv => MutualExclusion
    BY DEF IInv, NoDetachedGate, Active, HolderLocks, MutualExclusion
  <1> QED
    BY IInvAlways, <1>1, PTL

\* The cleanup in the guard's drop never detaches a gate in use.
THEOREM GatesStayAttached == Spec => []NoDetachedGate
  <1>1. IInv => NoDetachedGate
    BY DEF IInv
  <1> QED
    BY IInvAlways, <1>1, PTL

\* A task that sleeps in acquire is registered with a held gate or is about
\* to be woken.
THEOREM WakeupsNeverLost == Spec => []NoLostWakeup
  <1>1. IInv => NoLostWakeup
    BY DEF IInv
  <1> QED
    BY IInvAlways, <1>1, PTL

\* A held gate has a holder that will release it.
THEOREM NoOrphanedLock == Spec => []HeldByHolder
  <1>1. IInv => HeldByHolder
    BY DEF IInv
  <1> QED
    BY IInvAlways, <1>1, PTL

-----------------------------------------------------------------------------

\* A step in which no task begins or ceases to hold and no holder changes its
\* key is invisible to the callers.
LEMMA HoldersUnchanged ==
    ASSUME TypeOK, TypeOK',
           \A t \in Tasks : pc'[t] = "holding" <=> pc[t] = "holding",
           \A t \in Tasks : pc[t] = "holding" => key'[t] = key[t]
    PROVE  Holders' = Holders
  BY DEF Holders

\* A poll that takes a free gate is an acquire of a key nobody holds.
LEMMA PollAcquires ==
    ASSUME IInv, IInv', NEW t \in Tasks, Poll(t), TryAcquire(t)
    PROVE  Abstract!Acquire(t, key[t])
  <1>1. pc[t] # "holding" /\ pc' = [pc EXCEPT ![t] = "holding"] /\ key' = key
    BY DEF Poll, TryAcquire
  <1>2. MutualExclusion'
    BY DEF IInv, NoDetachedGate, Active, HolderLocks, MutualExclusion
  <1>3. \A u \in Tasks : pc[u] = "holding" => u # t /\ pc'[u] = "holding"
    BY <1>1 DEF IInv, TypeOK
  <1>4. pc'[t] = "holding"
    BY <1>1 DEF IInv, TypeOK
  <1>5. \A u \in Tasks : pc[u] = "holding" => key[u] # key[t]
    BY <1>1, <1>2, <1>3, <1>4 DEF MutualExclusion
  <1>6. \A h \in Holders : h[1] # t /\ h[2] # key[t]
    BY <1>3, <1>5 DEF Holders
  <1>7. \A u \in Tasks : pc'[u] = "holding" <=> u = t \/ pc[u] = "holding"
    BY <1>1 DEF IInv, TypeOK
  <1>8. Holders' = Holders \cup {<<t, key[t]>>}
    BY <1>1, <1>7 DEF Holders
  <1> QED
    BY <1>6, <1>8 DEF Abstract!Acquire

\* The drop of the guard is the release of its key.
LEMMA ReleaseReleases ==
    ASSUME IInv, NEW t \in Tasks, Release(t)
    PROVE  Abstract!Release(t)
  <1>1. pc[t] = "holding" /\ pc' = [pc EXCEPT ![t] = "waking"] /\ key' = key
    BY DEF Release
  <1>2. <<t, key[t]>> \in Holders /\ key[t] \in Keys
    BY <1>1 DEF Holders, IInv, TypeOK
  <1>3. \A u \in Tasks : pc'[u] = "holding" <=> u # t /\ pc[u] = "holding"
    BY <1>1 DEF IInv, TypeOK
  <1>4. Holders' = {h \in Holders : h[1] # t}
    BY <1>1, <1>3 DEF Holders
  <1> QED
    BY <1>2, <1>4 DEF Abstract!Release

\* The gates implement the abstract ones that the cache is built on: through
\* allocation, cancellation, wakeups and cleanup, callers see only acquires
\* of free keys and releases.
THEOREM GatesImplemented == Spec => Abstract!Spec
  <1>1. Init => Abstract!Init
    BY DEF Init, Abstract!Init, Holders
  <1>2. IInv /\ IInv' /\ [Next]_vars => [Abstract!Next]_Holders
    <2> SUFFICES ASSUME IInv, IInv', [Next]_vars
                 PROVE  [Abstract!Next]_Holders
      OBVIOUS
    <2> TypeOK /\ TypeOK'
      BY DEF IInv
    <2>1. CASE UNCHANGED vars
      BY <2>1, HoldersUnchanged DEF vars
    <2>2. ASSUME NEW t \in Tasks, Enter(t) PROVE Holders' = Holders
      BY <2>2, HoldersUnchanged DEF Enter, TypeOK
    <2>3. ASSUME NEW t \in Tasks, Poll(t) PROVE Abstract!Next \/ Holders' = Holders
      <3>1. CASE TryAcquire(t)
        <4>1. key[t] \in Keys
          BY DEF TypeOK
        <4> QED
          BY <2>3, <3>1, <4>1, PollAcquires DEF Abstract!Next
      <3>2. CASE RegisterWaker(t)
        BY <2>3, <3>2, HoldersUnchanged DEF Poll, RegisterWaker, TypeOK
      <3> QED
        BY <2>3, <3>1, <3>2 DEF Poll
    <2>4. ASSUME NEW t \in Tasks, Cancel(t) PROVE Holders' = Holders
      BY <2>4, HoldersUnchanged DEF Cancel, TypeOK
    <2>5. ASSUME NEW t \in Tasks, Release(t) PROVE Abstract!Next
      BY <2>5, ReleaseReleases DEF Abstract!Next
    <2>6. ASSUME NEW t \in Tasks, WakeOne(t) PROVE Holders' = Holders
      BY <2>6, HoldersUnchanged DEF WakeOne
    <2>7. ASSUME NEW t \in Tasks, WakersDone(t) PROVE Holders' = Holders
      BY <2>7, HoldersUnchanged DEF WakersDone, TypeOK
    <2>8. ASSUME NEW t \in Tasks, Cleanup(t) PROVE Holders' = Holders
      BY <2>8, HoldersUnchanged DEF Cleanup, TypeOK
    <2>9. ASSUME NEW t \in Tasks, DropArc(t) PROVE Holders' = Holders
      BY <2>9, HoldersUnchanged DEF DropArc, TypeOK
    <2> QED
      BY <2>1, <2>2, <2>3, <2>4, <2>5, <2>6, <2>7, <2>8, <2>9 DEF Next, Step
  <1> QED
    BY <1>1, <1>2, IInvAlways, PTL DEF Spec, Abstract!Spec
=============================================================================
