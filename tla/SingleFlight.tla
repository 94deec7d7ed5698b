---------------------------- MODULE SingleFlight ----------------------------
(***************************************************************************)
(* Per-key single-flight gates (crates/tierstore/src/single_flight.rs).    *)
(*                                                                         *)
(* A Mutex guards the map from keys to Arc<Gate>; a Mutex in each gate     *)
(* guards `held' and `wakers'.  Every critical section of the code is one  *)
(* action here, and nothing is assumed about what runs between two of      *)
(* them.  An Arc's strong count is not a variable: it is the number of     *)
(* references that the map and the tasks hold, so the cleanup test         *)
(* strong_count == 2 reads "no other task refers to the gate" (a waiting   *)
(* task owns two clones, a guard one; only the comparison with 2 counts).  *)
(*                                                                         *)
(* A task runs the life cycle                                              *)
(*   idle -> entered (-> pending) -> holding -> waking -> cleaning         *)
(*        -> dropping -> idle                                              *)
(* and may leave `pending', the one point where acquire is suspended, by   *)
(* having its future dropped (Cancel).                                     *)
(***************************************************************************)
CONSTANTS
    Tasks,      \* the callers of acquire
    Keys,       \* the keys they acquire
    Gates,      \* the Gate allocations that can be live at the same time
    NoGate      \* a map slot without an entry, a task without a gate

ASSUME GatesAssumption == NoGate \notin Gates

VARIABLES
    map,        \* SingleFlight.map: Keys -> Gates \cup {NoGate}
    held,       \* the gates whose GateState.held is true
    wakers,     \* GateState.wakers, by gate: the tasks whose wakers it stores
    pc,         \* where each task is
    key,        \* the key a task acquires or holds (meaningless when idle)
    gate,       \* the gate a task's clones refer to
    scheduled,  \* the tasks that have been woken: the executor owes them a poll
    towake      \* the wakers a dropping guard has taken and not yet woken

vars == <<map, held, wakers, pc, key, gate, scheduled, towake>>

States == {"idle", "entered", "pending", "holding", "waking", "cleaning", "dropping"}

TypeOK ==
    /\ map \in [Keys -> Gates \cup {NoGate}]
    /\ held \subseteq Gates
    /\ wakers \in [Gates -> SUBSET Tasks]
    /\ pc \in [Tasks -> States]
    /\ key \in [Tasks -> Keys]
    /\ gate \in [Tasks -> Gates \cup {NoGate}]
    /\ scheduled \subseteq Tasks
    /\ towake \in [Tasks -> SUBSET Tasks]
    /\ \A t \in Tasks : gate[t] = NoGate <=> pc[t] = "idle"

Init ==
    /\ map = [k \in Keys |-> NoGate]
    /\ held = {}
    /\ wakers = [g \in Gates |-> {}]
    /\ pc = [t \in Tasks |-> "idle"]
    /\ key \in [Tasks -> Keys]
    /\ gate = [t \in Tasks |-> NoGate]
    /\ scheduled = {}
    /\ towake = [t \in Tasks |-> {}]

-----------------------------------------------------------------------------

\* No Arc refers to g: the allocation does not exist.
Unreferenced(g) ==
    /\ \A k \in Keys : map[k] # g
    /\ \A t \in Tasks : gate[t] # g

(***************************************************************************)
(* acquire, first half: under the map lock, entry(key).or_default() clones *)
(* the key's gate or inserts a new, free one.  The first poll of Acquire   *)
(* follows in the same poll of the task, without a suspension between.     *)
(***************************************************************************)
EntryOrDefault(k, g) ==
    \/ /\ map[k] # NoGate
       /\ g = map[k]
       /\ UNCHANGED <<map, held, wakers>>
    \/ /\ map[k] = NoGate
       /\ Unreferenced(g)
       /\ map' = [map EXCEPT ![k] = g]
       /\ held' = held \ {g}
       /\ wakers' = [wakers EXCEPT ![g] = {}]

Enter(t) ==
    /\ pc[t] = "idle"
    /\ \E k \in Keys, g \in Gates :
          /\ EntryOrDefault(k, g)
          /\ key' = [key EXCEPT ![t] = k]
          /\ gate' = [gate EXCEPT ![t] = g]
    /\ pc' = [pc EXCEPT ![t] = "entered"]
    /\ UNCHANGED <<scheduled, towake>>

(***************************************************************************)
(* Acquire::poll, one critical section of the gate's lock: try_acquire     *)
(* takes a free gate, or registers the waker (once) and the task sleeps.   *)
(***************************************************************************)
\* Mutant: the gate is taken without a look at `held'.
TryAcquireUnchecked(t) ==
    /\ held' = held \cup {gate[t]}
    /\ pc' = [pc EXCEPT ![t] = "holding"]
    /\ UNCHANGED wakers

TryAcquire(t) ==
    /\ gate[t] \notin held
    /\ held' = held \cup {gate[t]}
    /\ pc' = [pc EXCEPT ![t] = "holding"]
    /\ UNCHANGED wakers

\* Mutant: the gate has room for one waker only.
RegisterLastWaker(t) ==
    /\ gate[t] \in held
    /\ wakers' = [wakers EXCEPT ![gate[t]] = {t}]
    /\ pc' = [pc EXCEPT ![t] = "pending"]
    /\ UNCHANGED held

RegisterWaker(t) ==
    /\ gate[t] \in held
    /\ wakers' = [wakers EXCEPT ![gate[t]] = @ \cup {t}]
    /\ pc' = [pc EXCEPT ![t] = "pending"]
    /\ UNCHANGED held

Poll(t) ==
    /\ \/ pc[t] = "entered"
       \/ pc[t] = "pending" /\ t \in scheduled
    /\ TryAcquire(t) \/ RegisterWaker(t)
    /\ scheduled' = scheduled \ {t}
    /\ UNCHANGED <<map, key, gate, towake>>

(***************************************************************************)
(* The future of a pending acquire is dropped (a timeout, a select): its   *)
(* clones go, the waker it registered stays behind in the gate.            *)
(***************************************************************************)
Cancel(t) ==
    /\ pc[t] = "pending"
    /\ pc' = [pc EXCEPT ![t] = "idle"]
    /\ gate' = [gate EXCEPT ![t] = NoGate]
    /\ UNCHANGED <<map, held, wakers, key, scheduled, towake>>

(***************************************************************************)
(* Drop of the guard: release under the gate's lock, then the wakers one   *)
(* by one without any lock, then the cleanup under the map lock, and last  *)
(* the guard's own Arc, after the lock is gone.                            *)
(***************************************************************************)
\* Mutant: the wakers are taken without giving the gate back.
ReleaseKeepsHeld(t) ==
    /\ pc[t] = "holding"
    /\ towake' = [towake EXCEPT ![t] = wakers[gate[t]]]
    /\ wakers' = [wakers EXCEPT ![gate[t]] = {}]
    /\ pc' = [pc EXCEPT ![t] = "waking"]
    /\ UNCHANGED <<map, held, key, gate, scheduled>>

Release(t) ==
    /\ pc[t] = "holding"
    /\ held' = held \ {gate[t]}
    /\ towake' = [towake EXCEPT ![t] = wakers[gate[t]]]
    /\ wakers' = [wakers EXCEPT ![gate[t]] = {}]
    /\ pc' = [pc EXCEPT ![t] = "waking"]
    /\ UNCHANGED <<map, key, gate, scheduled>>

\* Mutant: the next waiter is woken once the last one woken has been polled.
WakeOneInTurn(t) ==
    /\ pc[t] = "waking"
    /\ scheduled = {}
    /\ \E u \in towake[t] :
          /\ scheduled' = scheduled \cup {u}
          /\ towake' = [towake EXCEPT ![t] = @ \ {u}]
    /\ UNCHANGED <<map, held, wakers, pc, key, gate>>

\* A stale waker wakes a task that waits for something else: harmless.
WakeOne(t) ==
    /\ pc[t] = "waking"
    /\ \E u \in towake[t] :
          /\ scheduled' = scheduled \cup {u}
          /\ towake' = [towake EXCEPT ![t] = @ \ {u}]
    /\ UNCHANGED <<map, held, wakers, pc, key, gate>>

WakersDone(t) ==
    /\ pc[t] = "waking"
    /\ towake[t] = {}
    /\ pc' = [pc EXCEPT ![t] = "cleaning"]
    /\ UNCHANGED <<map, held, wakers, key, gate, scheduled, towake>>

\* Mutant: the entry is removed whoever else has cloned it.
OnlyPtrEq(t) == map[key[t]] = gate[t]

\* Arc::ptr_eq(g, &self.gate) && Arc::strong_count(g) == 2
OnlyMapAndGuard(t) ==
    /\ map[key[t]] = gate[t]
    /\ \A u \in Tasks \ {t} : gate[u] # gate[t]

Cleanup(t) ==
    /\ pc[t] = "cleaning"
    /\ map' = IF OnlyMapAndGuard(t) THEN [map EXCEPT ![key[t]] = NoGate] ELSE map
    /\ pc' = [pc EXCEPT ![t] = "dropping"]
    /\ UNCHANGED <<held, wakers, key, gate, scheduled, towake>>

DropArc(t) ==
    /\ pc[t] = "dropping"
    /\ gate' = [gate EXCEPT ![t] = NoGate]
    /\ pc' = [pc EXCEPT ![t] = "idle"]
    /\ UNCHANGED <<map, held, wakers, key, scheduled, towake>>

-----------------------------------------------------------------------------

Step(t) ==
    \/ Enter(t) \/ Poll(t) \/ Cancel(t)
    \/ Release(t) \/ WakeOne(t) \/ WakersDone(t) \/ Cleanup(t) \/ DropArc(t)

Next == \E t \in Tasks : Step(t)

Spec == Init /\ [][Next]_vars

(***************************************************************************)
(* Fairness.  An executor polls every woken task; a holder finishes its    *)
(* fill and drops its guard; a guard's drop runs to its end.  Callers owe  *)
(* nothing: no fairness on Enter or Cancel.                                *)
(***************************************************************************)
Fairness ==
    \A t \in Tasks :
        /\ WF_vars(Poll(t))
        /\ WF_vars(Release(t))
        /\ WF_vars(WakeOne(t) \/ WakersDone(t) \/ Cleanup(t) \/ DropArc(t))

FairSpec == Spec /\ Fairness

-----------------------------------------------------------------------------

\* The task has a gate and its guard (or future) has not passed the cleanup.
Active(t) == pc[t] \in {"entered", "pending", "holding", "waking", "cleaning"}

(***************************************************************************)
(* One holder per key at a time (the contract of acquire), although the    *)
(* gate of a key is removed from the map and allocated again.              *)
(***************************************************************************)
MutualExclusion ==
    \A t, u \in Tasks :
        /\ pc[t] = "holding" /\ pc[u] = "holding"
        /\ key[t] = key[u]
        => t = u

(***************************************************************************)
(* Everyone who waits for or holds a key uses the gate that is in the map: *)
(* the cleanup of a guard never detaches a gate that someone else uses.    *)
(* (The comment in Drop allows for a detached gate; the strong count,      *)
(* taken under the lock that every clone from the map needs, excludes it.) *)
(***************************************************************************)
NoDetachedGate ==
    \A t \in Tasks : Active(t) => gate[t] = map[key[t]]

(***************************************************************************)
(* No wakeup is lost: a task that sleeps in acquire is registered with a   *)
(* gate that is held, or a guard that is being dropped is about to wake it.*)
(***************************************************************************)
Asleep(t) == pc[t] = "pending" /\ t \notin scheduled

NoLostWakeup ==
    \A t \in Tasks : Asleep(t) =>
        \/ gate[t] \in held /\ t \in wakers[gate[t]]
        \/ \E u \in Tasks : pc[u] = "waking" /\ t \in towake[u]

(***************************************************************************)
(* A gate is held exactly while one task is between taking and releasing   *)
(* it: a cancelled waiter or a dropped guard leaves no gate locked.        *)
(***************************************************************************)
HeldByHolder ==
    \A g \in held : \E t \in Tasks : pc[t] = "holding" /\ gate[t] = g

(***************************************************************************)
(* Progress: a task that waits for a key gets it or gives up, or finds it  *)
(* in somebody's hands, again and again: no key is free for ever while a   *)
(* task sleeps in its queue.  (All waiters are woken and race, so a single *)
(* waiter may lose every race; the queue as a whole moves.)                *)
(***************************************************************************)
WaitsFor(t, k) == pc[t] = "pending" /\ key[t] = k
Held(k) == \E u \in Tasks : pc[u] = "holding" /\ key[u] = k

Progress ==
    \A t \in Tasks, k \in Keys :
        WaitsFor(t, k) ~> ~WaitsFor(t, k) \/ Held(k)

(***************************************************************************)
(* What callers see of the gates: who holds which key.                     *)
(***************************************************************************)
Holders == {<<t, key[t]>> : t \in {u \in Tasks : pc[u] = "holding"}}

Abstract == INSTANCE KeyGates WITH holders <- Holders
=============================================================================
