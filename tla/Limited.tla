------------------------------ MODULE Limited ------------------------------
(***************************************************************************)
(* The concurrency limit of LimitedTier (crates/tierstore/src/limited.rs): *)
(* a semaphore of `limit' permits.  Every operation acquires a permit,     *)
(* awaits the inner tier and drops the permit.  As in SingleFlight, each   *)
(* critical section of the semaphore's lock is one action.                 *)
(***************************************************************************)
EXTENDS Integers, FiniteSets

CONSTANTS
    Tasks,      \* the callers of the tier's operations
    Limit       \* the number of permits

ASSUME LimitedAssumption ==
    /\ IsFiniteSet(Tasks)
    /\ Limit \in Nat \ {0}

VARIABLES
    available,  \* SemState.available
    wakers,     \* SemState.wakers
    pc,         \* where each task is
    scheduled,  \* the tasks that have been woken: the executor owes them a poll
    towake      \* the wakers a dropped permit has taken and not yet woken

vars == <<available, wakers, pc, scheduled, towake>>

TypeOK ==
    /\ available \in 0 .. Limit
    /\ wakers \subseteq Tasks
    /\ pc \in [Tasks -> {"idle", "entered", "pending", "running", "waking"}]
    /\ scheduled \subseteq Tasks
    /\ towake \in [Tasks -> SUBSET Tasks]

Init ==
    /\ available = Limit
    /\ wakers = {}
    /\ pc = [t \in Tasks |-> "idle"]
    /\ scheduled = {}
    /\ towake = [t \in Tasks |-> {}]

-----------------------------------------------------------------------------

\* get, put, ..., list: the first poll of acquire follows at once.
Call(t) ==
    /\ pc[t] = "idle"
    /\ pc' = [pc EXCEPT ![t] = "entered"]
    /\ UNCHANGED <<available, wakers, scheduled, towake>>

TryAcquire(t) ==
    /\ available > 0
    /\ available' = available - 1
    /\ pc' = [pc EXCEPT ![t] = "running"]
    /\ UNCHANGED wakers

\* Mutant: a task that was queued once is taken to be queued still.
RegisterFirstPoll(t) ==
    /\ available = 0
    /\ wakers' = IF pc[t] = "entered" THEN wakers \cup {t} ELSE wakers
    /\ pc' = [pc EXCEPT ![t] = "pending"]
    /\ UNCHANGED available

RegisterWaker(t) ==
    /\ available = 0
    /\ wakers' = wakers \cup {t}
    /\ pc' = [pc EXCEPT ![t] = "pending"]
    /\ UNCHANGED available

Poll(t) ==
    /\ pc[t] = "entered" \/ (pc[t] = "pending" /\ t \in scheduled)
    /\ TryAcquire(t) \/ RegisterWaker(t)
    /\ scheduled' = scheduled \ {t}
    /\ UNCHANGED towake

\* Mutant: a waiter that gives up returns a permit it does not have.
CancelReleases(t) ==
    /\ pc[t] = "pending"
    /\ pc' = [pc EXCEPT ![t] = "idle"]
    /\ available' = available + 1
    /\ UNCHANGED <<wakers, scheduled, towake>>

\* The future of a waiting operation is dropped; its waker stays behind.
Cancel(t) ==
    /\ pc[t] = "pending"
    /\ pc' = [pc EXCEPT ![t] = "idle"]
    /\ UNCHANGED <<available, wakers, scheduled, towake>>

\* The permit is dropped: the inner operation is done, or the future that
\* awaits it is dropped.
Release(t) ==
    /\ pc[t] = "running"
    /\ available' = available + 1
    /\ towake' = [towake EXCEPT ![t] = wakers]
    /\ wakers' = {}
    /\ pc' = [pc EXCEPT ![t] = "waking"]
    /\ UNCHANGED scheduled

\* Mutant: the next waiter is woken once the last one woken has been polled.
WakeOneInTurn(t) ==
    /\ pc[t] = "waking"
    /\ scheduled = {}
    /\ \E u \in towake[t] :
          /\ scheduled' = scheduled \cup {u}
          /\ towake' = [towake EXCEPT ![t] = @ \ {u}]
    /\ UNCHANGED <<available, wakers, pc>>

WakeOne(t) ==
    /\ pc[t] = "waking"
    /\ \E u \in towake[t] :
          /\ scheduled' = scheduled \cup {u}
          /\ towake' = [towake EXCEPT ![t] = @ \ {u}]
    /\ UNCHANGED <<available, wakers, pc>>

WakersDone(t) ==
    /\ pc[t] = "waking"
    /\ towake[t] = {}
    /\ pc' = [pc EXCEPT ![t] = "idle"]
    /\ UNCHANGED <<available, wakers, scheduled, towake>>

Step(t) ==
    Call(t) \/ Poll(t) \/ Cancel(t) \/ Release(t) \/ WakeOne(t) \/ WakersDone(t)

Next == \E t \in Tasks : Step(t)

Spec == Init /\ [][Next]_vars

\* Woken tasks are polled, operations of the inner tier end, drops run to
\* their end.  Nobody has to call or to give up.
FairSpec ==
    Spec /\ \A t \in Tasks :
        WF_vars(Poll(t)) /\ WF_vars(Release(t)) /\ WF_vars(WakeOne(t) \/ WakersDone(t))

-----------------------------------------------------------------------------

Running == {t \in Tasks : pc[t] = "running"}

(***************************************************************************)
(* At most `limit' operations run in the inner tier, and no permit is lost *)
(* or forged by waiters that give up and operations that are dropped: the  *)
(* free permits and the running operations add up to the limit.            *)
(***************************************************************************)
PermitsConserved == available + Cardinality(Running) = Limit

(***************************************************************************)
(* A task that sleeps in acquire is queued at a semaphore without a free   *)
(* permit, or a dropped permit is about to wake it.                        *)
(***************************************************************************)
Asleep(t) == pc[t] = "pending" /\ t \notin scheduled

NoLostWakeup ==
    \A t \in Tasks : Asleep(t) =>
        \/ available = 0 /\ t \in wakers
        \/ \E u \in Tasks : pc[u] = "waking" /\ t \in towake[u]

(***************************************************************************)
(* Waiting ends, or all the permits are taken again and again: no task     *)
(* waits for ever beside a free permit.  (Woken waiters race, so a single  *)
(* one may lose every race.)                                               *)
(***************************************************************************)
Progress ==
    \A t \in Tasks : pc[t] = "pending" ~> pc[t] # "pending" \/ available = 0
=============================================================================
