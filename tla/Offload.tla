------------------------------ MODULE Offload ------------------------------
(***************************************************************************)
(* The worker pool of OffloadTier (crates/tierstore/src/offload.rs).  An   *)
(* operation submits a job to the channel the workers share and awaits a   *)
(* oneshot, the job's result cell.  The worker that receives the job runs  *)
(* the inner tier's operation, stores its outcome and wakes the future.    *)
(* Each critical section of a lock is one action.                          *)
(*                                                                         *)
(* An executor may poll a future with a different waker each time, and     *)
(* need not react to any but the last, so a task sleeps until the last     *)
(* waker it was polled with is woken.                                      *)
(***************************************************************************)
EXTENDS Integers, FiniteSets, Sequences

CONSTANTS
    Tasks,      \* the callers of the tier's operations
    Workers,    \* the threads of the pool
    Jobs,       \* result cells, reused once nobody refers to them
    Wakers,     \* the wakers an executor may poll a future with
    Hung,       \* the jobs whose operation need not end
    None        \* no job, no waker, no worker

ASSUME OffloadAssumption ==
    /\ IsFiniteSet(Tasks) /\ IsFiniteSet(Workers)
    /\ Workers # {}
    /\ Hung \subseteq Jobs
    /\ None \notin Jobs \cup Wakers \cup Workers \cup {"value", "panic"}

VARIABLES
    queue,      \* the jobs in the channel
    sender,     \* whether the pool still has the channel's sender
    receiver,   \* the worker that holds the lock of the receiver
    at,         \* where each worker is
    doing,      \* the job each worker runs
    taken,      \* the waker each worker took from its job
    outcome,    \* OneshotState.outcome of each job
    waker,      \* OneshotState.waker of each job
    pc,         \* where each task is
    job,        \* the job each task awaits
    polled,     \* the waker each task was last polled with
    scheduled,  \* the tasks the executor owes a poll
    pool        \* the life of the tier

workerVars == <<receiver, at, doing, taken>>
taskVars == <<pc, job, polled, scheduled>>
vars == <<queue, sender, workerVars, outcome, waker, taskVars, pool>>

TypeOK ==
    /\ queue \in Seq(Jobs)
    /\ sender \in BOOLEAN
    /\ receiver \in Workers \cup {None}
    /\ at \in [Workers -> {"locking", "receiving", "running", "waking", "exited"}]
    /\ doing \in [Workers -> Jobs \cup {None}]
    /\ taken \in [Workers -> Wakers \cup {None}]
    /\ outcome \in [Jobs -> {None, "value", "panic"}]
    /\ waker \in [Jobs -> Wakers \cup {None}]
    /\ pc \in [Tasks -> {"idle", "submitted", "pending"}]
    /\ job \in [Tasks -> Jobs \cup {None}]
    /\ polled \in [Tasks -> Wakers \cup {None}]
    /\ scheduled \subseteq Tasks
    /\ pool \in {"open", "closing", "joined"}
    /\ \A t \in Tasks : pc[t] = "idle" <=> job[t] = None
    /\ \A w \in Workers : at[w] \in {"running", "waking"} <=> doing[w] # None

Init ==
    /\ queue = <<>>
    /\ sender = TRUE
    /\ receiver = None
    /\ at = [w \in Workers |-> "locking"]
    /\ doing = [w \in Workers |-> None]
    /\ taken = [w \in Workers |-> None]
    /\ outcome = [j \in Jobs |-> None]
    /\ waker = [j \in Jobs |-> None]
    /\ pc = [t \in Tasks |-> "idle"]
    /\ job = [t \in Tasks |-> None]
    /\ polled = [t \in Tasks |-> None]
    /\ scheduled = {}
    /\ pool = "open"

-----------------------------------------------------------------------------
(* The futures.                                                            *)

Queued(j) == \E i \in DOMAIN queue : queue[i] = j

Unreferenced(j) ==
    /\ ~Queued(j)
    /\ \A w \in Workers : doing[w] # j
    /\ \A t \in Tasks : job[t] # j

\* Pool::run: a fresh result cell, and the job that fills it in the channel.
Run(t) ==
    /\ pool = "open"
    /\ pc[t] = "idle"
    /\ \E j \in Jobs :
          /\ Unreferenced(j)
          /\ outcome' = [outcome EXCEPT ![j] = None]
          /\ waker' = [waker EXCEPT ![j] = None]
          /\ queue' = Append(queue, j)
          /\ job' = [job EXCEPT ![t] = j]
    /\ pc' = [pc EXCEPT ![t] = "submitted"]
    /\ UNCHANGED <<sender, workerVars, polled, scheduled, pool>>

TakeOutcome(t) ==
    /\ outcome[job[t]] # None
    /\ outcome' = [outcome EXCEPT ![job[t]] = None]
    /\ pc' = [pc EXCEPT ![t] = "idle"]
    /\ job' = [job EXCEPT ![t] = None]
    /\ polled' = [polled EXCEPT ![t] = None]
    /\ UNCHANGED waker

\* Mutant: a waker that is there is taken to be the right one.
RegisterFirst(t, v) ==
    /\ outcome[job[t]] = None
    /\ waker' = [waker EXCEPT ![job[t]] = IF @ = None THEN v ELSE @]
    /\ pc' = [pc EXCEPT ![t] = "pending"]
    /\ polled' = [polled EXCEPT ![t] = v]
    /\ UNCHANGED <<outcome, job>>

Register(t, v) ==
    /\ outcome[job[t]] = None
    /\ waker' = [waker EXCEPT ![job[t]] = v]
    /\ pc' = [pc EXCEPT ![t] = "pending"]
    /\ polled' = [polled EXCEPT ![t] = v]
    /\ UNCHANGED <<outcome, job>>

\* Oneshot::poll.  An executor may poll without having been woken.  A panic
\* of the job is resumed in the task: the operation ends either way.
Poll(t) ==
    /\ pc[t] # "idle"
    /\ TakeOutcome(t) \/ \E v \in Wakers : Register(t, v)
    /\ scheduled' = scheduled \ {t}
    /\ UNCHANGED <<queue, sender, workerVars, pool>>

\* The operation's future is dropped.  Its job stays where it is.
Cancel(t) ==
    /\ pc[t] = "pending"
    /\ pc' = [pc EXCEPT ![t] = "idle"]
    /\ job' = [job EXCEPT ![t] = None]
    /\ polled' = [polled EXCEPT ![t] = None]
    /\ scheduled' = scheduled \ {t}
    /\ UNCHANGED <<queue, sender, workerVars, outcome, waker, pool>>

-----------------------------------------------------------------------------
(* The workers.                                                            *)

LockReceiver(w) ==
    /\ at[w] = "locking"
    /\ receiver = None
    /\ receiver' = w
    /\ at' = [at EXCEPT ![w] = "receiving"]
    /\ UNCHANGED <<queue, sender, doing, taken, outcome, waker, taskVars, pool>>

\* Mutant: the job is left in the channel until it is done.
ReceivePeeks(w) ==
    /\ at[w] = "receiving"
    /\ queue # <<>>
    /\ doing' = [doing EXCEPT ![w] = Head(queue)]
    /\ at' = [at EXCEPT ![w] = "running"]
    /\ receiver' = None
    /\ UNCHANGED <<queue, sender, taken, outcome, waker, taskVars, pool>>

\* Mutant: the lock of the receiver is held while the job runs.
ReceiveKeepsLock(w) ==
    /\ at[w] = "receiving"
    /\ queue # <<>>
    /\ doing' = [doing EXCEPT ![w] = Head(queue)]
    /\ queue' = Tail(queue)
    /\ at' = [at EXCEPT ![w] = "running"]
    /\ UNCHANGED <<receiver, sender, taken, outcome, waker, taskVars, pool>>

Receive(w) ==
    /\ at[w] = "receiving"
    /\ queue # <<>>
    /\ doing' = [doing EXCEPT ![w] = Head(queue)]
    /\ queue' = Tail(queue)
    /\ at' = [at EXCEPT ![w] = "running"]
    /\ receiver' = None
    /\ UNCHANGED <<sender, taken, outcome, waker, taskVars, pool>>

\* recv fails once the sender is gone and the channel is empty.
Disconnected(w) ==
    /\ at[w] = "receiving"
    /\ queue = <<>>
    /\ ~sender
    /\ at' = [at EXCEPT ![w] = "exited"]
    /\ receiver' = None
    /\ UNCHANGED <<queue, sender, doing, taken, outcome, waker, taskVars, pool>>

\* The inner operation returns or panics (the panic is caught); its outcome
\* is stored and the waker taken under one lock.
Execute(w) ==
    /\ at[w] = "running"
    /\ \E r \in {"value", "panic"} : outcome' = [outcome EXCEPT ![doing[w]] = r]
    /\ taken' = [taken EXCEPT ![w] = waker[doing[w]]]
    /\ waker' = [waker EXCEPT ![doing[w]] = None]
    /\ at' = [at EXCEPT ![w] = "waking"]
    /\ UNCHANGED <<queue, sender, receiver, doing, taskVars, pool>>

\* The worker wakes the waker it took, if there was one, and drops the job.
Wake(w) ==
    /\ at[w] = "waking"
    /\ scheduled' = scheduled \cup
          {t \in Tasks : job[t] = doing[w] /\ taken[w] # None /\ polled[t] = taken[w]}
    /\ taken' = [taken EXCEPT ![w] = None]
    /\ doing' = [doing EXCEPT ![w] = None]
    /\ at' = [at EXCEPT ![w] = "locking"]
    /\ UNCHANGED <<queue, sender, receiver, outcome, waker, pc, job, polled, pool>>

-----------------------------------------------------------------------------
(* The drop of the pool.                                                   *)

\* Mutant: the sender is not taken.
CloseKeepsSender ==
    /\ pool = "open"
    /\ \A t \in Tasks : pc[t] = "idle"
    /\ pool' = "closing"
    /\ UNCHANGED <<queue, sender, workerVars, outcome, waker, taskVars>>

\* The futures borrow the tier: none is left when it is dropped.
Close ==
    /\ pool = "open"
    /\ \A t \in Tasks : pc[t] = "idle"
    /\ sender' = FALSE
    /\ pool' = "closing"
    /\ UNCHANGED <<queue, workerVars, outcome, waker, taskVars>>

\* The last worker is joined.
Join ==
    /\ pool = "closing"
    /\ \A w \in Workers : at[w] = "exited"
    /\ pool' = "joined"
    /\ UNCHANGED <<queue, sender, workerVars, outcome, waker, taskVars>>

Dropped == pool = "joined" /\ UNCHANGED vars

TaskStep(t) == Run(t) \/ Poll(t) \/ Cancel(t)

WorkerStep(w) ==
    LockReceiver(w) \/ Receive(w) \/ Disconnected(w) \/ Execute(w) \/ Wake(w)

Next ==
    \/ \E t \in Tasks : TaskStep(t)
    \/ \E w \in Workers : WorkerStep(w)
    \/ Close \/ Join \/ Dropped

Spec == Init /\ [][Next]_vars

(***************************************************************************)
(* The executor polls a future for the first time and whenever it is       *)
(* woken; threads run; an operation of the inner tier ends unless it is    *)
(* Hung; and the lock of the receiver, once free, goes to some worker that *)
(* wants it, whichever that is.                                            *)
(***************************************************************************)
FairSpec ==
    /\ Spec
    /\ \A t \in Tasks : WF_vars((pc[t] = "submitted" \/ t \in scheduled) /\ Poll(t))
    /\ WF_vars(\E w \in Workers : LockReceiver(w))
    /\ \A w \in Workers :
          /\ WF_vars(Receive(w) \/ Disconnected(w) \/ Wake(w))
          /\ WF_vars(doing[w] \notin Hung /\ Execute(w))
    /\ WF_vars(Join)

-----------------------------------------------------------------------------

(***************************************************************************)
(* The job a future awaits is in one place: once in the channel, with one  *)
(* worker, or done with its outcome in the cell.  So no operation is lost, *)
(* run twice, or answered with another one's outcome.                      *)
(***************************************************************************)
Places(j) ==
    Cardinality({i \in DOMAIN queue : queue[i] = j})
      + Cardinality({w \in Workers : at[w] = "running" /\ doing[w] = j})

OnePlace ==
    \A t \in Tasks : pc[t] # "idle" =>
        /\ Places(job[t]) = IF outcome[job[t]] = None THEN 1 ELSE 0
        /\ \A u \in Tasks : job[u] = job[t] => u = t

(***************************************************************************)
(* A task that sleeps in an operation left its last waker with a job that  *)
(* is not done, or the worker that did the job is about to wake it.        *)
(***************************************************************************)
Asleep(t) == pc[t] = "pending" /\ t \notin scheduled

NoLostWakeup ==
    \A t \in Tasks : Asleep(t) =>
        \/ outcome[job[t]] = None /\ waker[job[t]] = polled[t]
        \/ \E w \in Workers :
              at[w] = "waking" /\ doing[w] = job[t] /\ taken[w] = polled[t]

(***************************************************************************)
(* Dropping the tier runs every job that was submitted, those of dropped   *)
(* futures included: nothing is left in the channel once a worker leaves.  *)
(***************************************************************************)
DropDrains == \A w \in Workers : at[w] = "exited" => queue = <<>>

(***************************************************************************)
(* No job is lost, run twice or left behind, whatever is dropped when.     *)
(***************************************************************************)
JobsAccounted == TypeOK /\ OnePlace /\ DropDrains

(***************************************************************************)
(* An operation that does not hang ends even if its future is never polled *)
(* without a reason, panics are caught and other operations hang, as long  *)
(* as there are fewer of them than workers.                                *)
(***************************************************************************)
Answered ==
    \A t \in Tasks : pc[t] # "idle" /\ job[t] \notin Hung ~> pc[t] = "idle"

(***************************************************************************)
(* Dropping the tier ends unless an operation hangs: every worker leaves   *)
(* once the jobs of the dropped futures are done.                          *)
(***************************************************************************)
Hangs == \E j \in Hung : Queued(j) \/ \E w \in Workers : doing[w] = j

DropEnds == pool = "closing" /\ ~Hangs ~> pool = "joined"
=============================================================================
