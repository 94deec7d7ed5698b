--------------------------- MODULE OffloadProofs ----------------------------
(***************************************************************************)
(* The worker pool loses no job and no wakeup, for any number of callers,  *)
(* workers, jobs and wakers.                                               *)
(***************************************************************************)
EXTENDS Offload, FiniteSetTheorems, TLAPS

Active(w) == at[w] = "running"

(***************************************************************************)
(* A job is in one place at a time: once in the channel or with one        *)
(* worker, and awaited by one task.                                        *)
(***************************************************************************)
QueueDistinct == \A m, n \in DOMAIN queue : queue[m] = queue[n] => m = n
TakenOut == \A w \in Workers : doing[w] # None => ~Queued(doing[w])
OneWorker == \A w, x \in Workers : doing[w] # None /\ doing[w] = doing[x] => w = x
OneTask == \A t, u \in Tasks : job[t] # None /\ job[t] = job[u] => t = u

(***************************************************************************)
(* A job in the channel or with a worker has no outcome yet; a job that is *)
(* awaited and has none is in one of these places; and the outcome of a    *)
(* job that is done is there until its task takes it.                      *)
(***************************************************************************)
QueuedUndone == \A n \in DOMAIN queue : outcome[queue[n]] = None
RunningUndone == \A w \in Workers : Active(w) => outcome[doing[w]] = None
AwaitedSomewhere ==
    \A t \in Tasks : job[t] # None /\ outcome[job[t]] = None =>
        Queued(job[t]) \/ \E w \in Workers : Active(w) /\ doing[w] = job[t]

(***************************************************************************)
(* A task that was polled is known to its cell by its last waker, until    *)
(* the job is done; then that waker is with the worker, or was woken.      *)
(***************************************************************************)
PolledWithWaker == \A t \in Tasks : pc[t] = "pending" => polled[t] \in Wakers
CellHasWaker ==
    \A t \in Tasks : pc[t] = "pending" /\ outcome[job[t]] = None =>
        waker[job[t]] = polled[t]
DoneWakes ==
    \A t \in Tasks : Asleep(t) /\ outcome[job[t]] # None =>
        \E w \in Workers :
            at[w] = "waking" /\ doing[w] = job[t] /\ taken[w] = polled[t]

\* The sender lives as long as the pool is open, and workers outlive it.
SenderWhileOpen == sender <=> pool = "open"
LeaveAfterSender == \A w \in Workers : at[w] = "exited" => ~sender /\ queue = <<>>

IInv ==
    /\ TypeOK
    /\ QueueDistinct /\ TakenOut /\ OneWorker /\ OneTask
    /\ QueuedUndone /\ RunningUndone /\ AwaitedSomewhere
    /\ PolledWithWaker /\ CellHasWaker /\ DoneWakes
    /\ SenderWhileOpen /\ LeaveAfterSender

-----------------------------------------------------------------------------

\* A new pool.
LEMMA InitIInv == Init => IInv
  BY OffloadAssumption
  DEF Init, IInv, TypeOK, QueueDistinct, TakenOut, OneWorker, OneTask,
      QueuedUndone, RunningUndone, AwaitedSomewhere, PolledWithWaker,
      CellHasWaker, DoneWakes, SenderWhileOpen, LeaveAfterSender, Active, Asleep

\* Pool::run: the new cell is referred to by nobody.
LEMMA RunStep == ASSUME IInv, NEW t \in Tasks, Run(t) PROVE IInv'
  <1>1. PICK j \in Jobs :
          /\ Unreferenced(j)
          /\ outcome' = [outcome EXCEPT ![j] = None]
          /\ waker' = [waker EXCEPT ![j] = None]
          /\ queue' = Append(queue, j)
          /\ job' = [job EXCEPT ![t] = j]
    BY DEF Run
  <1>2. /\ pool = "open" /\ pc[t] = "idle"
        /\ pc' = [pc EXCEPT ![t] = "submitted"]
        /\ UNCHANGED <<sender, receiver, at, doing, taken, polled, scheduled, pool>>
    BY DEF Run, workerVars
  <1>3. TypeOK
    BY DEF IInv
  <1>4. /\ DOMAIN queue = 1 .. Len(queue) /\ DOMAIN queue' = 1 .. Len(queue) + 1
        /\ Len(queue) \in Nat
        /\ \A n \in 1 .. Len(queue) : queue'[n] = queue[n] /\ queue[n] \in Jobs /\ queue[n] # j
        /\ queue'[Len(queue) + 1] = j
    BY <1>1, <1>3 DEF TypeOK, Unreferenced, Queued
  <1>5. TypeOK'
    BY <1>1, <1>2, <1>3, OffloadAssumption DEF TypeOK
  <1>6. QueueDistinct'
    BY <1>4 DEF IInv, QueueDistinct
  <1>7. TakenOut' /\ OneWorker'
    BY <1>1, <1>2, <1>3, <1>4 DEF IInv, TypeOK, TakenOut, OneWorker, Queued, Unreferenced
  <1>8. OneTask'
    BY <1>1, <1>3 DEF IInv, TypeOK, OneTask, Unreferenced
  <1>9. QueuedUndone' /\ RunningUndone'
    BY <1>1, <1>2, <1>3, <1>4
    DEF IInv, TypeOK, QueuedUndone, RunningUndone, Active, Unreferenced
  <1>10. AwaitedSomewhere'
    <2> SUFFICES ASSUME NEW u \in Tasks, job'[u] # None, outcome'[job'[u]] = None
                 PROVE  (Queued(job[u]) \/ \E w \in Workers : Active(w) /\ doing[w] = job[u])'
      BY DEF AwaitedSomewhere
    <2>1. CASE u = t
      <3>1. job'[u] = j /\ Len(queue) + 1 \in DOMAIN queue'
        BY <1>1, <1>3, <1>4, <2>1 DEF TypeOK
      <3> QED
        BY <1>4, <3>1 DEF Queued
    <2>2. CASE u # t
      <3>1. job'[u] = job[u] /\ job[u] # j /\ outcome[job[u]] = None
        BY <1>1, <1>3, <2>2 DEF TypeOK, Unreferenced
      <3>2. Queued(job[u]) => Queued(job[u])'
        BY <1>4, <3>1 DEF Queued
      <3> QED
        BY <1>2, <3>1, <3>2 DEF IInv, AwaitedSomewhere, Active
    <2> QED
      BY <2>1, <2>2
  <1>11. PolledWithWaker' /\ CellHasWaker' /\ DoneWakes'
    BY <1>1, <1>2, <1>3, OffloadAssumption
    DEF IInv, TypeOK, PolledWithWaker, CellHasWaker, DoneWakes, Asleep, Unreferenced
  <1>12. SenderWhileOpen' /\ LeaveAfterSender'
    BY <1>2 DEF IInv, SenderWhileOpen, LeaveAfterSender
  <1> QED
    BY <1>5, <1>6, <1>7, <1>8, <1>9, <1>10, <1>11, <1>12 DEF IInv

\* Oneshot::poll that finds the outcome, and the drop of a future: the task
\* forgets its job; only an outcome that it took is lost.
LEMMA TaskLeaves ==
    ASSUME IInv, NEW t \in Tasks, pc[t] # "idle",
           pc' = [pc EXCEPT ![t] = "idle"], job' = [job EXCEPT ![t] = None],
           polled' = [polled EXCEPT ![t] = None], scheduled' = scheduled \ {t},
           outcome' = outcome \/ (outcome[job[t]] # None
                                  /\ outcome' = [outcome EXCEPT ![job[t]] = None]),
           UNCHANGED <<queue, sender, workerVars, waker, pool>>
    PROVE  IInv'
  <1>1. TypeOK /\ UNCHANGED <<queue, sender, receiver, at, doing, taken, waker, pool>>
    BY DEF IInv, workerVars
  <1>2. TypeOK'
    BY <1>1 DEF TypeOK
  <1>3. \A u \in Tasks \ {t} : job'[u] = job[u] /\ pc'[u] = pc[u] /\ polled'[u] = polled[u]
                               /\ (u \in scheduled' <=> u \in scheduled)
    BY <1>1 DEF TypeOK
  <1>4. job'[t] = None /\ pc'[t] = "idle" /\ job[t] \in Jobs
    BY <1>1 DEF TypeOK
  <1>5. \A u \in Tasks \ {t} : job[u] \in Jobs => job[u] # job[t] /\ outcome'[job[u]] = outcome[job[u]]
    BY <1>1, <1>4, OffloadAssumption DEF IInv, TypeOK, OneTask
  <1>6. QueueDistinct' /\ TakenOut' /\ OneWorker'
    BY <1>1 DEF IInv, QueueDistinct, TakenOut, OneWorker, Queued
  <1>7. OneTask'
    BY <1>3, <1>4 DEF IInv, OneTask
  <1>8. QueuedUndone' /\ RunningUndone'
    <2>1. \A j \in Jobs : outcome[j] = None => outcome'[j] = None
      BY <1>1, <1>4 DEF TypeOK
    <2>2. \A n \in DOMAIN queue : queue[n] \in Jobs
      BY <1>1 DEF TypeOK
    <2>3. \A w \in Workers : Active(w) => doing[w] \in Jobs
      BY <1>1 DEF TypeOK, Active
    <2> QED
      BY <1>1, <2>1, <2>2, <2>3 DEF IInv, QueuedUndone, RunningUndone, Active
  <1>9. AwaitedSomewhere'
    <2> SUFFICES ASSUME NEW u \in Tasks, job'[u] # None, outcome'[job'[u]] = None
                 PROVE  (Queued(job[u]) \/ \E w \in Workers : Active(w) /\ doing[w] = job[u])'
      BY DEF AwaitedSomewhere
    <2>1. u # t /\ job'[u] = job[u] /\ job[u] \in Jobs /\ outcome[job[u]] = None
      BY <1>1, <1>3, <1>4, <1>5 DEF TypeOK
    <2>2. Queued(job[u]) \/ \E w \in Workers : Active(w) /\ doing[w] = job[u]
      BY <2>1, OffloadAssumption DEF IInv, AwaitedSomewhere
    <2> QED
      BY <1>1, <2>1, <2>2 DEF Queued, Active
  <1>10. PolledWithWaker' /\ CellHasWaker' /\ DoneWakes'
    <2>1. \A u \in Tasks \ {t} : pc[u] = "pending" => job[u] \in Jobs
      BY <1>1 DEF TypeOK
    <2> QED
      BY <1>1, <1>3, <1>4, <1>5, <2>1
      DEF IInv, PolledWithWaker, CellHasWaker, DoneWakes, Asleep
  <1>11. SenderWhileOpen' /\ LeaveAfterSender'
    BY <1>1 DEF IInv, SenderWhileOpen, LeaveAfterSender
  <1> QED
    BY <1>2, <1>6, <1>7, <1>8, <1>9, <1>10, <1>11 DEF IInv

\* Oneshot::poll without an outcome: the cell gets the task's new waker.
LEMMA RegisterStep ==
    ASSUME IInv, NEW t \in Tasks, NEW v \in Wakers, pc[t] # "idle", Register(t, v),
           scheduled' = scheduled \ {t}, UNCHANGED <<queue, sender, workerVars, pool>>
    PROVE  IInv'
  <1>1. /\ TypeOK /\ outcome[job[t]] = None
        /\ UNCHANGED <<queue, sender, receiver, at, doing, taken, outcome, job, pool>>
        /\ waker' = [waker EXCEPT ![job[t]] = v]
        /\ pc' = [pc EXCEPT ![t] = "pending"] /\ polled' = [polled EXCEPT ![t] = v]
    BY DEF IInv, workerVars, Register
  <1>2. job[t] \in Jobs
    BY <1>1 DEF TypeOK
  <1>3. TypeOK'
    BY <1>1, <1>2, OffloadAssumption DEF TypeOK
  <1>4. QueueDistinct' /\ TakenOut' /\ OneWorker' /\ OneTask' /\ QueuedUndone' /\ RunningUndone'
        /\ AwaitedSomewhere' /\ SenderWhileOpen' /\ LeaveAfterSender'
    BY <1>1
    DEF IInv, QueueDistinct, TakenOut, OneWorker, OneTask, QueuedUndone, RunningUndone,
        AwaitedSomewhere, SenderWhileOpen, LeaveAfterSender, Queued, Active
  <1>5. \A u \in Tasks \ {t} : pc[u] = "pending" =>
            job[u] \in Jobs /\ job[u] # job[t] /\ waker'[job[u]] = waker[job[u]]
    BY <1>1, <1>2, OffloadAssumption DEF IInv, TypeOK, OneTask
  <1>6. PolledWithWaker' /\ CellHasWaker' /\ DoneWakes'
    BY <1>1, <1>2, <1>5
    DEF IInv, TypeOK, PolledWithWaker, CellHasWaker, DoneWakes, Asleep
  <1> QED
    BY <1>3, <1>4, <1>6 DEF IInv

-----------------------------------------------------------------------------

\* A worker takes the head of the channel.
LEMMA ReceiveStep == ASSUME IInv, NEW w \in Workers, Receive(w) PROVE IInv'
  <1> DEFINE j == Head(queue)
  <1>1. /\ TypeOK /\ at[w] = "receiving" /\ queue # <<>> /\ queue' = Tail(queue)
        /\ doing' = [doing EXCEPT ![w] = j] /\ at' = [at EXCEPT ![w] = "running"]
        /\ receiver' = None
        /\ UNCHANGED <<sender, taken, outcome, waker, pc, job, polled, scheduled, pool>>
    BY DEF IInv, Receive, taskVars
  <1>2. /\ DOMAIN queue = 1 .. Len(queue) /\ DOMAIN queue' = 1 .. Len(queue) - 1
        /\ Len(queue) \in Nat \ {0} /\ j = queue[1] /\ j \in Jobs
        /\ \A n \in 1 .. Len(queue) - 1 : queue'[n] = queue[n + 1]
    BY <1>1 DEF TypeOK
  <1>3. TypeOK'
    BY <1>1, <1>2, OffloadAssumption DEF TypeOK
  <1> HIDE DEF j
  <1>4. QueueDistinct' /\ QueuedUndone' /\ OneTask'
    BY <1>1, <1>2 DEF IInv, QueueDistinct, QueuedUndone, OneTask
  <1>5. \A n \in DOMAIN queue' : queue'[n] # j
    BY <1>2 DEF IInv, QueueDistinct
  <1>6. \A x \in Workers : doing[x] # j
    BY <1>1, <1>2, OffloadAssumption DEF IInv, TakenOut, Queued
  <1>7. doing'[w] = j /\ at'[w] = "running"
        /\ \A x \in Workers \ {w} : doing'[x] = doing[x] /\ at'[x] = at[x]
    BY <1>1 DEF TypeOK
  <1>8. TakenOut'
    <2>1. \A x \in Workers \ {w} : doing[x] # None => \A n \in DOMAIN queue' : queue'[n] # doing[x]
      BY <1>2 DEF IInv, TakenOut, Queued
    <2> QED
      BY <1>5, <1>7, <2>1 DEF TakenOut, Queued
  <1>9. OneWorker'
    BY <1>6, <1>7 DEF IInv, OneWorker
  <1>10. RunningUndone'
    BY <1>1, <1>2, <1>7 DEF IInv, RunningUndone, QueuedUndone, Active
  <1>11. AwaitedSomewhere'
    <2> SUFFICES ASSUME NEW u \in Tasks, job[u] # None, outcome[job[u]] = None
                 PROVE  (Queued(job[u]) \/ \E x \in Workers : Active(x) /\ doing[x] = job[u])'
      BY <1>1 DEF AwaitedSomewhere
    <2>1. CASE job[u] = j
      BY <1>1, <1>7, <2>1 DEF Active
    <2>2. CASE job[u] # j /\ Queued(job[u])
      <3>1. PICK n \in 1 .. Len(queue) : queue[n] = job[u]
        BY <1>2, <2>2 DEF Queued
      <3>2. n # 1 /\ n - 1 \in 1 .. Len(queue) - 1 /\ queue'[n - 1] = job[u]
        BY <1>2, <2>2, <3>1
      <3> QED
        BY <1>1, <1>2, <3>2 DEF Queued
    <2>3. CASE \E x \in Workers : Active(x) /\ doing[x] = job[u]
      BY <1>1, <1>7, <2>3 DEF Active
    <2> QED
      BY <2>1, <2>2, <2>3 DEF IInv, AwaitedSomewhere
  <1>12. PolledWithWaker' /\ CellHasWaker' /\ DoneWakes'
    <2>1. \A x \in Workers : at[x] = "waking" => x # w
      BY <1>1
    <2> QED
      BY <1>1, <1>7, <2>1 DEF IInv, PolledWithWaker, CellHasWaker, DoneWakes, Asleep
  <1>13. SenderWhileOpen' /\ LeaveAfterSender'
    BY <1>1, <1>2, <1>7 DEF IInv, SenderWhileOpen, LeaveAfterSender
  <1> QED
    BY <1>3, <1>4, <1>8, <1>9, <1>10, <1>11, <1>12, <1>13 DEF IInv

\* The outcome is stored, and the waker taken, under one lock.
LEMMA ExecuteStep == ASSUME IInv, NEW w \in Workers, Execute(w) PROVE IInv'
  <1> DEFINE j == doing[w]
  <1>1. PICK r \in {"value", "panic"} : outcome' = [outcome EXCEPT ![j] = r]
    BY DEF Execute
  <1>2. /\ TypeOK /\ at[w] = "running" /\ at' = [at EXCEPT ![w] = "waking"]
        /\ taken' = [taken EXCEPT ![w] = waker[j]] /\ waker' = [waker EXCEPT ![j] = None]
        /\ UNCHANGED <<queue, sender, receiver, doing, pc, job, polled, scheduled, pool>>
    BY DEF IInv, Execute, taskVars
  <1>3. j \in Jobs /\ r # None /\ outcome'[j] = r
        /\ \A i \in Jobs \ {j} : outcome'[i] = outcome[i] /\ waker'[i] = waker[i]
    BY <1>1, <1>2, OffloadAssumption DEF TypeOK
  <1>4. at'[w] = "waking" /\ taken'[w] = waker[j]
        /\ \A x \in Workers \ {w} : at'[x] = at[x] /\ taken'[x] = taken[x]
    BY <1>2 DEF TypeOK
  <1>5. TypeOK'
    BY <1>1, <1>2, <1>3 DEF TypeOK
  <1>6. QueueDistinct' /\ TakenOut' /\ OneWorker' /\ OneTask'
    BY <1>2 DEF IInv, QueueDistinct, TakenOut, OneWorker, OneTask, Queued
  <1>7. QueuedUndone'
    <2>1. \A n \in DOMAIN queue : queue[n] \in Jobs \ {j}
      BY <1>2, <1>3, OffloadAssumption DEF IInv, TypeOK, TakenOut, Queued
    <2> QED
      BY <1>2, <1>3, <2>1 DEF IInv, QueuedUndone
  <1>8. RunningUndone'
    <2>1. \A x \in Workers \ {w} : Active(x) => doing[x] \in Jobs \ {j}
      BY <1>2, <1>3, OffloadAssumption DEF IInv, TypeOK, OneWorker, Active
    <2> QED
      BY <1>2, <1>3, <1>4, <2>1 DEF IInv, RunningUndone, Active
  <1>9. AwaitedSomewhere'
    <2> SUFFICES ASSUME NEW u \in Tasks, job[u] # None, outcome'[job[u]] = None
                 PROVE  (Queued(job[u]) \/ \E x \in Workers : Active(x) /\ doing[x] = job[u])'
      BY <1>2 DEF AwaitedSomewhere
    <2>1. job[u] \in Jobs \ {j}
      BY <1>2, <1>3 DEF TypeOK
    <2>2. Queued(job[u]) \/ \E x \in Workers : Active(x) /\ doing[x] = job[u]
      BY <1>3, <2>1 DEF IInv, AwaitedSomewhere
    <2> QED
      BY <1>2, <1>4, <2>1, <2>2 DEF Queued, Active
  <1>10. PolledWithWaker' /\ CellHasWaker' /\ DoneWakes'
    <2>1. PolledWithWaker' /\ CellHasWaker'
      BY <1>2, <1>3 DEF IInv, TypeOK, PolledWithWaker, CellHasWaker
    <2>2. ASSUME NEW t \in Tasks, pc[t] = "pending", t \notin scheduled, outcome'[job[t]] # None
          PROVE  \E x \in Workers :
                    at'[x] = "waking" /\ doing[x] = job[t] /\ taken'[x] = polled[t]
      <3>1. CASE job[t] = j
        <4>1. outcome[j] = None
          BY <1>2 DEF IInv, RunningUndone, Active
        <4>2. taken'[w] = polled[t]
          BY <1>4, <2>2, <3>1, <4>1 DEF IInv, CellHasWaker
        <4> QED
          BY <1>4, <3>1, <4>2
      <3>2. CASE job[t] # j
        <4>1. job[t] \in Jobs /\ outcome[job[t]] # None
          BY <1>2, <1>3, <2>2, <3>2 DEF TypeOK
        <4> QED
          BY <1>2, <1>4, <2>2, <4>1 DEF IInv, DoneWakes, Asleep
      <3> QED
        BY <3>1, <3>2
    <2>3. DoneWakes'
      BY <1>2, <2>2 DEF DoneWakes, Asleep
    <2> QED
      BY <2>1, <2>3
  <1>11. SenderWhileOpen' /\ LeaveAfterSender'
    BY <1>2, <1>4 DEF IInv, SenderWhileOpen, LeaveAfterSender
  <1> QED
    BY <1>5, <1>6, <1>7, <1>8, <1>9, <1>10, <1>11 DEF IInv

\* The task that still awaits the job is scheduled, and the worker lets go.
LEMMA WakeStep == ASSUME IInv, NEW w \in Workers, Wake(w) PROVE IInv'
  <1>1. /\ TypeOK /\ at[w] = "waking" /\ at' = [at EXCEPT ![w] = "locking"]
        /\ taken' = [taken EXCEPT ![w] = None] /\ doing' = [doing EXCEPT ![w] = None]
        /\ UNCHANGED <<queue, sender, receiver, outcome, waker, pc, job, polled, pool>>
        /\ scheduled' = scheduled \cup
             {t \in Tasks : job[t] = doing[w] /\ taken[w] # None /\ polled[t] = taken[w]}
    BY DEF IInv, Wake
  <1>2. at'[w] = "locking" /\ doing'[w] = None
        /\ \A x \in Workers \ {w} : at'[x] = at[x] /\ taken'[x] = taken[x] /\ doing'[x] = doing[x]
    BY <1>1 DEF TypeOK
  <1>3. TypeOK'
    BY <1>1 DEF TypeOK
  <1>4. QueueDistinct' /\ OneTask' /\ QueuedUndone' /\ PolledWithWaker' /\ CellHasWaker'
        /\ SenderWhileOpen'
    BY <1>1 DEF IInv, QueueDistinct, OneTask, QueuedUndone, PolledWithWaker, CellHasWaker,
                SenderWhileOpen
  <1>5. TakenOut' /\ OneWorker' /\ RunningUndone' /\ LeaveAfterSender'
    BY <1>1, <1>2 DEF IInv, TakenOut, OneWorker, RunningUndone, LeaveAfterSender, Queued, Active
  <1>6. AwaitedSomewhere'
    BY <1>1, <1>2 DEF IInv, AwaitedSomewhere, Queued, Active
  <1>7. DoneWakes'
    BY <1>1, <1>2, OffloadAssumption DEF IInv, DoneWakes, PolledWithWaker, Asleep
  <1> QED
    BY <1>3, <1>4, <1>5, <1>6, <1>7 DEF IInv

\* The lock of the receiver, and the end of a worker: only its place changes.
LEMMA LockStep ==
    ASSUME IInv, NEW w \in Workers, LockReceiver(w) \/ Disconnected(w) PROVE IInv'
  <1>1. /\ TypeOK /\ at[w] \in {"locking", "receiving"} /\ receiver' \in {w, None}
        /\ \/ at' = [at EXCEPT ![w] = "receiving"]
           \/ at' = [at EXCEPT ![w] = "exited"] /\ queue = <<>> /\ ~sender
        /\ UNCHANGED <<queue, sender, doing, taken, outcome, waker, pc, job, polled, scheduled, pool>>
    BY DEF IInv, LockReceiver, Disconnected, taskVars
  <1>2. at'[w] \notin {"running", "waking"} /\ \A x \in Workers \ {w} : at'[x] = at[x]
    BY <1>1 DEF TypeOK
  <1>3. TypeOK'
    BY <1>1 DEF TypeOK
  <1>4. QueueDistinct' /\ TakenOut' /\ OneWorker' /\ OneTask' /\ QueuedUndone' /\ RunningUndone'
        /\ AwaitedSomewhere'
    BY <1>1, <1>2
    DEF IInv, QueueDistinct, TakenOut, OneWorker, OneTask, QueuedUndone, RunningUndone,
        AwaitedSomewhere, Queued, Active
  <1>5. PolledWithWaker' /\ CellHasWaker' /\ DoneWakes'
    BY <1>1, <1>2 DEF IInv, PolledWithWaker, CellHasWaker, DoneWakes, Asleep
  <1>6. SenderWhileOpen' /\ LeaveAfterSender'
    BY <1>1, <1>2 DEF IInv, TypeOK, SenderWhileOpen, LeaveAfterSender
  <1> QED
    BY <1>3, <1>4, <1>5, <1>6 DEF IInv

\* The drop of the pool, and steps that change nothing.
LEMMA PoolStep ==
    ASSUME IInv, Close \/ Join \/ UNCHANGED vars PROVE IInv'
  <1>1. /\ UNCHANGED <<queue, receiver, at, doing, taken, outcome, waker, pc, job, polled, scheduled>>
        /\ \/ pool = "open" /\ sender' = FALSE /\ pool' = "closing"
           \/ pool = "closing" /\ pool' = "joined" /\ UNCHANGED sender
           \/ UNCHANGED <<sender, pool>>
    BY DEF Close, Join, vars, workerVars, taskVars
  <1>2. TypeOK'
    BY <1>1 DEF IInv, TypeOK
  <1>3. SenderWhileOpen' /\ LeaveAfterSender'
    <2>1. "closing" # "open" /\ "joined" # "open"
      OBVIOUS
    <2>2. CASE sender' = FALSE /\ pool' = "closing"
      BY <1>1, <2>1, <2>2, Zenon DEF IInv, SenderWhileOpen, LeaveAfterSender
    <2>3. CASE pool = "closing" /\ pool' = "joined" /\ sender' = sender
      BY <1>1, <2>1, <2>3, Zenon DEF IInv, SenderWhileOpen, LeaveAfterSender
    <2>4. CASE pool' = pool /\ sender' = sender
      BY <1>1, <2>4, Zenon DEF IInv, SenderWhileOpen, LeaveAfterSender
    <2> QED
      BY <1>1, <2>2, <2>3, <2>4
  <1>4. QueueDistinct' /\ TakenOut' /\ OneWorker' /\ OneTask' /\ QueuedUndone' /\ RunningUndone'
        /\ AwaitedSomewhere' /\ PolledWithWaker' /\ CellHasWaker' /\ DoneWakes'
    BY <1>1
    DEF IInv, QueueDistinct, TakenOut, OneWorker, OneTask, QueuedUndone, RunningUndone,
        AwaitedSomewhere, PolledWithWaker, CellHasWaker, DoneWakes, Queued, Active, Asleep
  <1> QED
    BY <1>2, <1>3, <1>4 DEF IInv

-----------------------------------------------------------------------------

\* IInv is an invariant of the pool.
THEOREM IInvAlways == Spec => []IInv
  <1>1. ASSUME IInv, [Next]_vars PROVE IInv'
    <2>1. ASSUME NEW t \in Tasks, TaskStep(t) PROVE IInv'
      <3>1. CASE Poll(t) /\ TakeOutcome(t)
        BY <1>1, <3>1, TaskLeaves DEF Poll, TakeOutcome
      <3>2. CASE Poll(t) /\ \E v \in Wakers : Register(t, v)
        BY <1>1, <3>2, RegisterStep DEF Poll
      <3>3. CASE Cancel(t)
        BY <1>1, <3>3, TaskLeaves DEF Cancel
      <3> QED
        BY <1>1, <2>1, <3>1, <3>2, <3>3, RunStep DEF TaskStep, Poll
    <2>2. ASSUME NEW w \in Workers, WorkerStep(w) PROVE IInv'
      BY <1>1, <2>2, LockStep, ReceiveStep, ExecuteStep, WakeStep DEF WorkerStep
    <2> QED
      BY <1>1, <2>1, <2>2, PoolStep DEF Next, Dropped
  <1> QED
    BY InitIInv, <1>1, PTL DEF Spec

\* The places of an awaited job, counted.
LEMMA PlacesCounted == IInv => OnePlace
  <1> SUFFICES ASSUME IInv, NEW t \in Tasks, pc[t] # "idle"
               PROVE  /\ Places(job[t]) = IF outcome[job[t]] = None THEN 1 ELSE 0
                      /\ \A u \in Tasks : job[u] = job[t] => u = t
    BY DEF OnePlace
  <1> DEFINE j == job[t]
             Q == {n \in DOMAIN queue : queue[n] = j}
             W == {w \in Workers : at[w] = "running" /\ doing[w] = j}
  <1>1. j # None /\ \A u \in Tasks : job[u] = j => u = t
    BY DEF IInv, TypeOK, OneTask
  <1>2. Places(j) = Cardinality(Q) + Cardinality(W)
    BY DEF Places
  <1>3. Q = {} \/ \E n : Q = {n}
    BY DEF IInv, QueueDistinct
  <1>4. W = {} \/ \E w : W = {w}
    BY <1>1 DEF IInv, OneWorker
  <1>5. Q = {} \/ W = {}
    BY <1>1 DEF IInv, TakenOut, Queued
  <1>6. CASE outcome[j] = None
    <2>1. Q # {} \/ W # {}
      BY <1>1, <1>6 DEF IInv, AwaitedSomewhere, Queued, Active
    <2> HIDE DEF Q, W
    <2>2. Cardinality(Q) + Cardinality(W) = 1
      <3>1. Cardinality({}) = 0 /\ \A n : Cardinality({n}) = 1
        BY FS_EmptySet, FS_Singleton
      <3>2. CASE Q = {}
        <4>1. Cardinality(Q) = 0 /\ Cardinality(W) = 1
          BY <1>4, <2>1, <3>1, <3>2
        <4> QED
          BY <4>1
      <3>3. CASE W = {}
        <4>1. Cardinality(Q) = 1 /\ Cardinality(W) = 0
          BY <1>3, <2>1, <3>1, <3>3
        <4> QED
          BY <4>1
      <3> QED
        BY <1>5, <3>2, <3>3
    <2> QED
      BY <1>1, <1>2, <1>6, <2>2
  <1>7. CASE outcome[j] # None
    <2>1. Q = {} /\ W = {}
      BY <1>7 DEF IInv, QueuedUndone, RunningUndone, Active
    <2> HIDE DEF Q, W
    <2>2. Cardinality(Q) + Cardinality(W) = 0
      BY <2>1, FS_EmptySet
    <2> QED
      BY <1>1, <1>2, <1>7, <2>2
  <1> QED
    BY <1>6, <1>7

\* No job of the pool is lost, run twice or left behind, whatever futures are
\* dropped and whenever the pool is: JobsAccounted, with the types.
THEOREM NoJobLost == Spec => []JobsAccounted
  <1>1. IInv => JobsAccounted
    BY PlacesCounted DEF JobsAccounted, IInv, DropDrains, LeaveAfterSender
  <1> QED
    BY IInvAlways, <1>1, PTL

\* A sleeping task left its last waker with a job that is not done, or the
\* worker that did the job is about to wake it.
THEOREM WakeupsNeverLost == Spec => []NoLostWakeup
  <1>1. IInv => NoLostWakeup
    BY DEF IInv, NoLostWakeup, CellHasWaker, DoneWakes, Asleep
  <1> QED
    BY IInvAlways, <1>1, PTL
=============================================================================
