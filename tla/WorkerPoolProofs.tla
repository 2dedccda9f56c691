-------------------------- MODULE WorkerPoolProofs --------------------------
(***************************************************************************)
(* Theorems of WorkerPool, for any finite set of workers, any jobs and any *)
(* number of early dismissals.                                             *)
(***************************************************************************)
EXTENDS WorkerPool, FiniteSetTheorems, SequenceTheorems, TLAPS

(* The pool holds the workers between register_to_pool and remove_item.    *)
Registered ==
    mpc # "destroyed" => pool = {w \in Workers : wpc[w] \in {"fetch", "busy", "leaving"}}

IInv == TypeOK /\ Registered /\ OwnerIsOwedAWake

(* The inductive invariant of the pool's bookkeeping is preserved by every *)
(* step.                                                                   *)
LEMMA IInvStep ==
    ASSUME IInv, [Next]_vars
    PROVE  IInv'
<1> USE PoolAssumption DEF IInv, TypeOK, Registered, OwnerIsOwedAWake, Alive
<1> USE DEF ownerVars
<1>1. CASE UNCHANGED vars
  BY <1>1 DEF vars
<1>2. ASSUME NEW w \in Workers, create_new_worker(w) PROVE IInv'
  BY <1>2 DEF create_new_worker
<1>3. ASSUME NEW j \in Jobs, queue_to_worker_thread(j) PROVE IInv'
  BY <1>3 DEF queue_to_worker_thread
<1>4. CASE dismiss_1_worker
  BY <1>4 DEF dismiss_1_worker
<1>5. CASE BeginDismissAll
  <2>1. Cardinality(pool) \in Nat
    BY FS_Subset, FS_CardinalityType
  <2>2. QED
    BY <1>5, <2>1 DEF BeginDismissAll
<1>6. CASE PostQuit
  BY <1>6 DEF PostQuit
<1>7. CASE EnterWait \/ AcquirePoolLock \/ SpuriousWakeup
  BY <1>7 DEF EnterWait, AcquirePoolLock, SpuriousWakeup
<1>8. CASE TestEmpty
  BY <1>8 DEF TestEmpty
<1>9. CASE SleepThenReturn \/ DestroyPool
  BY <1>9 DEF SleepThenReturn, DestroyPool
<1>10. ASSUME NEW w \in Workers, register_to_pool(w) PROVE IInv'
  BY <1>10 DEF register_to_pool
<1>11. ASSUME NEW w \in Workers, FetchJob(w) PROVE IInv'
  <2>1. Head(job_q) \in Jobs /\ Tail(job_q) \in Seq(Jobs \cup {Quit})
    BY <1>11 DEF FetchJob
  <2>2. QED
    BY <1>11, <2>1 DEF FetchJob
<1>12. ASSUME NEW w \in Workers, FinishJob(w) PROVE IInv'
  BY <1>12 DEF FinishJob
<1>13. ASSUME NEW w \in Workers, DieInJob(w) PROVE IInv'
  BY <1>13 DEF DieInJob
<1>14. ASSUME NEW w \in Workers, FetchQuit(w) PROVE IInv'
  <2>1. Tail(job_q) \in Seq(Jobs \cup {Quit})
    BY <1>14 DEF FetchQuit
  <2>2. QED
    BY <1>14, <2>1 DEF FetchQuit
<1>15. ASSUME NEW w \in Workers, RemoveItem(w) PROVE IInv'
  BY <1>15 DEF RemoveItem
<1>16. ASSUME NEW w \in Workers, WakeOwner(w) PROVE IInv'
  BY <1>16 DEF WakeOwner
<1> HIDE DEF IInv
<1>17. QED
  BY <1>1, <1>2, <1>3, <1>4, <1>5, <1>6, <1>7, <1>8, <1>9, <1>10, <1>11, <1>12,
     <1>13, <1>14, <1>15, <1>16
  DEF Next, OwnerUses, OwnerStops, Worker

LEMMA IInvInit == Init => IInv
BY PoolAssumption
DEF Init, IInv, TypeOK, Registered, OwnerIsOwedAWake, Alive

(* The wake() after remove_item, made without the lock, is never lost: an  *)
(* owner blocked in wait_until_all_workers_gone always has a worker left   *)
(* to wake it.  No assumption on timing.                                   *)
THEOREM OwedAWake == Spec => [](TypeOK /\ OwnerIsOwedAWake)
BY IInvInit, IInvStep, PTL DEF Spec, IInv

-----------------------------------------------------------------------------
(* What follows holds when the owner lets the workers it has created       *)
(* register before it dismisses them.                                      *)
NoneLate == mpc # "serving" => \A w \in Workers : wpc[w] # "started"
EmptyAtEnd ==
    mpc \in {"linger", "returned", "destroyed"} =>
        \A w \in Workers : wpc[w] \in {"absent", "removed", "gone"}
TInv == IInv /\ NoneLate /\ EmptyAtEnd

(* After the while loop has seen an empty pool nobody registers any more.  *)
LEMMA TInvStep ==
    ASSUME StartsInTime, TInv, [Next]_vars
    PROVE  TInv'
<1>1. IInv'
  BY IInvStep DEF TInv
<1>2. NoneLate'
  BY PoolAssumption
  DEF TInv, IInv, TypeOK, Alive, NoneLate, Next, vars, ownerVars, OwnerUses, OwnerStops,
      Worker, create_new_worker, queue_to_worker_thread, dismiss_1_worker,
      BeginDismissAll, PostQuit, EnterWait, AcquirePoolLock, SpuriousWakeup, TestEmpty,
      SleepThenReturn, DestroyPool, register_to_pool, FetchJob, FinishJob, DieInJob,
      FetchQuit, RemoveItem, WakeOwner
<1>3. EmptyAtEnd'
  <2>1. CASE TestEmpty
    BY <2>1 DEF TestEmpty, TInv, IInv, TypeOK, Alive, NoneLate, EmptyAtEnd, Registered
  <2>2. CASE ~TestEmpty
    BY <2>2, PoolAssumption
    DEF TInv, IInv, TypeOK, Alive, NoneLate, EmptyAtEnd, Next, vars, ownerVars, OwnerUses,
        OwnerStops, Worker, create_new_worker, queue_to_worker_thread, dismiss_1_worker,
        BeginDismissAll, PostQuit, EnterWait, AcquirePoolLock, SpuriousWakeup,
        SleepThenReturn, DestroyPool, register_to_pool, FetchJob, FinishJob, DieInJob,
        FetchQuit, RemoveItem, WakeOwner
  <2>3. QED
    BY <2>1, <2>2
<1>4. QED
  BY <1>1, <1>2, <1>3 DEF TInv

LEMMA TInvInit == Init => TInv
BY IInvInit DEF Init, TInv, NoneLate, EmptyAtEnd

(* With workers registered in time and a sleep long enough for a last      *)
(* wake(), no worker touches the pool once wait_until_all_workers_gone has *)
(* returned, or after the owner has destroyed it.                          *)
THEOREM PoolOutlives ==
    StartsInTime /\ SleepSuffices => (Spec => []PoolOutlivesWorkers)
<1> SUFFICES ASSUME StartsInTime, SleepSuffices PROVE Spec => []PoolOutlivesWorkers
  OBVIOUS
<1> DEFINE PInv == TInv /\ PoolOutlivesWorkers
<1>1. Init => PInv
  BY TInvInit DEF Init, PoolOutlivesWorkers
<1>2. PInv /\ [Next]_vars => PInv'
  <2> SUFFICES ASSUME PInv, [Next]_vars PROVE PoolOutlivesWorkers'
    BY TInvStep
  <2>1. TInv'
    BY TInvStep
  <2>2. CASE SleepThenReturn
    BY <2>2 DEF SleepThenReturn, PoolOutlivesWorkers, TInv, EmptyAtEnd, Alive
  <2>3. CASE ~SleepThenReturn
    BY <2>1, <2>3
    DEF TInv, IInv, TypeOK, Alive, PoolOutlivesWorkers, EmptyAtEnd, Next, vars, ownerVars,
        OwnerUses, OwnerStops, Worker, create_new_worker, queue_to_worker_thread,
        dismiss_1_worker, BeginDismissAll, PostQuit, EnterWait, AcquirePoolLock, TestEmpty,
        SpuriousWakeup, DestroyPool, register_to_pool, FetchJob, FinishJob, DieInJob,
        FetchQuit, RemoveItem, WakeOwner
  <2>4. QED
    BY <2>2, <2>3
<1>3. QED
  BY <1>1, <1>2, PTL DEF Spec

-----------------------------------------------------------------------------
(* Counting the QuitWorkerMsgs of a queue.                                 *)
QuitAt(q) == {i \in 1 .. Len(q) : q[i] = Quit}
Msgs == Jobs \cup {Quit}

LEMMA QuitAtFinite ==
    ASSUME NEW q \in Seq(Msgs)
    PROVE  IsFiniteSet(QuitAt(q)) /\ Cardinality(QuitAt(q)) \in Nat
<1>1. IsFiniteSet(1 .. Len(q)) /\ QuitAt(q) \in SUBSET (1 .. Len(q))
  BY FS_Interval DEF QuitAt
<1>2. IsFiniteSet(QuitAt(q))
  BY <1>1, FS_Subset
<1>3. QED
  BY <1>2, FS_CardinalityType

(* Appending a QuitWorkerMsg adds one to the count, appending a job none.  *)
LEMMA QuitAtAppend ==
    ASSUME NEW q \in Seq(Msgs), NEW m \in Msgs
    PROVE  Cardinality(QuitAt(Append(q, m))) =
               Cardinality(QuitAt(q)) + (IF m = Quit THEN 1 ELSE 0)
<1>1. QuitAt(Append(q, m)) = IF m = Quit THEN QuitAt(q) \cup {Len(q) + 1} ELSE QuitAt(q)
  BY DEF QuitAt
<1>2. Len(q) + 1 \notin QuitAt(q)
  BY DEF QuitAt
<1>3. IsFiniteSet(QuitAt(q)) /\ Cardinality(QuitAt(q)) \in Nat
  BY QuitAtFinite
<1>4. Cardinality(QuitAt(q) \cup {Len(q) + 1}) = Cardinality(QuitAt(q)) + 1
  BY <1>2, <1>3, FS_AddElement
<1>5. QED
  BY <1>1, <1>3, <1>4

(* Fetching the head takes one from the count if it is a QuitWorkerMsg.    *)
LEMMA QuitAtTail ==
    ASSUME NEW q \in Seq(Msgs), q # <<>>
    PROVE  Cardinality(QuitAt(Tail(q))) =
               Cardinality(QuitAt(q)) - (IF Head(q) = Quit THEN 1 ELSE 0)
<1> DEFINE f == [i \in QuitAt(Tail(q)) |-> i + 1]
           R == QuitAt(q) \ {1}
<1>1. /\ Tail(q) \in Seq(Msgs) /\ Len(q) \in Nat \ {0} /\ Len(Tail(q)) = Len(q) - 1
      /\ \A i \in 1 .. Len(Tail(q)) : Tail(q)[i] = q[i + 1]
  OBVIOUS
<1>2. f \in [QuitAt(Tail(q)) -> R]
  BY <1>1 DEF QuitAt
<1>3. f \in Injection(QuitAt(Tail(q)), R)
  BY <1>1, <1>2 DEF QuitAt, Injection, IsInjective
<1>4. f \in Surjection(QuitAt(Tail(q)), R)
  <2>1. ASSUME NEW k \in R PROVE \E i \in QuitAt(Tail(q)) : f[i] = k
    <3>1. k - 1 \in QuitAt(Tail(q))
      BY <1>1 DEF QuitAt
    <3>2. f[k - 1] = k
      BY <3>1 DEF QuitAt
    <3>3. QED
      BY <3>1, <3>2
  <2>2. QED
    BY <1>2, <2>1 DEF Surjection
<1>5. Cardinality(R) = Cardinality(QuitAt(Tail(q)))
  BY <1>1, <1>3, <1>4, QuitAtFinite, FS_Bijection DEF ExistsBijection, Bijection
<1>6. 1 \in QuitAt(q) <=> Head(q) = Quit
  BY <1>1 DEF QuitAt
<1>7. IsFiniteSet(QuitAt(q)) /\ Cardinality(QuitAt(q)) \in Nat
  BY QuitAtFinite
<1>8. Cardinality(R) = IF 1 \in QuitAt(q) THEN Cardinality(QuitAt(q)) - 1 ELSE Cardinality(QuitAt(q))
  BY <1>7, FS_RemoveElement
<1>9. QED
  BY <1>5, <1>6, <1>7, <1>8

(* dismiss_all_workers posts enough QuitWorkerMsgs: every worker that is   *)
(* still going to fetch finds one, whatever other workers do meanwhile.    *)
THEOREM EnoughQuits == StartsInTime => (Spec => []NoWorkerStranded)
<1> SUFFICES ASSUME StartsInTime PROVE Spec => []NoWorkerStranded
  OBVIOUS
<1>1. Init => NoWorkerStranded
  BY DEF Init, NoWorkerStranded
<1>2. TInv /\ NoWorkerStranded /\ [Next]_vars => NoWorkerStranded'
  <2> SUFFICES ASSUME TInv, NoWorkerStranded, [Next]_vars PROVE NoWorkerStranded'
    OBVIOUS
  <2>1. QuitsQueued = Cardinality(QuitAt(job_q))
    BY DEF QuitsQueued, QuitAt
  <2>2. QuitsQueued' = Cardinality(QuitAt(job_q'))
    BY DEF QuitsQueued, QuitAt
  <2>3. job_q \in Seq(Msgs) /\ toPost \in Nat /\ wpc \in [Workers -> Alive \cup {"absent", "gone"}]
    BY DEF TInv, IInv, TypeOK, Msgs
  <2>4. QuitsQueued \in Nat
    BY <2>1, <2>3, QuitAtFinite
  <2>5. IsFiniteSet(Serving) /\ Cardinality(Serving) \in Nat
    BY PoolAssumption, FS_Subset, FS_CardinalityType DEF Serving
  <2>6. ASSUME Serving' \subseteq Serving
        PROVE  IsFiniteSet(Serving') /\ Cardinality(Serving') \in Nat
               /\ Cardinality(Serving') <= Cardinality(Serving)
    BY <2>5, <2>6, FS_Subset, FS_CardinalityType
  <2> USE DEF NoWorkerStranded
  <2>7. CASE mpc = "serving" /\ mpc' = "serving"
    BY <2>7
  <2>8. CASE BeginDismissAll
    <3>1. Serving \subseteq pool /\ Serving' = Serving
      BY <2>8 DEF BeginDismissAll, TInv, IInv, Registered, Serving
    <3>2. Cardinality(Serving) <= Cardinality(pool) /\ Cardinality(pool) \in Nat
      BY <3>1, PoolAssumption, FS_Subset, FS_CardinalityType DEF TInv, IInv, TypeOK
    <3>3. toPost' = Cardinality(pool) /\ QuitsQueued' = QuitsQueued
      BY <2>8 DEF BeginDismissAll, QuitsQueued
    <3>4. QED
      BY <2>4, <2>5, <3>1, <3>2, <3>3
  <2>9. CASE PostQuit
    <3>1. QuitsQueued' = QuitsQueued + 1
      BY <2>9, <2>1, <2>2, <2>3, QuitAtAppend DEF PostQuit, Msgs
    <3>2. Serving' = Serving /\ toPost' = toPost - 1 /\ mpc = "dismiss"
      BY <2>9 DEF PostQuit, Serving
    <3>3. QED
      BY <2>3, <2>4, <2>5, <3>1, <3>2
  <2>10. ASSUME NEW w \in Workers, mpc # "serving", FetchQuit(w) PROVE NoWorkerStranded'
    <3>1. QuitsQueued' = QuitsQueued - 1
      BY <2>10, <2>1, <2>2, <2>3, QuitAtTail DEF FetchQuit
    <3>2. w \in Serving /\ Serving' = Serving \ {w}
      BY <2>10, <2>3 DEF FetchQuit, Serving
    <3>3. Cardinality(Serving') = Cardinality(Serving) - 1
      BY <2>5, <3>2, FS_RemoveElement
    <3>4. UNCHANGED <<mpc, toPost>>
      BY <2>10 DEF FetchQuit, ownerVars
    <3>5. QED
      BY <2>3, <2>4, <2>5, <2>10, <3>1, <3>3, <3>4
  <2>11. ASSUME NEW w \in Workers, mpc # "serving", FetchJob(w) PROVE NoWorkerStranded'
    <3>1. QuitsQueued' = QuitsQueued
      BY <2>11, <2>1, <2>2, <2>3, <2>4, QuitAtTail DEF FetchJob
    <3>2. Serving' = Serving
      BY <2>11, <2>3 DEF FetchJob, Serving
    <3>3. UNCHANGED <<mpc, toPost>>
      BY <2>11 DEF FetchJob, ownerVars
    <3>4. QED
      BY <2>11, <3>1, <3>2, <3>3
  <2>12. CASE mpc # "serving" /\ UNCHANGED <<job_q, toPost>> /\ Serving' \subseteq Serving
    BY <2>3, <2>4, <2>5, <2>6, <2>12 DEF QuitsQueued
  <2>13. QED
    <3>1. ASSUME NEW w \in Workers, mpc # "serving",
                 register_to_pool(w) \/ FinishJob(w) \/ DieInJob(w) \/ RemoveItem(w) \/ WakeOwner(w)
          PROVE  UNCHANGED <<job_q, toPost>> /\ Serving' \subseteq Serving
      BY <3>1, <2>3
      DEF register_to_pool, FinishJob, DieInJob, RemoveItem, WakeOwner, ownerVars, Serving
    <3>2. ASSUME mpc # "serving",
                 \/ EnterWait \/ AcquirePoolLock \/ TestEmpty \/ SleepThenReturn
                 \/ DestroyPool \/ SpuriousWakeup \/ UNCHANGED vars
          PROVE  UNCHANGED <<job_q, toPost>> /\ Serving' \subseteq Serving
      BY <3>2
      DEF EnterWait, AcquirePoolLock, TestEmpty, SleepThenReturn, DestroyPool,
          SpuriousWakeup, vars, Serving
    <3>3. CASE mpc = "serving"
      <4>1. BeginDismissAll \/ mpc' = "serving"
        BY <3>3
        DEF Next, vars, ownerVars, OwnerUses, OwnerStops, Worker, create_new_worker,
            queue_to_worker_thread, dismiss_1_worker, PostQuit, EnterWait,
            AcquirePoolLock, TestEmpty, SleepThenReturn, DestroyPool, SpuriousWakeup,
            register_to_pool, FetchJob, FinishJob, DieInJob, FetchQuit, RemoveItem,
            WakeOwner
      <4>2. QED
        BY <4>1, <3>3, <2>7, <2>8
    <3>4. CASE mpc # "serving"
      <4>1. ~OwnerUses
        BY <3>4 DEF OwnerUses, create_new_worker, queue_to_worker_thread,
                    dismiss_1_worker, BeginDismissAll
      <4>2. QED
        BY <4>1, <3>4, <3>1, <3>2, <2>9, <2>10, <2>11, <2>12 DEF Next, OwnerStops, Worker
    <3>5. QED
      BY <3>3, <3>4
<1>3. QED
  BY <1>1, <1>2, TInvInit, TInvStep, PTL DEF Spec

-----------------------------------------------------------------------------
(* Where a job is: in the queue, once; or with one busy worker.            *)
InQueue ==
    /\ \A i \in 1 .. Len(job_q) : job_q[i] # Quit => job[job_q[i]] = "queued"
    /\ \A i, k \in 1 .. Len(job_q) : i < k /\ job_q[i] = job_q[k] => job_q[i] = Quit
    /\ \A j \in Jobs : job[j] = "queued" => \E i \in 1 .. Len(job_q) : job_q[i] = j
WithWorker ==
    /\ \A w \in Workers : wpc[w] = "busy" => job[current[w]] = "running"
    /\ \A w, v \in Workers : wpc[w] = "busy" /\ wpc[v] = "busy" /\ w # v => current[w] # current[v]
    /\ \A j \in Jobs : job[j] = "running" => \E w \in Workers : wpc[w] = "busy" /\ current[w] = j

(* Without an early dismissal a QuitWorkerMsg has only QuitWorkerMsgs      *)
(* behind it; so once a worker has taken one, no job is left in the queue. *)
QuitsLast ==
    early = 0 =>
        /\ \A i, k \in 1 .. Len(job_q) : i < k /\ job_q[i] = Quit => job_q[k] = Quit
        /\ mpc = "serving" => \A i \in 1 .. Len(job_q) : job_q[i] # Quit
Left(w) == wpc[w] \in {"leaving", "removed", "gone"}
NoJobBehind ==
    Graceful /\ (\E w \in Workers : Left(w)) =>
        mpc # "serving" /\ \A i \in 1 .. Len(job_q) : job_q[i] = Quit

JInv == InQueue /\ WithWorker /\ QuitsLast /\ NoJobBehind

(* Steps that leave queue and jobs alone, and by which nobody starts or    *)
(* ends a job or leaves the loop.                                          *)
LEMMA BesideKeeps ==
    ASSUME JInv, UNCHANGED <<job_q, job, current, early>>,
           \A w \in Workers : (wpc'[w] = "busy" <=> wpc[w] = "busy") /\ (Left(w)' <=> Left(w)),
           mpc' = "serving" => mpc = "serving"
    PROVE  JInv'
<1>1. InQueue'
  BY DEF JInv, InQueue
<1>2. WithWorker'
  BY DEF JInv, WithWorker
<1>3. QuitsLast'
  BY DEF JInv, QuitsLast
<1>4. NoJobBehind'
  BY DEF JInv, NoJobBehind, Graceful
<1>5. QED
  BY <1>1, <1>2, <1>3, <1>4 DEF JInv

LEMMA QueueingKeeps ==
    ASSUME TypeOK, JInv, NEW j \in Jobs, queue_to_worker_thread(j)
    PROVE  JInv'
<1> DEFINE n == Len(job_q)
<1>1. /\ job_q \in Seq(Msgs) /\ j \in Msgs /\ j # Quit /\ n \in Nat
      /\ job \in [Jobs -> {"new", "queued", "running", "done", "fatal"}]
  BY PoolAssumption DEF TypeOK, Msgs
<1>2. /\ Len(job_q') = n + 1 /\ job_q'[n + 1] = j
      /\ \A i \in 1 .. n : job_q'[i] = job_q[i] /\ i \in 1 .. n + 1 /\ job_q[i] \in Msgs
  BY <1>1 DEF queue_to_worker_thread
<1>3. \A i \in 1 .. n + 1 : i \in 1 .. n \/ i = n + 1
  BY <1>1
<1>4. /\ job[j] = "new" /\ job' = [job EXCEPT ![j] = "queued"] /\ mpc = "serving"
      /\ UNCHANGED <<wpc, current, mpc, early>>
  BY DEF queue_to_worker_thread, ownerVars
<1>5. \A i \in 1 .. n : job_q[i] # j
  BY <1>1, <1>4 DEF JInv, InQueue
<1> HIDE DEF n
<1>6. InQueue'
  <2>1. \A i \in 1 .. n + 1 : job_q'[i] # Quit => job'[job_q'[i]] = "queued"
    BY <1>1, <1>2, <1>3, <1>4 DEF JInv, InQueue, Msgs, n
  <2>2. \A i, k \in 1 .. n + 1 : i < k /\ job_q'[i] = job_q'[k] => job_q'[i] = Quit
    <3> TAKE i, k \in 1 .. n + 1
    <3> HAVE i < k /\ job_q'[i] = job_q'[k]
    <3>1. i \in 1 .. n
      BY <1>1, <1>3
    <3>2. k \in 1 .. n
      BY <3>1, <1>2, <1>3, <1>5
    <3>3. QED
      BY <1>2, <3>1, <3>2 DEF JInv, InQueue, n
  <2>3. \A x \in Jobs : job'[x] = "queued" => \E i \in 1 .. n + 1 : job_q'[i] = x
    <3> TAKE x \in Jobs
    <3> HAVE job'[x] = "queued"
    <3>1. CASE x = j
      BY <3>1, <1>1, <1>2
    <3>2. CASE x # j
      BY <3>2, <1>1, <1>2, <1>4 DEF JInv, InQueue, n
    <3>3. QED
      BY <3>1, <3>2
  <2>4. QED
    BY <1>2, <2>1, <2>2, <2>3 DEF InQueue
<1>7. WithWorker'
  BY <1>1, <1>4 DEF JInv, WithWorker, TypeOK
<1>8. QuitsLast'
  BY <1>1, <1>2, <1>3, <1>4 DEF JInv, QuitsLast, n
<1>9. NoJobBehind'
  <2>1. Graceful' => Graceful
    BY <1>1, <1>4 DEF Graceful
  <2>2. QED
    BY <2>1, <1>4 DEF JInv, NoJobBehind, Left
<1>10. QED
  BY <1>6, <1>7, <1>8, <1>9 DEF JInv

(* dismiss_1_worker and each iteration of dismiss_all_workers.             *)
LEMMA DismissingKeeps ==
    ASSUME TypeOK, JInv, dismiss_1_worker \/ PostQuit
    PROVE  JInv'
<1> DEFINE n == Len(job_q)
<1>1. job_q \in Seq(Msgs) /\ Quit \in Msgs /\ n \in Nat
  BY DEF TypeOK, Msgs
<1>2. /\ Len(job_q') = n + 1 /\ job_q'[n + 1] = Quit
      /\ \A i \in 1 .. n : job_q'[i] = job_q[i] /\ i \in 1 .. n + 1
  BY <1>1 DEF dismiss_1_worker, PostQuit
<1>3. \A i \in 1 .. n + 1 : i \in 1 .. n \/ i = n + 1
  BY <1>1
<1>4. /\ UNCHANGED <<job, wpc, current, mpc>>
      /\ early' = 0 => early = 0 /\ mpc = "dismiss"
  BY DEF dismiss_1_worker, PostQuit, TypeOK
<1> HIDE DEF n
<1>5. InQueue'
  <2>1. \A i \in 1 .. n + 1 : job_q'[i] # Quit => job'[job_q'[i]] = "queued"
    BY <1>2, <1>3, <1>4 DEF JInv, InQueue, n
  <2>2. \A i, k \in 1 .. n + 1 : i < k /\ job_q'[i] = job_q'[k] => job_q'[i] = Quit
    BY <1>1, <1>2, <1>3 DEF JInv, InQueue, n
  <2>3. \A x \in Jobs : job'[x] = "queued" => \E i \in 1 .. n + 1 : job_q'[i] = x
    BY <1>2, <1>4 DEF JInv, InQueue, n
  <2>4. QED
    BY <1>2, <2>1, <2>2, <2>3 DEF InQueue
<1>6. WithWorker'
  BY <1>4 DEF JInv, WithWorker
<1>7. QuitsLast'
  BY <1>1, <1>2, <1>3, <1>4 DEF JInv, QuitsLast, n
<1>8. NoJobBehind'
  BY <1>2, <1>3, <1>4 DEF JInv, NoJobBehind, Left, Graceful, n
<1>9. QED
  BY <1>5, <1>6, <1>7, <1>8 DEF JInv

(* Taking the head of the queue.                                           *)
LEMMA TailOfQueue ==
    ASSUME TypeOK, job_q # <<>>, job_q' = Tail(job_q)
    PROVE  /\ Len(job_q) \in Nat \ {0} /\ Len(job_q') = Len(job_q) - 1
           /\ Head(job_q) = job_q[1] /\ job_q[1] \in Msgs
           /\ \A i \in 1 .. Len(job_q') : i + 1 \in 1 .. Len(job_q) /\ job_q'[i] = job_q[i + 1]
           /\ \A i \in 1 .. Len(job_q) : i # 1 => i - 1 \in 1 .. Len(job_q') /\ job_q'[i - 1] = job_q[i]
<1>1. job_q \in Seq(Msgs)
  BY DEF TypeOK, Msgs
<1>2. QED
  BY <1>1

LEMMA FetchJobKeeps ==
    ASSUME TypeOK, JInv, NEW w \in Workers, FetchJob(w)
    PROVE  JInv'
<1> DEFINE j == job_q[1]
<1>1. /\ Len(job_q) \in Nat \ {0} /\ Len(job_q') = Len(job_q) - 1
      /\ Head(job_q) = j /\ j \in Jobs /\ j # Quit
      /\ \A i \in 1 .. Len(job_q') : i + 1 \in 1 .. Len(job_q) /\ job_q'[i] = job_q[i + 1]
      /\ \A i \in 1 .. Len(job_q) : i # 1 => i - 1 \in 1 .. Len(job_q') /\ job_q'[i - 1] = job_q[i]
  BY TailOfQueue DEF FetchJob, Msgs
<1>2. /\ wpc[w] = "fetch" /\ wpc' = [wpc EXCEPT ![w] = "busy"]
      /\ current' = [current EXCEPT ![w] = j]
      /\ job' = [job EXCEPT ![j] = "running"]
      /\ UNCHANGED <<mpc, early>>
  BY <1>1 DEF FetchJob, ownerVars
<1>3. 1 \in 1 .. Len(job_q) /\ job[j] = "queued"
  BY <1>1 DEF JInv, InQueue
<1>4. \A i \in 1 .. Len(job_q') : job_q'[i] # j
  BY <1>1, <1>3 DEF JInv, InQueue
<1> HIDE DEF j
<1>5. InQueue'
  <2>1. \A i \in 1 .. Len(job_q') : job_q'[i] # Quit => job'[job_q'[i]] = "queued"
    BY <1>1, <1>2, <1>4 DEF JInv, InQueue, TypeOK
  <2>2. \A i, k \in 1 .. Len(job_q') : i < k /\ job_q'[i] = job_q'[k] => job_q'[i] = Quit
    <3> TAKE i, k \in 1 .. Len(job_q')
    <3> HAVE i < k /\ job_q'[i] = job_q'[k]
    <3>1. i + 1 \in 1 .. Len(job_q) /\ k + 1 \in 1 .. Len(job_q) /\ i + 1 < k + 1
          /\ job_q[i + 1] = job_q[k + 1]
      BY <1>1
    <3>2. QED
      BY <3>1, <1>1 DEF JInv, InQueue
  <2>3. \A x \in Jobs : job'[x] = "queued" => \E i \in 1 .. Len(job_q') : job_q'[i] = x
    <3> TAKE x \in Jobs
    <3> HAVE job'[x] = "queued"
    <3>1. x # j /\ job[x] = "queued"
      BY <1>1, <1>2 DEF TypeOK
    <3>2. PICK i \in 1 .. Len(job_q) : job_q[i] = x
      BY <3>1 DEF JInv, InQueue
    <3>3. i # 1
      BY <3>1, <3>2 DEF j
    <3>4. QED
      BY <1>1, <3>2, <3>3
  <2>4. QED
    BY <2>1, <2>2, <2>3 DEF InQueue
<1>6. WithWorker'
  <2>1. \A v \in Workers : wpc[v] = "busy" => v # w /\ current[v] # j /\ current[v] \in Jobs
    BY <1>2, <1>3, PoolAssumption DEF JInv, WithWorker, TypeOK
  <2>2. \A v \in Workers : wpc'[v] = "busy" => job'[current'[v]] = "running"
    BY <2>1, <1>1, <1>2 DEF JInv, WithWorker, TypeOK
  <2>3. \A u, v \in Workers : wpc'[u] = "busy" /\ wpc'[v] = "busy" /\ u # v => current'[u] # current'[v]
    BY <2>1, <1>2 DEF JInv, WithWorker, TypeOK
  <2>4. \A x \in Jobs : job'[x] = "running" => \E v \in Workers : wpc'[v] = "busy" /\ current'[v] = x
    <3> TAKE x \in Jobs
    <3> HAVE job'[x] = "running"
    <3>1. CASE x = j
      BY <3>1, <1>2 DEF TypeOK
    <3>2. CASE x # j
      BY <3>2, <2>1, <1>2 DEF JInv, WithWorker, TypeOK
    <3>3. QED
      BY <3>1, <3>2
  <2>5. QED
    BY <2>2, <2>3, <2>4 DEF WithWorker
<1>7. QuitsLast'
  BY <1>1, <1>2 DEF JInv, QuitsLast
<1>8. NoJobBehind'
  <2>1. Graceful' => Graceful
    BY <1>1, <1>2, <1>3 DEF Graceful, TypeOK
  <2>2. \A v \in Workers : Left(v)' => Left(v)
    BY <1>2 DEF Left, TypeOK
  <2>3. QED
    BY <2>1, <2>2, <1>1, <1>2 DEF JInv, NoJobBehind
<1>9. QED
  BY <1>5, <1>6, <1>7, <1>8 DEF JInv

(* The worker that takes a QuitWorkerMsg leaves only such behind.          *)
LEMMA FetchQuitKeeps ==
    ASSUME TypeOK, JInv, NEW w \in Workers, FetchQuit(w)
    PROVE  JInv'
<1>1. /\ Len(job_q) \in Nat \ {0} /\ Len(job_q') = Len(job_q) - 1
      /\ job_q[1] = Quit
      /\ \A i \in 1 .. Len(job_q') : i + 1 \in 1 .. Len(job_q) /\ job_q'[i] = job_q[i + 1]
      /\ \A i \in 1 .. Len(job_q) : i # 1 => i - 1 \in 1 .. Len(job_q') /\ job_q'[i - 1] = job_q[i]
  BY TailOfQueue DEF FetchQuit
<1>2. /\ wpc[w] = "fetch" /\ wpc' = [wpc EXCEPT ![w] = "leaving"]
      /\ UNCHANGED <<current, job, mpc, early>>
  BY DEF FetchQuit, ownerVars
<1>3. InQueue'
  <2>1. \A i \in 1 .. Len(job_q') : job_q'[i] # Quit => job'[job_q'[i]] = "queued"
    BY <1>1, <1>2 DEF JInv, InQueue
  <2>2. \A i, k \in 1 .. Len(job_q') : i < k /\ job_q'[i] = job_q'[k] => job_q'[i] = Quit
    <3> TAKE i, k \in 1 .. Len(job_q')
    <3> HAVE i < k /\ job_q'[i] = job_q'[k]
    <3>1. i + 1 \in 1 .. Len(job_q) /\ k + 1 \in 1 .. Len(job_q) /\ i + 1 < k + 1
          /\ job_q[i + 1] = job_q[k + 1]
      BY <1>1
    <3>2. QED
      BY <3>1, <1>1 DEF JInv, InQueue
  <2>3. \A x \in Jobs : job'[x] = "queued" => \E i \in 1 .. Len(job_q') : job_q'[i] = x
    <3> TAKE x \in Jobs
    <3> HAVE job'[x] = "queued"
    <3>1. PICK i \in 1 .. Len(job_q) : job_q[i] = x
      BY <1>2 DEF JInv, InQueue
    <3>2. i # 1
      BY <1>1, <3>1, PoolAssumption
    <3>3. QED
      BY <1>1, <3>1, <3>2
  <2>4. QED
    BY <2>1, <2>2, <2>3 DEF InQueue
<1>4. WithWorker'
  BY <1>2 DEF JInv, WithWorker, TypeOK
<1>5. QuitsLast'
  BY <1>1, <1>2 DEF JInv, QuitsLast
<1>6. NoJobBehind'
  <2> SUFFICES ASSUME Graceful' PROVE mpc' # "serving" /\ \A i \in 1 .. Len(job_q') : job_q'[i] = Quit
    BY DEF NoJobBehind
  <2>1. early = 0
    BY <1>2 DEF Graceful
  <2>2. 1 \in 1 .. Len(job_q)
    BY <1>1
  <2>3. mpc' # "serving"
    BY <1>1, <1>2, <2>1, <2>2 DEF JInv, QuitsLast
  <2>4. \A i \in 1 .. Len(job_q') : 1 < i + 1
    BY <1>1
  <2>5. \A i \in 1 .. Len(job_q') : job_q'[i] = Quit
    BY <1>1, <2>1, <2>2, <2>4 DEF JInv, QuitsLast
  <2>6. QED
    BY <2>3, <2>5
<1>7. QED
  BY <1>3, <1>4, <1>5, <1>6 DEF JInv

(* A job that ends leaves its worker alone with the others' jobs.          *)
LEMMA EndingKeeps ==
    ASSUME TypeOK, JInv, NEW w \in Workers, FinishJob(w) \/ DieInJob(w)
    PROVE  JInv'
<1> DEFINE j == current[w]
<1>1. /\ wpc[w] = "busy" /\ j \in Jobs /\ job[j] = "running"
      /\ UNCHANGED <<job_q, mpc, early>>
      /\ current' = [current EXCEPT ![w] = NoJob]
  BY DEF FinishJob, DieInJob, ownerVars, TypeOK, JInv, WithWorker
<1>2. \/ job' = [job EXCEPT ![j] = "done"] /\ wpc' = [wpc EXCEPT ![w] = "fetch"]
      \/ job' = [job EXCEPT ![j] = "fatal"] /\ wpc' = [wpc EXCEPT ![w] = "leaving"]
  BY DEF FinishJob, DieInJob
<1>3. /\ \A x \in Jobs : x # j => job'[x] = job[x]
      /\ job'[j] \in {"done", "fatal"}
      /\ \A v \in Workers : v # w => wpc'[v] = wpc[v] /\ current'[v] = current[v]
      /\ wpc'[w] # "busy"
  BY <1>1, <1>2 DEF TypeOK
<1>4. \A v \in Workers : wpc[v] = "busy" /\ v # w => current[v] # j /\ current[v] \in Jobs
  BY <1>1, PoolAssumption DEF JInv, WithWorker, TypeOK
<1> HIDE DEF j
<1>5. InQueue'
  <2>1. \A i \in 1 .. Len(job_q) : job_q[i] \in Jobs \cup {Quit}
    BY DEF TypeOK
  <2>2. \A i \in 1 .. Len(job_q) : job_q[i] # Quit => job'[job_q[i]] = "queued"
    BY <2>1, <1>1, <1>3 DEF JInv, InQueue
  <2>3. \A x \in Jobs : job'[x] = "queued" => job[x] = "queued"
    BY <1>3
  <2>4. QED
    BY <2>2, <2>3, <1>1 DEF JInv, InQueue
<1>6. WithWorker'
  <2>1. \A v \in Workers : wpc'[v] = "busy" => job'[current'[v]] = "running"
    BY <1>3, <1>4 DEF JInv, WithWorker
  <2>2. \A u, v \in Workers : wpc'[u] = "busy" /\ wpc'[v] = "busy" /\ u # v => current'[u] # current'[v]
    BY <1>3, <1>4 DEF JInv, WithWorker
  <2>3. \A x \in Jobs : job'[x] = "running" => \E v \in Workers : wpc'[v] = "busy" /\ current'[v] = x
    <3> TAKE x \in Jobs
    <3> HAVE job'[x] = "running"
    <3>1. x # j /\ job[x] = "running"
      BY <1>3
    <3>2. PICK v \in Workers : wpc[v] = "busy" /\ current[v] = x
      BY <3>1 DEF JInv, WithWorker
    <3>3. v # w
      BY <3>1, <3>2 DEF j
    <3>4. QED
      BY <1>3, <3>2, <3>3
  <2>4. QED
    BY <2>1, <2>2, <2>3 DEF WithWorker
<1>7. QuitsLast'
  BY <1>1 DEF JInv, QuitsLast
<1>8. NoJobBehind'
  <2> SUFFICES ASSUME Graceful', NEW u \in Workers, Left(u)'
               PROVE  mpc # "serving" /\ \A i \in 1 .. Len(job_q) : job_q[i] = Quit
    BY <1>1 DEF NoJobBehind
  <2>1. Graceful
    BY <1>1, <1>3 DEF Graceful
  <2>2. job'[j] # "fatal"
    BY <1>1 DEF Graceful
  <2>3. wpc'[w] = "fetch"
    BY <1>1, <1>2, <2>2 DEF TypeOK
  <2>4. u # w
    BY <2>3 DEF Left
  <2>5. Left(u)
    BY <1>3, <2>4 DEF Left
  <2>6. QED
    BY <2>1, <2>5 DEF JInv, NoJobBehind
<1>9. QED
  BY <1>5, <1>6, <1>7, <1>8 DEF JInv

LEMMA JInvStep ==
    ASSUME TypeOK, JInv, [Next]_vars
    PROVE  JInv'
<1>1. CASE UNCHANGED vars
  BY <1>1, BesideKeeps DEF vars, Left
<1>2. ASSUME NEW w \in Workers,
             create_new_worker(w) \/ register_to_pool(w) \/ RemoveItem(w) \/ WakeOwner(w)
      PROVE  JInv'
  <2>1. UNCHANGED <<job_q, job, current, early>>
    BY <1>2 DEF create_new_worker, register_to_pool, RemoveItem, WakeOwner, ownerVars
  <2>2. \A v \in Workers : (wpc'[v] = "busy" <=> wpc[v] = "busy") /\ (Left(v)' <=> Left(v))
    BY <1>2 DEF create_new_worker, register_to_pool, RemoveItem, WakeOwner, Left, TypeOK
  <2>3. mpc' = "serving" => mpc = "serving"
    BY <1>2 DEF create_new_worker, register_to_pool, RemoveItem, WakeOwner, ownerVars
  <2>4. QED
    BY <2>1, <2>2, <2>3, BesideKeeps
<1>3. CASE \/ BeginDismissAll \/ EnterWait \/ AcquirePoolLock \/ TestEmpty
           \/ SleepThenReturn \/ DestroyPool \/ SpuriousWakeup
  <2>1. /\ UNCHANGED <<job_q, job, current, early, wpc>>
        /\ mpc' = "serving" => mpc = "serving"
    BY <1>3 DEF BeginDismissAll, EnterWait, AcquirePoolLock, TestEmpty, SleepThenReturn,
                DestroyPool, SpuriousWakeup
  <2>2. QED
    BY <2>1, BesideKeeps DEF Left
<1>4. QED
  BY <1>1, <1>2, <1>3, QueueingKeeps, DismissingKeeps, FetchJobKeeps, FetchQuitKeeps, EndingKeeps
  DEF Next, OwnerUses, OwnerStops, Worker

(* JobsDoneBeforeGone: when the wait has seen the pool empty after a       *)
(* graceful stop, every job queued before has been run to its end.         *)
THEOREM JobsDone == StartsInTime => (Spec => []JobsDoneBeforeGone)
<1> SUFFICES ASSUME StartsInTime PROVE Spec => []JobsDoneBeforeGone
  OBVIOUS
<1>1. Init => TInv /\ JInv
  <2> SUFFICES ASSUME Init PROVE JInv
    BY TInvInit
  <2>1. Len(job_q) = 0
    BY DEF Init
  <2>2. InQueue /\ WithWorker
    BY <2>1 DEF Init, InQueue, WithWorker
  <2>3. QuitsLast /\ NoJobBehind
    BY <2>1 DEF Init, QuitsLast, NoJobBehind, Left
  <2>4. QED
    BY <2>2, <2>3 DEF JInv
<1>2. TInv /\ JInv /\ [Next]_vars => TInv' /\ JInv'
  BY TInvStep, JInvStep DEF TInv, IInv
<1>3. TInv /\ JInv => JobsDoneBeforeGone
  <2> SUFFICES ASSUME TInv, JInv, mpc \in {"linger", "returned", "destroyed"}, Graceful,
                      NEW u \in Workers, wpc[u] # "absent", NEW j \in Jobs
               PROVE  job[j] \in {"new", "done"}
    BY DEF JobsDoneBeforeGone
  <2>1. \A w \in Workers : wpc[w] \in {"absent", "removed", "gone"}
    BY DEF TInv, EmptyAtEnd
  <2>2. Left(u)
    BY <2>1 DEF Left
  <2>3. \A i \in 1 .. Len(job_q) : job_q[i] = Quit
    BY <2>2 DEF JInv, NoJobBehind
  <2>4. job[j] # "queued"
    BY <2>3, PoolAssumption DEF JInv, InQueue
  <2>5. job[j] # "running"
    BY <2>1 DEF JInv, WithWorker
  <2>6. job[j] # "fatal" /\ job[j] \in {"new", "queued", "running", "done", "fatal"}
    BY DEF Graceful, TInv, IInv, TypeOK
  <2>7. QED
    BY <2>4, <2>5, <2>6
<1>4. QED
  BY <1>1, <1>2, <1>3, PTL DEF Spec
=============================================================================
