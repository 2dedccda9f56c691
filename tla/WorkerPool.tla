----------------------------- MODULE WorkerPool -----------------------------
(***************************************************************************)
(* WorkerThreadPool and PooledWorkerThread (CommMan/inner_pipe.cpp): the   *)
(* life of detached worker threads from create_new_worker to               *)
(* wait_until_all_workers_gone, and the owner that then destroys the pool. *)
(* job_q is the atomic FIFO that SharedList implements.                    *)
(*                                                                         *)
(* wpc[w]: "absent"  not created      "started"  created, not registered   *)
(*         "fetch"   in shared_fetch_head        "busy"  running a job     *)
(*         "leaving" out of the loop, in the pool                          *)
(*         "removed" deleted from the pool, about to wake its owner        *)
(*         "gone"    thread_main has returned                              *)
(* mpc:    "serving" -> "dismiss" -> "wait" <-> "test" / "blocked"         *)
(*         -> "linger" (sleep(1)) -> "returned" -> "destroyed"             *)
(***************************************************************************)
EXTENDS Naturals, Sequences, FiniteSets

CONSTANTS
    Workers,        \* threads the owner may create
    Jobs,           \* messages the owner may queue
    Quit,           \* a QuitWorkerMsg
    NoJob,
    MaxEarlyQuits,  \* bound: calls of dismiss_1_worker before dismiss_all_workers
    StartsInTime,   \* the owner calls dismiss_all_workers once all workers have registered
    SleepSuffices   \* a worker returns from its last wake() within the owner's sleep(1)

ASSUME PoolAssumption ==
    /\ IsFiniteSet(Workers)
    /\ Quit \notin Jobs /\ NoJob \notin Jobs /\ Quit # NoJob
    /\ MaxEarlyQuits \in Nat
    /\ StartsInTime \in BOOLEAN /\ SleepSuffices \in BOOLEAN

VARIABLES
    job_q,    \* the shared queue: jobs and QuitWorkerMsgs
    job,      \* job[j]: "new", "queued", "running", "done", or "fatal" (killed its worker)
    pool,     \* the map of registered workers (SharedPtrMan)
    wpc, current,   \* each worker's program point, and the message it runs
    mpc,      \* the owner's program point
    toPost,   \* dismiss_all_workers: iterations left
    early     \* calls of dismiss_1_worker so far

vars == <<job_q, job, pool, wpc, current, mpc, toPost, early>>
ownerVars == <<mpc, toPost, early>>

Alive == {"started", "fetch", "busy", "leaving", "removed"}

(* The owner holds the pool's lock in the while test and through sleep(1); *)
(* the workers hold it only within one step.                               *)
LockFree == mpc \notin {"test", "linger"}

Init ==
    /\ job_q = <<>>
    /\ job = [j \in Jobs |-> "new"]
    /\ pool = {}
    /\ wpc = [w \in Workers |-> "absent"]
    /\ current = [w \in Workers |-> NoJob]
    /\ mpc = "serving" /\ toPost = 0 /\ early = 0

-----------------------------------------------------------------------------
(* The owner, usually the main thread.                                     *)

create_new_worker(w) ==
    /\ mpc = "serving" /\ wpc[w] = "absent"
    /\ wpc' = [wpc EXCEPT ![w] = "started"]
    /\ UNCHANGED <<job_q, job, pool, current, ownerVars>>

queue_to_worker_thread(j) ==
    /\ mpc = "serving" /\ job[j] = "new"
    /\ job' = [job EXCEPT ![j] = "queued"]
    /\ job_q' = Append(job_q, j)
    /\ UNCHANGED <<pool, wpc, current, ownerVars>>

dismiss_1_worker ==
    /\ mpc = "serving" /\ early < MaxEarlyQuits
    /\ early' = early + 1
    /\ job_q' = Append(job_q, Quit)
    /\ UNCHANGED <<job, pool, wpc, current, mpc, toPost>>

(* dismiss_all_workers reads size() without the lock, then posts that many *)
(* QuitWorkerMsgs.  Mutant: one too few.                                   *)
BeginDismissAllButOne ==
    /\ mpc = "serving"
    /\ StartsInTime => \A w \in Workers : wpc[w] # "started"
    /\ toPost' = Cardinality(pool) - 1
    /\ mpc' = "dismiss"
    /\ UNCHANGED <<job_q, job, pool, wpc, current, early>>

BeginDismissAll ==
    /\ mpc = "serving"
    /\ StartsInTime => \A w \in Workers : wpc[w] # "started"
    /\ toPost' = Cardinality(pool)
    /\ mpc' = "dismiss"
    /\ UNCHANGED <<job_q, job, pool, wpc, current, early>>

(* Mutant: the QuitWorkerMsg overtakes the jobs.                           *)
PostQuitFirst ==
    /\ mpc = "dismiss" /\ toPost > 0
    /\ job_q' = <<Quit>> \o job_q
    /\ toPost' = toPost - 1
    /\ UNCHANGED <<job, pool, wpc, current, mpc, early>>

PostQuit ==
    /\ mpc = "dismiss" /\ toPost > 0
    /\ job_q' = Append(job_q, Quit)
    /\ toPost' = toPost - 1
    /\ UNCHANGED <<job, pool, wpc, current, mpc, early>>

EnterWait ==
    /\ mpc = "dismiss" /\ toPost = 0
    /\ mpc' = "wait"
    /\ UNCHANGED <<job_q, job, pool, wpc, current, toPost, early>>

AcquirePoolLock ==
    /\ mpc = "wait"
    /\ mpc' = "test"
    /\ UNCHANGED <<job_q, job, pool, wpc, current, toPost, early>>

(* Mutant: leave the loop when one worker is left.                         *)
TestLastWorker ==
    /\ mpc = "test"
    /\ \/ Cardinality(pool) > 1 /\ mpc' = "blocked"
       \/ Cardinality(pool) <= 1 /\ mpc' = "linger"
    /\ UNCHANGED <<job_q, job, pool, wpc, current, toPost, early>>

TestEmpty ==
    /\ mpc = "test"
    /\ \/ pool # {} /\ mpc' = "blocked"
       \/ pool = {} /\ mpc' = "linger"
    /\ UNCHANGED <<job_q, job, pool, wpc, current, toPost, early>>

(* sleep(1), with the lock still held, then the return that unlocks.       *)
SleepThenReturn ==
    /\ mpc = "linger"
    /\ SleepSuffices => \A w \in Workers : wpc[w] # "removed"
    /\ mpc' = "returned"
    /\ UNCHANGED <<job_q, job, pool, wpc, current, toPost, early>>

(* ~SharedPtrMan deletes the workers still registered.                     *)
DestroyPool ==
    /\ mpc = "returned"
    /\ mpc' = "destroyed"
    /\ pool' = {}
    /\ UNCHANGED <<job_q, job, wpc, current, toPost, early>>

-----------------------------------------------------------------------------
(* PooledWorkerThread::thread_main.                                        *)

register_to_pool(w) ==
    /\ wpc[w] = "started" /\ LockFree
    /\ pool' = pool \cup {w}
    /\ wpc' = [wpc EXCEPT ![w] = "fetch"]
    /\ UNCHANGED <<job_q, job, current, ownerVars>>

FetchJob(w) ==
    /\ wpc[w] = "fetch" /\ job_q # <<>> /\ Head(job_q) # Quit
    /\ current' = [current EXCEPT ![w] = Head(job_q)]
    /\ job' = [job EXCEPT ![Head(job_q)] = "running"]
    /\ job_q' = Tail(job_q)
    /\ wpc' = [wpc EXCEPT ![w] = "busy"]
    /\ UNCHANGED <<pool, ownerVars>>

(* do_in_worker_thread returns, or throws a std::exception, which is       *)
(* logged: the loop goes on either way.                                    *)
FinishJob(w) ==
    /\ wpc[w] = "busy"
    /\ job' = [job EXCEPT ![current[w]] = "done"]
    /\ current' = [current EXCEPT ![w] = NoJob]
    /\ wpc' = [wpc EXCEPT ![w] = "fetch"]
    /\ UNCHANGED <<job_q, pool, ownerVars>>

(* It throws something else: catch (...) outside the loop ends the thread. *)
DieInJob(w) ==
    /\ wpc[w] = "busy"
    /\ job' = [job EXCEPT ![current[w]] = "fatal"]
    /\ current' = [current EXCEPT ![w] = NoJob]
    /\ wpc' = [wpc EXCEPT ![w] = "leaving"]
    /\ UNCHANGED <<job_q, pool, ownerVars>>

(* QuitWorkerMsg::do_in_worker_thread throws QuitWorker past the inner     *)
(* handler.                                                                *)
FetchQuit(w) ==
    /\ wpc[w] = "fetch" /\ job_q # <<>> /\ Head(job_q) = Quit
    /\ job_q' = Tail(job_q)
    /\ wpc' = [wpc EXCEPT ![w] = "leaving"]
    /\ UNCHANGED <<job, pool, current, ownerVars>>

(* unregister_from_poll: remove_item deletes the worker under the lock;    *)
(* the wake() on the pool's lock comes after, without it.                  *)
RemoveItem(w) ==
    /\ wpc[w] = "leaving" /\ LockFree
    /\ pool' = pool \ {w}
    /\ wpc' = [wpc EXCEPT ![w] = "removed"]
    /\ UNCHANGED <<job_q, job, current, ownerVars>>

(* Mutant: no wake().                                                      *)
WakeNobody(w) ==
    /\ wpc[w] = "removed"
    /\ wpc' = [wpc EXCEPT ![w] = "gone"]
    /\ UNCHANGED <<job_q, job, pool, current, ownerVars>>

WakeOwner(w) ==
    /\ wpc[w] = "removed"
    /\ wpc' = [wpc EXCEPT ![w] = "gone"]
    /\ mpc' = IF mpc = "blocked" THEN "wait" ELSE mpc
    /\ UNCHANGED <<job_q, job, pool, current, toPost, early>>

-----------------------------------------------------------------------------
OwnerUses ==
    \/ \E w \in Workers : create_new_worker(w)
    \/ \E j \in Jobs : queue_to_worker_thread(j)
    \/ dismiss_1_worker
    \/ BeginDismissAll

OwnerStops == PostQuit \/ EnterWait \/ AcquirePoolLock \/ TestEmpty \/ SleepThenReturn

(* The condition variable may also wake the owner spuriously.              *)
SpuriousWakeup ==
    /\ mpc = "blocked" /\ mpc' = "wait"
    /\ UNCHANGED <<job_q, job, pool, wpc, current, toPost, early>>

Worker(w) ==
    \/ register_to_pool(w)
    \/ FetchJob(w) \/ FinishJob(w) \/ DieInJob(w) \/ FetchQuit(w)
    \/ RemoveItem(w) \/ WakeOwner(w)

Next ==
    \/ OwnerUses \/ OwnerStops \/ DestroyPool \/ SpuriousWakeup
    \/ \E w \in Workers : Worker(w)

Spec == Init /\ [][Next]_vars

(* Threads that can run do run, and jobs end.  The owner need not create,  *)
(* queue or dismiss anything, but the calls it has begun go on.  Strong    *)
(* fairness only where a spuriously woken owner may take and release the   *)
(* pool's lock again and again: the mutex does not starve a worker.        *)
FairSpec ==
    /\ Spec
    /\ WF_vars(OwnerStops)
    /\ \A w \in Workers : WF_vars(Worker(w)) /\ SF_vars(RemoveItem(w))

-----------------------------------------------------------------------------
TypeOK ==
    /\ job_q \in Seq(Jobs \cup {Quit})
    /\ job \in [Jobs -> {"new", "queued", "running", "done", "fatal"}]
    /\ pool \subseteq Workers
    /\ wpc \in [Workers -> Alive \cup {"absent", "gone"}]
    /\ current \in [Workers -> Jobs \cup {NoJob}]
    /\ \A w \in Workers : wpc[w] = "busy" <=> current[w] # NoJob
    /\ mpc \in {"serving", "dismiss", "wait", "blocked", "test", "linger",
                "returned", "destroyed"}
    /\ toPost \in Nat
    /\ early \in 0 .. MaxEarlyQuits

(* Every worker that is still going to fetch has a QuitWorkerMsg for it,   *)
(* in the queue or about to be posted: dismiss_all_workers counted enough, *)
(* although it counts without the lock while workers leave.                *)
QuitsQueued == Cardinality({i \in 1 .. Len(job_q) : job_q[i] = Quit})
Serving     == {w \in Workers : wpc[w] \in {"started", "fetch", "busy"}}
NoWorkerStranded == mpc # "serving" => Cardinality(Serving) <= QuitsQueued + toPost

(* A blocked owner is owed a wakeup: a worker is still registered, or one  *)
(* is between remove_item and wake().  So the wake() outside the lock is   *)
(* never lost.                                                             *)
OwnerIsOwedAWake == mpc = "blocked" => pool # {} \/ \E w \in Workers : wpc[w] = "removed"

(* No worker touches the pool, its queue or its lock after the owner has   *)
(* destroyed them.                                                         *)
PoolOutlivesWorkers ==
    mpc \in {"returned", "destroyed"} => \A w \in Workers : wpc[w] \notin Alive

(* wait_until_all_workers_gone ends a graceful stop: with workers to run   *)
(* them, no early dismissal and no job that killed its worker, all jobs    *)
(* queued before have been run to their end.                               *)
Graceful == early = 0 /\ \A j \in Jobs : job[j] # "fatal"
JobsDoneBeforeGone ==
    /\ mpc \in {"linger", "returned", "destroyed"}
    /\ Graceful
    /\ \E w \in Workers : wpc[w] # "absent"
    => \A j \in Jobs : job[j] \in {"new", "done"}

(* wait_until_all_workers_gone returns.                                    *)
WaitReturns == mpc = "wait" ~> mpc = "returned"

(* The comment in wait_until_all_workers_gone: the sleep stands for the    *)
(* joins that are left out, so when it returns every worker has ended.     *)
GoneMeansGone == mpc = "returned" => \A w \in Workers : wpc[w] \in {"absent", "gone"}
=============================================================================
