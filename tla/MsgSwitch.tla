------------------------------ MODULE MsgSwitch ------------------------------
(***************************************************************************)
(* MsgSwitch and InnerPipe (CommMan/inner_pipe.h, .cpp) as wt_demo.cpp     *)
(* uses them: the main loop queues jobs to one worker thread, the worker   *)
(* relays each job (or ends it) through a bufferevent pair back to the     *)
(* main loop, and the owner stops the worker after the loop.               *)
(*                                                                         *)
(* Jobs are numbered in the order they are queued; the QuitWorkerMsg comes *)
(* after every job.  job_q is the atomic FIFO that SharedList implements.  *)
(* The pair's two bufferevents share one lock, which libevent holds while  *)
(* it runs the read callback, so a post waits for on_readable to return.   *)
(*                                                                         *)
(* mpc: "init" -> "piped" -> "loop" <-> "drain" (in on_readable) ;         *)
(*      "loop" -> "joining" -> "joined" -> "destroyed" ; "failed"          *)
(***************************************************************************)
EXTENDS Naturals, Sequences

CONSTANTS
    MaxJobs,   \* bound: jobs the timer queues
    RelayJobs, \* jobs whose do_in_worker_thread ends in queue_to_main_thread(this)
    ThrowJobs, \* jobs whose do_in_main_thread throws, but no std::exception
    FatalJobs  \* jobs whose do_in_worker_thread may throw, but no std::exception

ASSUME MsgSwitchAssumption ==
    /\ MaxJobs \in Nat
    /\ RelayJobs \subseteq 1 .. MaxJobs /\ ThrowJobs \subseteq RelayJobs
    /\ FatalJobs \subseteq (1 .. MaxJobs) \ RelayJobs

Jobs == 1 .. MaxJobs
Quit == MaxJobs + 1

VARIABLES
    mpc, wpc,     \* program points of the main thread and of the worker
    posted,       \* jobs created so far
    job_q,        \* the worker's queue
    running,      \* the message do_in_worker_thread has in hand, if any
    pipe,         \* input buffer of the read head: job pointers
    cbPending,    \* the read callback is in the loop's active queue
    pairLock,     \* owner of the pair's lock: "main" in on_readable, else "free"
    handled,      \* history: jobs done in the main thread, in order
    finished,     \* jobs that ended in the worker
    stalled       \* on_readable returned by catch (...) and left jobs behind

vars == <<mpc, wpc, posted, job_q, running, pipe, cbPending, pairLock, handled,
          finished, stalled>>

Init ==
    /\ mpc = "init" /\ wpc = "none"
    /\ posted = 0
    /\ job_q = <<>> /\ running = <<>> /\ pipe = <<>>
    /\ cbPending = FALSE /\ pairLock = "free" /\ stalled = FALSE
    /\ handled = <<>> /\ finished = {}

-----------------------------------------------------------------------------
(* The main thread.                                                        *)

create_inner_pipe ==
    /\ mpc = "init"
    /\ mpc' \in {"piped", "failed"}   \* bufferevent_pair_new may fail
    /\ UNCHANGED <<wpc, pairLock, posted, job_q, running, pipe, cbPending, handled, finished, stalled>>

start_worker ==
    /\ mpc = "piped"
    /\ mpc' = "loop" /\ wpc' = "fetch"
    /\ UNCHANGED <<pairLock, posted, job_q, running, pipe, cbPending, handled, finished, stalled>>

(* A timer callback makes a job and calls queue_to_worker_thread.          *)
TimerQueuesJob ==
    /\ mpc = "loop" /\ posted < MaxJobs
    /\ posted' = posted + 1
    /\ job_q' = Append(job_q, posted + 1)
    /\ UNCHANGED <<mpc, wpc, pairLock, running, pipe, cbPending, handled, finished, stalled>>

(* The loop takes the pair's lock, clears the pending flag and calls       *)
(* on_readable.                                                            *)
RunReadCallback ==
    /\ mpc = "loop" /\ cbPending
    /\ mpc' = "drain"
    /\ cbPending' = FALSE /\ pairLock' = "main"
    /\ UNCHANGED <<wpc, posted, job_q, running, pipe, handled, finished, stalled>>

(* while (msg = fetch_msg()) msg->do_in_main_thread(): one turn.  A        *)
(* std::exception is caught inside the loop.                               *)
HandleJob ==
    /\ mpc = "drain" /\ pipe # <<>> /\ Head(pipe) \notin ThrowJobs
    /\ handled' = Append(handled, Head(pipe))
    /\ pipe' = Tail(pipe)
    /\ UNCHANGED <<mpc, wpc, pairLock, posted, job_q, running, cbPending, finished, stalled>>

(* Any other exception leaves on_readable by its outer handler.  Mutant:   *)
(* that handler empties the buffer.                                        *)
HandlerEmptiesPipe ==
    /\ mpc = "drain" /\ pipe # <<>> /\ Head(pipe) \in ThrowJobs
    /\ handled' = Append(handled, Head(pipe))
    /\ pipe' = <<>>
    /\ mpc' = "loop" /\ pairLock' = "free"
    /\ UNCHANGED <<wpc, posted, job_q, running, cbPending, finished, stalled>>

HandleJobThatThrows ==
    /\ mpc = "drain" /\ pipe # <<>> /\ Head(pipe) \in ThrowJobs
    /\ handled' = Append(handled, Head(pipe))
    /\ pipe' = Tail(pipe)
    /\ stalled' = (Tail(pipe) # <<>>)
    /\ mpc' = "loop" /\ pairLock' = "free"
    /\ UNCHANGED <<wpc, posted, job_q, running, cbPending, finished>>

(* Mutant: `if' in the place of `while', one job per callback.             *)
ReturnAfterOne ==
    /\ mpc = "drain"
    /\ mpc' = "loop" /\ pairLock' = "free"
    /\ stalled' = FALSE
    /\ UNCHANGED <<wpc, posted, job_q, running, pipe, cbPending, handled, finished>>

ReturnFromReadable ==
    /\ mpc = "drain" /\ pipe = <<>>
    /\ mpc' = "loop" /\ pairLock' = "free"
    /\ stalled' = FALSE
    /\ UNCHANGED <<wpc, posted, job_q, running, pipe, cbPending, handled, finished>>

(* The quit signal ends the loop between two callbacks; then stop_worker   *)
(* queues the QuitWorkerMsg and joins.  Mutant: stop_worker called by a    *)
(* job in on_readable.                                                     *)
StopInCallback ==
    /\ mpc = "drain"
    /\ job_q' = Append(job_q, Quit)
    /\ mpc' = "joining"
    /\ UNCHANGED <<wpc, pairLock, posted, running, pipe, cbPending, handled, finished, stalled>>

stop_worker ==
    /\ mpc = "loop"
    /\ job_q' = Append(job_q, Quit)
    /\ mpc' = "joining"
    /\ UNCHANGED <<wpc, pairLock, posted, running, pipe, cbPending, handled, finished, stalled>>

(* wait_thread_quit.  Mutant: no join.                                     *)
NoJoin ==
    /\ mpc = "joining"
    /\ mpc' = "joined"
    /\ UNCHANGED <<wpc, pairLock, posted, job_q, running, pipe, cbPending, handled, finished, stalled>>

JoinWorker ==
    /\ mpc = "joining" /\ wpc \in {"gone", "dead"}
    /\ mpc' = "joined"
    /\ UNCHANGED <<wpc, pairLock, posted, job_q, running, pipe, cbPending, handled, finished, stalled>>

(* ~MsgSwitch releases both heads; jobs still in the pipe are not freed.   *)
DestroySwitch ==
    /\ mpc \in {"joined", "failed"}
    /\ mpc' = "destroyed"
    /\ cbPending' = FALSE
    /\ UNCHANGED <<wpc, pairLock, posted, job_q, running, pipe, handled, finished, stalled>>

-----------------------------------------------------------------------------
(* WorkerThread::thread_main.                                              *)
FetchJob ==
    /\ wpc = "fetch" /\ job_q # <<>> /\ Head(job_q) # Quit
    /\ running' = <<Head(job_q)>>
    /\ job_q' = Tail(job_q)
    /\ wpc' = "run"
    /\ UNCHANGED <<mpc, pairLock, posted, pipe, cbPending, handled, finished, stalled>>

(* The job deletes itself in the worker (or throws, and is logged).        *)
FinishInWorker ==
    /\ wpc = "run" /\ running[1] \notin RelayJobs
    /\ finished' = finished \cup {running[1]}
    /\ running' = <<>>
    /\ wpc' = "fetch"
    /\ UNCHANGED <<mpc, pairLock, posted, job_q, pipe, cbPending, handled, stalled>>

(* Or it throws something else: the handlers outside the loop end the      *)
(* thread, and nobody fetches what is left in the queue.                   *)
DieInWorker ==
    /\ wpc = "run" /\ running[1] \in FatalJobs
    /\ finished' = finished \cup {running[1]}
    /\ running' = <<>>
    /\ wpc' = "dead"
    /\ UNCHANGED <<mpc, pairLock, posted, job_q, pipe, cbPending, handled, stalled>>

(* queue_to_main_thread(this): InnerPipe::post_msg writes the pointer to   *)
(* the write head, libevent moves it to the read head and schedules the    *)
(* read callback.  (Without a bufferevent post_msg drops the job silently; *)
(* start_worker comes after create_inner_pipe.)  Mutants: the callback is  *)
(* not scheduled; the pointer is written twice.                            *)
PostUnscheduled ==
    /\ wpc = "run" /\ running[1] \in RelayJobs /\ pairLock = "free"
    /\ pipe' = Append(pipe, running[1])
    /\ running' = <<>>
    /\ wpc' = "fetch"
    /\ UNCHANGED <<mpc, pairLock, posted, job_q, cbPending, handled, finished, stalled>>

PostTwice ==
    /\ wpc = "run" /\ running[1] \in RelayJobs /\ pairLock = "free"
    /\ pipe' = pipe \o <<running[1], running[1]>>
    /\ cbPending' = TRUE
    /\ running' = <<>>
    /\ wpc' = "fetch"
    /\ UNCHANGED <<mpc, pairLock, posted, job_q, handled, finished, stalled>>

post_msg ==
    /\ wpc = "run" /\ running[1] \in RelayJobs /\ pairLock = "free"
    /\ pipe' = Append(pipe, running[1])
    /\ cbPending' = TRUE
    /\ running' = <<>>
    /\ wpc' = "fetch"
    /\ UNCHANGED <<mpc, pairLock, posted, job_q, handled, finished, stalled>>

(* QuitWorkerMsg throws QuitWorker: the thread ends.                       *)
FetchQuit ==
    /\ wpc = "fetch" /\ job_q # <<>> /\ Head(job_q) = Quit
    /\ job_q' = Tail(job_q)
    /\ wpc' = "gone"
    /\ UNCHANGED <<mpc, pairLock, posted, running, pipe, cbPending, handled, finished, stalled>>

-----------------------------------------------------------------------------
OnReadable == HandleJob \/ HandleJobThatThrows \/ ReturnFromReadable

Main ==
    \/ create_inner_pipe \/ start_worker \/ TimerQueuesJob
    \/ RunReadCallback \/ OnReadable
    \/ stop_worker \/ JoinWorker \/ DestroySwitch

Worker == FetchJob \/ FinishInWorker \/ DieInWorker \/ post_msg \/ FetchQuit

Next == Main \/ Worker

Spec == Init /\ [][Next]_vars

(* The worker runs when it can; the loop runs the callbacks it has         *)
(* scheduled, on_readable and the join return when they can.  Nothing      *)
(* forces a timer, a signal or the start of the program.                   *)
FairSpec ==
    /\ Spec
    /\ WF_vars(Worker)
    /\ WF_vars(RunReadCallback) /\ WF_vars(OnReadable) /\ WF_vars(JoinWorker)

-----------------------------------------------------------------------------
TypeOK ==
    /\ mpc \in {"init", "piped", "loop", "drain", "joining", "joined", "destroyed", "failed"}
    /\ wpc \in {"none", "fetch", "run", "gone", "dead"}
    /\ mpc \in {"init", "piped", "failed"} => wpc = "none"
    /\ pairLock \in {"free", "main"}
    /\ cbPending \in BOOLEAN /\ stalled \in BOOLEAN
    /\ posted \in 0 .. MaxJobs
    /\ job_q \in Seq(Jobs \cup {Quit})
    /\ running \in Seq(Jobs) /\ Len(running) = (IF wpc = "run" THEN 1 ELSE 0)
    /\ pipe \in Seq(Jobs) /\ handled \in Seq(Jobs)
    /\ finished \subseteq Jobs

(* Read from the oldest to the youngest, the jobs the main thread has      *)
(* handled, those in the pipe, the one in the worker's hands and those in  *)
(* its queue are in the order they were queued: results reach the main     *)
(* thread in order, and no job is in two places (none is freed twice).     *)
Trail == handled \o pipe \o running \o job_q
Increasing(s) == \A i, k \in 1 .. Len(s) : i < k => s[i] < s[k]
ResultsInOrder == Increasing(Trail)

(* No job is lost on the way, whatever the exceptions: each job made is in *)
(* exactly one place or has ended in exactly one thread.                   *)
OnTrail == {Trail[i] : i \in 1 .. Len(Trail)}
EveryJobAccounted ==
    /\ (OnTrail \ {Quit}) \cup finished = 1 .. posted
    /\ OnTrail \cap finished = {}

(* Unless a handler threw past on_readable, jobs in the pipe have a read   *)
(* callback coming: between the check of an empty pipe and the return, and *)
(* whenever the worker posts, no job is left without one.                  *)
NoJobWithoutCallback ==
    mpc \in {"loop", "joining", "joined"} /\ pipe # <<>> => cbPending \/ stalled

(* stop_worker returns only when the worker has run every job queued       *)
(* before it, unless one of them killed it, and no job is posted to a pipe *)
(* that is being destroyed.                                                *)
StoppedMeansDrained ==
    mpc \in {"joined", "destroyed"} =>
        /\ wpc \in {"none", "gone", "dead"} /\ running = <<>>
        /\ wpc # "dead" => job_q = <<>>

(* While the loop runs and the worker lives, every job ends: in the worker *)
(* or in the main thread.                                                  *)
Ended(j) == j \in finished \/ \E i \in 1 .. Len(handled) : handled[i] = j
EveryJobEnds ==
    \A j \in Jobs :
        posted >= j ~> (Ended(j) \/ stalled \/ wpc = "dead" \/ mpc \notin {"loop", "drain"})

(* stop_worker returns: the QuitWorkerMsg gets through whatever the worker *)
(* is doing, and no lock is held that the worker needs to finish.          *)
WorkerStops == mpc = "joining" ~> mpc = "joined"
=============================================================================
