----------------------------- MODULE DemoSession -----------------------------
(* A session of samples/wt_demo.cpp: a timer makes jobs, the worker of a   *)
(* MsgSwitch numbers them and passes them back to the main thread, which   *)
(* sends them to the server; the connection to the server deletes itself   *)
(* when it ends, asks the loop to exit, and leaves app->client_conn as it  *)
(* is.  The switch is taken for what MsgSwitch shows of it: two queues.    *)
(*                                                                         *)
(* The loop goes in rounds: it collects the events that are ready and runs *)
(* their callbacks one by one; after event_base_loopexit the callbacks of  *)
(* the round still run, then the loop ends.                                *)
(***************************************************************************)
EXTENDS Naturals, Sequences

CONSTANTS MaxTicks     \* bound: jobs made by the timer

VARIABLES
    client_conn,   \* "NULL" (no server was named), "live", "dangling"
    round,         \* callbacks that are still to run in this round
    exiting,       \* event_base_loopexit has been called
    main,          \* "looping", "stopping" (in stop_worker), "joined"
    to_worker,     \* queue of the switch: jobs, and the QuitWorkerMsg
    worker,        \* "idle", "job", "gone"
    seq,           \* DemoApp::seq
    to_main,       \* the inner pipe: numbers of the jobs in it
    ticks,         \* history: jobs made
    sent,          \* history: what was sent to the server
    handled,       \* history: jobs that the main thread has done
    diedNow,       \* history: the connection was deleted in this round
    usedLate       \* history: it was used in a later one

vars == <<client_conn, round, exiting, main, to_worker, worker, seq, to_main,
          ticks, sent, handled, diedNow, usedLate>>

loopVars   == <<round, exiting, main>>
workerVars == <<to_worker, worker, seq>>
history    == <<sent, handled, usedLate>>

Init ==
    /\ client_conn \in {"NULL", "live"}
    /\ round = {} /\ exiting = FALSE /\ main = "looping"
    /\ to_worker = <<>> /\ worker = "idle" /\ seq = 0 /\ to_main = <<>>
    /\ ticks = 0 /\ sent = <<>> /\ handled = 0
    /\ diedNow = FALSE /\ usedLate = FALSE

-----------------------------------------------------------------------------
Ready ==
    (IF ticks < MaxTicks THEN {"timer_cb"} ELSE {})
      \cup (IF to_main # <<>> THEN {"on_readable"} ELSE {})
      \cup (IF client_conn = "live" THEN {"on_conn_event"} ELSE {})

NextRound ==
    /\ main = "looping" /\ round = {} /\ ~exiting
    /\ round' \in SUBSET Ready \ {{}}
    /\ diedNow' = FALSE
    /\ UNCHANGED <<client_conn, exiting, main, workerVars, to_main, ticks, history>>

(* Callbacks of bufferevents are deferred ones: one that is scheduled while*)
(* the callbacks of a round run, by a post of the worker's, runs in it.    *)
JoinsRound ==
    /\ main = "looping" /\ (round # {} \/ exiting)
    /\ \E callback \in Ready \ {"timer_cb"} : round' = round \cup {callback}
    /\ UNCHANGED <<client_conn, exiting, main, workerVars, to_main, ticks, history, diedNow>>

(* Ctrl-C: QuitSignalHandler, and the second it gives the loop.            *)
signal_cb ==
    /\ main = "looping" /\ exiting' = TRUE
    /\ UNCHANGED <<client_conn, round, main, workerVars, to_main, ticks, history, diedNow>>

Runs(callback) ==
    main = "looping" /\ callback \in round /\ round' = round \ {callback}

timer_cb ==
    /\ Runs("timer_cb")
    /\ to_worker' = Append(to_worker, "job") /\ ticks' = ticks + 1
    /\ UNCHANGED <<client_conn, exiting, main, worker, seq, to_main, history, diedNow>>

(* InnerPipe::on_readable: do_in_main_thread of each job in the pipe.      *)
on_readable ==
    /\ Runs("on_readable")
    /\ to_main' = <<>> /\ handled' = handled + Len(to_main)
    /\ sent' = IF client_conn = "live" THEN sent \o to_main ELSE sent
    /\ usedLate' = (usedLate \/ (client_conn = "dangling" /\ to_main # <<>> /\ ~diedNow))
    /\ UNCHANGED <<client_conn, exiting, main, workerVars, ticks, diedNow>>

(* on_conn_event, then post_disconnected.  Mutant: the loop goes on.       *)
DeleteOnly ==
    /\ Runs("on_conn_event")
    /\ client_conn' = "dangling" /\ diedNow' = TRUE
    /\ UNCHANGED <<exiting, main, workerVars, to_main, ticks, history>>
post_disconnected ==
    /\ Runs("on_conn_event")
    /\ client_conn' = "dangling" /\ diedNow' = TRUE
    /\ exiting' = TRUE
    /\ UNCHANGED <<main, workerVars, to_main, ticks, history>>

(* The loop has ended: stop_worker queues a QuitWorkerMsg and joins.       *)
stop_worker ==
    /\ main = "looping" /\ round = {} /\ exiting
    /\ main' = "stopping" /\ to_worker' = Append(to_worker, "quit")
    /\ UNCHANGED <<client_conn, round, exiting, worker, seq, to_main, ticks, history, diedNow>>

Join ==
    /\ main = "stopping" /\ worker = "gone" /\ main' = "joined"
    /\ UNCHANGED <<client_conn, round, exiting, workerVars, to_main, ticks, history, diedNow>>

-----------------------------------------------------------------------------
(* The worker: fetch, and do_in_worker_thread.                             *)
Fetch ==
    /\ worker = "idle" /\ to_worker # <<>>
    /\ worker' = IF Head(to_worker) = "quit" THEN "gone" ELSE "job"
    /\ to_worker' = Tail(to_worker)
    /\ UNCHANGED <<client_conn, loopVars, seq, to_main, ticks, history, diedNow>>

do_in_worker_thread ==
    /\ worker = "job" /\ worker' = "idle"
    /\ seq' = seq + 1 /\ to_main' = Append(to_main, seq)
    /\ UNCHANGED <<client_conn, loopVars, to_worker, ticks, history, diedNow>>

Next ==
    \/ NextRound \/ JoinsRound \/ signal_cb \/ timer_cb \/ on_readable \/ post_disconnected
    \/ stop_worker \/ Join \/ Fetch \/ do_in_worker_thread

Spec == Init /\ [][Next]_vars

-----------------------------------------------------------------------------
(* app->client_conn dangles from the deletion on, and nothing tests it:    *)
(* that jobs still on their way to the main thread do not use the deleted  *)
(* connection is owed to the exit of the loop alone, and holds only from   *)
(* the next round on.                                                      *)
DeadUsedInLastRoundOnly == ~usedLate

(* What the server gets is every number in order, without a gap, through   *)
(* both queues and both threads; and when the worker has been joined the   *)
(* jobs the main thread has not done are those in the pipe, which no one   *)
(* will do.                                                                *)
NumbersInOrder ==
    /\ \A i \in DOMAIN sent : sent[i] = i - 1
    /\ main = "joined" => handled + Len(to_main) = ticks /\ to_worker = <<>>

SessionEndsClean == DeadUsedInLastRoundOnly /\ NumbersInOrder
=============================================================================
