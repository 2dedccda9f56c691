# A TLA+ verification of tevpp

tevpp (`src/`) is a small C++ layer over libevent ("thinking libevent in C++"):
connections, listeners and timers as objects with virtual callbacks, a manager
of connections, a framed JSON protocol, and a way to hand jobs from the event
loop to worker threads and back. The hard part of it is not in any one class. It
is where the loop's thread meets other threads (queue, pipe, pool, a connection
shared by several senders) and where an object ends while something still
refers to it. That is what is modelled first; then the code every message goes
through (jsoncpp, which the repository carries with it), and the handles, texts
and dates the rest is made of.

- [1. Inventory](#1-inventory)
- [2. The modules and how they correspond to the code](#2-the-modules-and-how-they-correspond-to-the-code)
- [3. The runs](#3-the-runs)
- [4. Fairness](#4-fairness)
- [5. What is proved](#5-what-is-proved)
- [6. Where code and comments disagree](#6-where-code-and-comments-disagree)
- [7. What is not modelled](#7-what-is-not-modelled)
- [8. Plan](#8-plan)

## 1. Inventory

| component | source | state | operations |
|---|---|---|---|
| SharedList, SimpleConditionVar, AutoLocker | `thread_utils.h` | a `std::list`, one mutex, one condition variable | `shared_append_one`, `shared_fetch_head`, `shared_fetch_all`, `wait`, `wake` |
| OnOffSwitch | `thread_utils.h` | a flag, mutex and condition variable | `turn_on/off`, `wait_until_on`, `timed_wait_until_on`, `wait_then_turn_off` |
| SharedPtrMan | `thread_utils.h` | a map of owned pointers and its lock | `get_item`, `add_new_item`, `add_or_replace_item`, `remove_item`, destructor |
| BaseThread | `thread_utils.cpp` | a thread handle | `create_thread`, `wait_thread_quit` |
| InnerPipe, WorkerThread, MsgSwitch | `inner_pipe.*` | job queue, bufferevent pair that carries job pointers, worker | `queue_to_worker_thread`, `queue_to_main_thread`, `on_readable`, `start_worker`, `stop_worker` |
| WorkerThreadPool, PooledWorkerThread, PooledMsgSwitch | `inner_pipe.*` | job queue shared by detached workers, map of registered workers | `create_new_worker`, `dismiss_1_worker`, `dismiss_all_workers`, `wait_until_all_workers_gone` |
| BaseConnection | `connections.*` | a bufferevent | `take_socket`, `take_bev`, `connect_*`, `queue_to_send`, `on_conn_event`, `release_bev` |
| OuterPipe | `connections.h` | `managed`, `pipe_id`, relay table, pending tokens | `reg_pipe_line`, `find_dest_pipe`, `wait_4_response`, `release_self` |
| OuterPipeMan | `connections.*` | the managed connections, `next_pipe_id` | `register_connection`, `unregister_connection`, `timer_cb` (heartbeat), lookups |
| SingletonOutgoingConnGuard | `connections.h` | peer address, tick counter | `timer_cb`: reconnect unless a connection of the type is registered |
| JMsgConnection, NakedJsonConnection | `jmsg_connection.*` | input and output buffers, `disconnect_if_all_sent` | `fetch_msg`, `process_then_free_msg`, `send_msg`, `send_error_msg*`, `on_readable`, `on_writable` |
| event loop, timers, signals, listeners, UDP, HTTP | `EventLoop.h`, `timers.*`, `signals.*`, `listeners.*`, `simple_http_server.*` | one libevent handle each, `sock_fd` | `start_timer`, `start_handle_signal`, `start_listen_*`, `bind_udp`, `start_server` and what frees the handle |
| utilities, CString | `utils.*`, `CStringWrapper.h` | none | `date_add_ym`, `shell_cmd_no_wait`, `dir_from_file_path`, splitting, replacing and escaping of texts |
| jsoncpp | `json/` | `Json::Value`, the readers' and writers' cursors | `parse`, `write`, the conversions, `operator[]`, `resize`, `removeIndex` |
| samples | `samples/` | applications | `wt_demo` (one worker), `wt_demo2` (pool), a chat, an HTTP board, ... |

How they interact:

    loop thread --queue_to_worker_thread--> SharedList --shared_fetch_head--> worker(s)
        ^                                                                       |
        +---- on_readable <-- bufferevent pair (InnerPipe) <--post_msg----------+

    loop thread, workers --send_msg--> one bufferevent's output --flush--> peer
                                         |  write callback, on_writable
                                         +--> release_self --> OuterPipeMan (SharedPtrMan)

Callbacks of one bufferevent run in the loop's thread, one at a time and with
the bufferevent's recursive lock held (`BEV_OPT_THREADSAFE`; the two sides of a
pair share one lock). Connections are created with `BEV_OPT_DEFER_CALLBACKS`, so
a callback runs some time after what caused it.

What is hard, and the property a component is correct by:

- *SharedList*: a signal that nobody gets or that a newcomer overtakes, spurious
  returns of `pthread_cond_wait`, two kinds of fetch. It must be a FIFO that
  never reads `front()` of an empty list and never sleeps over a value.
- *Pool*: workers are detached, so the owner has no join. It reads the number of
  workers without the lock, and a worker's last `wake()` comes after it has left the
  map. Nobody may be left asleep, and nobody may use a pool that is gone.
- *MsgSwitch*: job pointers pass four owners and the last one frees them.
  Handlers throw, the worker may be killed by a job, the owner stops at any
  moment. Order, no loss, no duplicate, a callback for every posted job, a stop that ends.
- *Sending*: several threads write frames of two parts to one buffer, and one
  of them may end the connection. Frames stay whole, a farewell leaves before
  its connection does, nobody writes to a connection that is gone.
- *Receiving*: the stream comes in pieces of any size, and `on_readable` has four
  ways out. The framing is never lost, each message is processed once and in
  order, and a complete message never waits for more data but where the code gives up.
- *Manager and guard*: a connection has several ways to end, by its own event, by
  the heartbeat, by the manager's destructor, and others remember its id. The map and the
  objects must agree, an answer must not reach whoever has the id now, and the
  guard must reconnect.
- *OnOffSwitch*: `turn_on` wakes everybody, `turn_off` wakes one for nothing, and
  a wait may take what it waited for. Nobody may sleep while the switch is on, and
  a `turn_on` may be taken once.
- *Handles*: an object holds what libevent gave it, libevent calls back with a pointer to the
  object, some callbacks are queued, each call that makes a handle may
  fail half-way, and may be made twice. Nothing may call an object that is gone; nothing leaks but
  what the code leaks, and each leak has its place.
- *NakedJsonConnection*: the stream has no frames. What it makes of a piece is to be a
  message that was sent, at most once and in order, and the pieces in which it is
  something else must be known.
- *jsoncpp*: two readers that are copies of each other, five writers of which three are copies,
  comments that are attached to the value before or behind them. What is written must
  come back, what is accepted must be JSON.
- *wt_demo, double fork*: the connection that deletes itself while jobs are on their way to
  it; a process tree that leaves no zombie.

The list of hazards, each at its line with the properties that watch it, is in
`PROJECT.json`.

## 2. The modules and how they correspond to the code

Names of actions are those of the C++ functions where one action is one
function. Where a function is split, it is split at the points where
another thread can act. An operator that a comment calls a *mutant* is not part
of any next-state relation: it is the same action with a plausible bug, and
is used to see that a property notices it.

Two modules only gather others: `Monitors` the two monitors of `thread_utils.h`,
`Parts` the components that share no state with any other and can be proved about. The MC
modules extend them, and so do the modules of proofs, so that a theorem and a run speak of
the same definition. `MCParts` adds the parts whose operators are recursive.

### `JobFifo`, `SharedList` (`thread_utils.h` 251-449)

`SharedList` has one action per pthread call: `AcquireLock` and
`ReleaseLock` are `AutoLocker`, `PushBack` and `Wake` the two lines of
`shared_append_one`, `TestNotEmpty`/`CondWait` the `while (empty()) wait()` of
both fetches, `PopFront` and `SpliceAll` their tails. `holder` is the mutex, `pc`
where each thread is, `list` the `std::list`. `pthread_cond_signal` moves one
waiter (any) back to the mutex and nobody if there is none. `pthread_cond_wait`
may also return without a signal. `appended` and `taken` are histories.

`JobFifo` is the abstract queue (put at the tail, get the head, get everything).
`ImplementsFifo` says that the monitor refines it, with `queue <- list`.
`MsgSwitch` and `WorkerPool` then use an atomic queue.

### `OnOffSwitch` (`thread_utils.h` 451-525)

In the same style, a step for each pthread call. `SetFlag` and `Wake` are the two
lines of `turn_on` and `turn_off`, `CondWait`/`SeeOn` the loop of the three waits, `TakeIt` the
assignment of `wait_then_turn_off`. `TimeOut` is `pthread_cond_timedwait` giving
up, which it may do at once (its deadline is in whole seconds): the thread takes
the mutex and returns without another look at the flag.

### `WorkerPool` (`inner_pipe.cpp` 179-299, `thread_utils.h` 528-613)

One owner and detached workers. `dismiss_all_workers` is `BeginDismissAll` (the
unlocked `size()`) and one `PostQuit` per iteration;
`wait_until_all_workers_gone` is `EnterWait`, `AcquirePoolLock`, `TestEmpty` and
`SleepThenReturn`; the owner holds the pool's lock from the test to the end of
`sleep(1)` (`LockFree`). `unregister_from_poll` is `RemoveItem` under the lock and
`WakeOwner` after it. A job ends normally or with a `std::exception`
(`FinishJob`), or with something else, which ends its worker (`DieInJob`).

Two constants stand for what the code leaves to time. `StartsInTime`: the
owner starts to stop only once its workers have registered (a worker registers in
the first microseconds of its life, the samples stop on ctrl-C). `SleepSuffices`:
a worker comes from `remove_item` to the end of `wake()` within the owner's
`sleep(1)`. Each theorem and run says which of the two it needs.

### `MsgSwitch` (`inner_pipe.*`, driven as in `wt_demo.cpp`)

The main thread creates the pipe, starts the worker, runs the loop, stops the
worker and destroys the switch. A timer callback queues jobs, numbered in order.
The worker fetches them; a job relays itself to the main thread (`post_msg`), ends in
the worker (`FinishInWorker`), or kills it (`DieInWorker`). The read callback is
`RunReadCallback` (the loop takes the lock of the pair and clears the pending
flag), one `HandleJob` per turn of the `while`, and `ReturnFromReadable`. A
handler that throws anything but a `std::exception` leaves through the outer
`catch` (`HandleJobThatThrows`). External: libevent schedules the read callback when
the write head is written to. A post needs the lock of the pair, which
`on_readable` holds while it runs: the model has it in `pairLock`.

### `JMsgSend` (`jmsg_connection.cpp` 159-293, `connections.cpp` 14-33, 268-301, 363-375)

One connection, the loop's thread and other threads. A message is `Header(m)` and
`Body(m)`, written by `WriteHead` and `WriteBody`. Only a trace build holds the
lock between them (`TRACE_JMSG`, a constant of the module as it is of the file).
`send_error_msg_then_disconn` is `mark_exiting` and then a send;
`send_error_msg_then_bye` a send and `ThrowBye`, the handler in `on_readable` that
deletes the connection. `Flush` is the loop writing any part of the output
buffer to the socket and scheduling the (deferred) write callback when the buffer
gets empty; `on_writable` is that callback; `PeerGone` is `on_conn_event`.
`Release` is `release_self` down to `bufferevent_free`, which drops what is left.
`TouchDead` is a thread that still has the pointer and goes on to write.

### `JMsgReceive` (`jmsg_connection.cpp` 5-117, 248-279, `connections.cpp` 14-39, 268-301)

The peer's stream is a sequence of frames: where each starts, the data size its
header announces, and what its data is. `arrived` and `consumed` are positions
in it, counted in bytes: what the loop has put into the input buffer and
what `fetch_msg` has taken out. `RunReadCallback` enters `on_readable`, which then
makes one action per turn of its `while`: `HandleMsg` (a message, processed),
`HandleUnparsable` (an error goes back and the connection is deleted),
`HandleMsgThatThrows` (any other exception: logged, `on_readable` returns),
`FetchBadSize`, `AllocFails` (drained, NULL ends the loop), `FetchNothing`. A
`"Command"` that is no string is one way to throw: `asString` of an object does.
External: bytes arrive in any pieces, each schedules the read callback;
the end of the stream schedules the event callback, and libevent runs a
deferred read callback before a deferred event callback. `stalled` remembers that
`on_readable` returned with a complete message still in the buffer.

### `ConnManager` (`connections.*`, `thread_utils.h` 528-613, driven as in `echo_to_all.cpp`)

An element of `Clients` or `Backends` is a place for an `OuterPipe` object; a place is
used again after its object is deleted, as memory is. `man` is the map, `managed`,
`pipe_id`, `pipe_line` and `pending_tokens` are the members of `OuterPipe`.
`register_connection` and `unregister_connection` are the functions with the
`SharedPtrMan` calls inside them, `Delete` the destructors. Everything runs in
the loop's thread, so a callback is one action: `listener_cb`, `on_conn_event`,
`timer_cb` (the whole heartbeat loop, which starts again after each pipe it drops),
`GuardTick`. The destructor of the manager is `DestroyMan`.

`style` is what a `PipeType` of the guard may do: register in its constructor, or
when connected. `RelayQuery` and `RelayAnswer` are the two callers that the comment
above the relay tables describes (connections.h 238-243); no code in the
repository calls the table's functions. Ids wrap at `IdModulus` (the width of an `unsigned
long`), so that an id may be met in use or be another's by the time it is used.
Left out: `timer_serial_no`, and the guard without an address, which stops its timer.
The constructor of `OuterPipeMan` has the start of the heartbeat's timer commented out
(connections.cpp 414-415), but a class derived from it may start it: `timer_cb` is something that
may happen at any time or never, so that whatever holds, holds with it and without it.

### `Handles` (`connections.*`, `listeners.*`, `timers.*`, `signals.*`, `simple_http_server.*`)

Every class that owns a libevent handle: an object's life (being
constructed, made, unwound by an exception), its handle, and for each source (an event, a
listener, a server, a bufferevent) whether it is live, the object it calls, and
the descriptor it owns. One action per operation and per way it fails:
`take_socket`, `take_bev`, `connect_tcp`, `connect_unix`, `connect_generic`, `release_bev`,
`start_listen_on_*`, `bind_udp`, `start_timer`, `start_handle_signal`, `start_server`,
the destructors. `Report` queues a deferred callback in the loop, `RunDeferred` runs it, possibly after the
object is gone or its handle replaced; `post_disconnected` deletes.

Only `start_timer` looks whether it has been called before; `take_bev` and `start_server` free
what they replace. The others overwrite the handle (the classes are `Careless`): the source that
was there can be freed by nobody any more and goes on calling the place of its object, whoever is
there by then. It is remembered in `stray`. A descriptor that an exception, or a second
`bind_udp`, leaves open is remembered in `lost`. The code has such places (section 6), and the
property says that there are no others.

### `JsonValue`, `JsonReader`, `JsonWriter`, `JsonDocument`, `JsonEcho` (`json/jsoncpp.cpp`)

A document is a sequence of lexemes: brackets, whole strings and numbers, comments,
blanks. A value is a function from paths to nodes. `parse` is both `Reader` and
`OurReader` (the second is a copy of the first with more features; a record of features says which
is meant), with
the state both keep: `commentsBefore_`, `lastValue_`, `lastValueEnd_`, the depth. The code is a
recursive descent; the module is a machine with the stack of that recursion (`calls`: the `readArray` and
`readObject` that have not returned, each with its `index` or `name`), a step of which runs from one
call of `readValue`, return from it or name of a member to the next (`Step`, `next`). So
there is no `RECURSIVE` operator in it, and it can be proved about. `write` is
the five writers: `FastWriter` and the three copies of the styled layout, the last also
as `StreamWriterBuilder` configures it; it is recursive as the code is.

`JsonDocument` is a document that is typed, lexeme by lexeme, with what the reader makes of
it; `JsonEcho` compares that reading, and the reading of what each writer makes of it,
with the grammar of JSON.

### `JsonNumber`, `JsonString`, `JsonArray`, `JsonSequence` (`json/`)

`decodeNumber` with its overflow threshold, `isInt` ... `asUInt64` and
`isConvertibleTo`, for integers of any width (a number is held as
twice its value, so that halves exist); `decodeString`, `decodeUnicodeCodePoint` with its surrogate
pairs, `codePointToUTF8` with its shifts and masks (the reference `Utf8` is the
standard's table) and `valueToQuotedStringN`; the array of `Json::Value`, a map with gaps, shown
to implement the sequence that `json.h` describes (`JsonSequence`), but for an array that is
cut behind a gap (`CutAtHole`): it gets shorter than it should, and where it was `resize` that cut it, the assertion at
the end of `resize` fails (`ResizeAborts`, after which nothing runs).

### `NakedJson` (`jmsg_connection.cpp` 344-413)

Two ends of a connection without frames. `send_msg` writes a value as `StyledWriter`
does, the text arrives in pieces, `on_readable` takes
whatever is in the buffer for one document. The stream is a sequence of characters and is cut anywhere, within
a string too: behind such a cut the rest of the string is read as lexemes, and what is
between it and the next quote as a string (`Lexemes`). One of the strings reads like a document itself.

### `Calendar`, `Text`, `DoubleFork` (`utils.cpp`, `CStringWrapper.h`)

`date_add_ym` with its month arithmetic; `str_split`, `parse_addr_port`, `connect_tcp2`,
both `replace_them_all`, `mysql_esc*`, `shell_arg_esc`, the tail slashes,
`dir_from_file_path`, each a fold over the characters of a text that is typed one at a
time; the process tree of `shell_cmd_no_wait` (and of the copy of
it in `echo_to_all.cpp`), in which `fork` and `exec` may fail.

### `DemoSession` (`samples/wt_demo.cpp`)

The loop in rounds (`NextRound` collects what is ready, callbacks deferred by
callbacks may still join: `JoinsRound`), the timer, the worker, the connection that deletes
itself and leaves `app->client_conn`, ctrl-C, the join. The switch is two queues here:
`MsgSwitch` shows what they promise.

## 3. The runs

| run | shows | bounds |
|---|---|---|
| `shared_list` | list: `front()` defined, no lost wakeup, refinement of `JobFifo`, every value fetched; switch: no sleeper while it is on, one take per `turn_on`, a switch that stays on releases all | 2 producers x 2 appends, 2 workers, 1 drainer, both wake types, 1 spurious wakeup; 2 setters, 2 waiters, 3 calls, 1 spurious wakeup |
| `worker_pool` | enough QuitWorkerMsgs, the blocked owner is owed a wakeup, the pool outlives its workers, a graceful stop runs all jobs, the wait returns | 3 workers, 2 jobs, 1 early dismissal, both timing assumptions |
| `worker_pool_late` | (violation) without `StartsInTime` the wait returns with a worker alive | the same |
| `msg_switch` | results in order, every job in one place, callback for every post, clean stop, every job ends, the stop returns | 5 jobs: 4 relayed, one of them throws past `on_readable`, 1 that may kill the worker |
| `jmsg_send` | (trace build) frames contiguous, farewell delivered before the connection ends unless its sender was still sending it, it does end | loop and 2 workers, 3 messages; the loop or a worker says farewell |
| `jmsg_send_frames` | (violation) the committed build interleaves frames | the same, `TRACE_JMSG = FALSE` |
| `jmsg_send_bye` | (violation) the message of `send_error_msg_then_bye` is dropped | the same |
| `jmsg_send_disconn` | (violation) a worker's `send_error_msg_then_disconn` loses the connection under it | loop and 1 worker |
| `jmsg_receive` | framing never lost, each message once and in order, the end of the stream does not overtake messages, every message is taken | 3 frames, header of 2 bytes, sizes 0, 2 and 3 (out of range), all kinds of data |
| `conn_manager` | map and objects agree, no answer goes astray, one guarded connection, no connection goes by the end of another, the guard reconnects | 2 clients (3 accepts), 2 backends, 1 token, 3 ids |
| `parts` | ten parts that share nothing, one per behaviour: `EchoReads`, `EchoComesBack`, `NumbersAndTextsAreExact`, `StringsComeBack`, `ImplementsSequence`, `NakedNeverInvents`, `DateAddsUp`, `NothingOutlivesItsObject`, `SessionEndsClean`, `CallDetaches` | below |
| `parts_resize` | (violation) `resize` of an array with a hole fails its own assertion | the array alone, as in `parts` |

`shared_list` and `parts` choose their subject in the initial state: the modules share no
variable, so that a run of one after another would only multiply states. `parts` takes
three to four minutes, most of it for the documents.

What is asked of documents. `EchoReads` is about the reader alone: it comes to an end; its depth is that of the
containers it is in and, where it gives up, of the brackets it has passed; no comment is given to a
value that is gone; what `Features::strictMode` and `CharReaderBuilder::strictMode` accept, the default reader
accepts for the same value. `EchoComesBack` is about the meaning: what is accepted is what the grammar
of JSON accepts, it means what the grammar says, and what any writer writes of it is read back as the
same value and written the same way again.

Bounds of `parts`. *Documents*: every lexeme in documents of 8, brackets and two
lexemes in documents of 10 (objects in arrays in objects), comments and line breaks in arrays of 10;
trivia count twice, and three levels of nesting are allowed, so that the limit is met.
*Naked*: two values out of five, the stream cut before any character. *Numbers*: 3 digits in base 10 with integers of 6 and 3
bits and doubles of 4, so that each type overflows and digits follow the one that overflows. *Strings*:
4 pieces, with units on both sides of each UTF-8 boundary and both kinds of surrogates.
*Array*: indices up to 4, an element that may be null. *Dates*: each day of 11 years, of
which three are leap years, and steps of more than two years back and one forth. *Texts*: all
of 5 characters out of one plain and the four that a helper looks for. *Handles*: two objects at a time out
of seven places, two of them connections, three sources, two
descriptors, so that a source is handed out again while a callback of its last
use is queued; sources, descriptors and the two connections are interchangeable, and TLC takes them so
(`MCSymmetry`: nothing is asked of two of them but whether they are equal). *Session*: 3 jobs.

Why these bounds are enough to be interesting. `shared_list`: three
consumers give a waiter that is signalled, one that overtakes it and one
that sleeps on; two producers give two signals in a row. `worker_pool`: with three
workers one can die, one be dismissed early and one be left for the last
wakeup. `msg_switch`: the throwing job has a job before and two after it, so that jobs
are left in the pipe and get a second callback. `jmsg_send`: a third message
can arrive between the parts of two others. `jmsg_receive`: with two bytes a
header can arrive in halves, as can the data; three frames give a stalled message
with one before and one after it.
`conn_manager`: four places for three ids make ids wrap while some are in use, and
three accepts let an id recur while a relay table still holds it.

`CHECK_DEADLOCK FALSE`: in all of these systems the program may end (the pool
is destroyed, the connection is gone) or may have nothing to do (producers and timers that
reached their bound, consumers asleep).

The type invariants are in no run: they are proved (section 5), for every module
that has theorems, as are `MutexOwner`, `FifoOrder` and `NoMsgWithoutCallback`.
They also carry some facts the inductive proofs need.

## 4. Fairness

Fairness is given to what the scheduler or the event loop does on its own, never
to the environment.

- `shared_list`: consumers take every step they can: workers call
  `shared_fetch_head` in `while (1)`. A producer finishes a call it is in, but need not
  begin one. Weak fairness is enough: each consumer is one action
  whose steps stay enabled until taken, except the acquisition of the mutex, and the
  property only needs someone to get it.
  The switch: `WF` for the calls in progress, `SF` for the mutex, since callers of
  the other functions come and go. `OnReleasesAll` asks only for what a switch that stays on owes.
- `worker_pool`: `WF` for the owner's call in progress and for each worker,
  `SF` for a worker's `RemoveItem`: an owner that is woken spuriously may take and
  release the lock for ever, and a mutex that starves a worker for ever is not one
  the system can have. Creating, queueing and dismissing are the owner's choice.
- `msg_switch`: `WF` for the worker, for the loop running a callback it has
  scheduled, for `on_readable` and for the return of the join. Not for timers,
  signals or the start of the program. `EveryJobEnds` therefore excuses jobs once
  the loop has ended, jobs behind a killed worker, and jobs a throwing handler left.
- `jmsg_send`: `WF` for a send in progress, for the loop's flush (the peer keeps
  reading) and its callbacks. Not for new messages nor for the peer's end.
- `jmsg_receive`: `WF` for the callbacks the loop has scheduled and for a running
  `on_readable`. Not for the peer, nor for the arrival of bytes, nor for failures of `malloc`.
- `conn_manager`: `WF` for the guard's tick and the completion of a
  connection whose peer accepts. None for the heartbeat: nobody in the repository starts its timer, so that
  nothing says that a silent connection is ever dropped. `Reconnects` holds where the peer stays up and the
  loop runs. `MaxAccepts` matters to it: clients that came and went for
  ever could take each id just before the guard's connection gets it, with three
  ids; with 2^64 they cannot.
- `parts`: safety only, no fairness: nothing in it is asked to happen.

## 5. What is proved

Everything below is checked by TLAPS for every value of the constants.

`MonitorsProofs`

- `SafeMonitor`: `TypeOK`, `MutexOwner` and `FrontIsDefined` of `SharedList`. Together they are
  inductive: the list shrinks only inside the critical section, and a consumer
  past the test stays inside it.
- `FifoAlways`: `FifoOrder` from the same invariant (`PopFront` needs the list not empty).
- `NoLostWakeupAlways`: a counting argument. Each step changes the length of the
  list and the number of awake consumers so that while someone sleeps there are
  at least as many of the latter. The signal's `\E c \in Waiting` raises the number of
  awake consumers by one exactly when the pending wake is used up.
- `Implements`: every step of the monitor is a step of `JobFifo` or leaves
  its variables alone.
- `OnWakesAll` and `TakenOnce`: `NoSleeperWhileOn` and `TakenOncePerOn` of the switch, from
  `SwitchHolds`. That invariant adds the owner of the mutex and that a thread between its
  loop and its assignment finds the switch still on (`StillOn`). Assumes
  `SwitchAssumption`, which the runs' module assumes too.

`WorkerPoolProofs`

- `OwedAWake`: no timing assumption. The owner tests and blocks in one critical
  section, and a worker that leaves the map is in "removed" until it has woken someone.
- `PoolOutlives`: under `StartsInTime` and `SleepSuffices`. The invariant says that
  after the test found the pool empty every worker is out of it for good.
- `EnoughQuits`: under `StartsInTime`. Workers that still fetch are at most the
  QuitWorkerMsgs queued and to be posted: `size()` counted all of them, and each
  worker that takes one leaves.
- `JobsDone`: under `StartsInTime`. The QuitWorkerMsgs are a suffix of what is
  queued once the owner stops, so that the last worker to leave has the jobs behind it.

`JMsgSendProofs`

- `FarewellLeaves`: `FarewellDelivered` in any build, whichever threads send, whichever of them call
  `send_error_msg_then_disconn`, and for any number of messages. A message that was announced as the last one is
  written before the callback that ends the connection can find the buffer empty (`FarewellsWritten`), but for that of a
  worker that is still in its call (`Interrupted`), which is the case that `jmsg_send_disconn` shows.
- `SendsWhole`: types and `FramesContiguous`, under `OneWriter`: a trace build, whichever threads send, or any build,
  the committed one included, of a connection on which only the loop sends. `jmsg_send_frames` shows that it cannot be
  dropped. The invariant follows the one thread between header and body (`Writing`).

`MsgSwitchProofs`

- `TypeCorrect`.
- `JobsInOrder` and `NoJobLost`: `ResultsInOrder` and `EveryJobAccounted`. Both speak of the
  trail `handled \o pipe \o running \o job_q`. Most steps move the head of one
  part to the tail of the one before and leave the trail as it is (`MoveHead`); two
  append a larger number (`IncreasingAppend`), two take one out
  (`IncreasingRemove`). Stronger than the two alone: a QuitWorkerMsg is on the trail only
  once the owner is stopping, so a timer never queues behind it.
- `CallbackComes` and `Drained`: `NoJobWithoutCallback` and `StoppedMeansDrained`,
  from an invariant that adds that `on_readable` runs under the pair's lock
  and that a QuitWorkerMsg at the head of the queue is alone in it
  (`QuitAlone`, a consequence of the order of the trail).

`JMsgReceiveProofs`

- `TypeCorrect`, `NeverLosesFraming` (`AtFrameBoundary`) and `OnceInOrder`
  (`EachOnceInOrder`), for any sizes, any number of frames and any pieces. The
  inductive invariant adds that the stream is laid out without gaps and that later
  frames start later (`Tiled`, what the parser does not know). Every step sends a
  frame, takes one, drains one or leaves position and history alone
  (`StepKinds`); the messages behind the position are those before the one at it
  (`BehindIsBefore`), so taking it adds exactly it.
- `MessagesBeforeEof` (`EofAfterMessages`) and `CallbackComes` (`NoMsgWithoutCallback`):
  a second invariant on top, about the flags of the two deferred callbacks (`Callbacks`).

`ConnManagerProofs`

- `TypeCorrect`, `MapIsExact` (`ListedIffManaged`), `NoAnswerAstray`
  (`AnswerOnceToAsker`), `OneBackend` (`OneGuarded`) and
  `NobodyEndsAnother` (`EndsAlone`), for any connections, any
  tokens and any width of ids. The inductive invariant adds that a connection which
  will register when connected is not managed before (`NotYetManaged`; registering
  it twice would list it twice), and that only the asker, while it
  lives, waits for a token (`PendingOfAsker`). All ways to delete come down to one
  lemma (`Deleting`): a set of objects goes together with exactly its entries.

`PartsProofs`

- `HandlesAreReturned`: types and `NothingOutlivesItsObject` for any classes, objects, sources and
  descriptors, started and bound as often as one likes. The invariant adds that what is not handed out has nothing left
  from its last use (`Clean`). Assumes `HandlesAssumption`: none is no object, source or descriptor, and a HTTP
  server is not of a class that overwrites its handle (`Careless`).
- `SessionEnds`: `SessionEndsClean`, for any number of ticks. The invariant adds that
  the round in which the connection was deleted is the last one (`LastRound`),
  that the worker is asked to go once and behind all jobs (`QuitIsLast`), that each tick is a job in
  one place (`EveryTickAccounted`), and that the numbers run on from the server into the
  pipe (`NumbersRunOn`).
- `CommandDetaches`: `CallDetaches`, over all failures of the two `fork`s and the `exec`.
- `NumbersAndTextsStayExact`: `NumbersAndTextsAreExact`. Its half about numbers is
  `NumbersAreRead` below. For texts of any length and characters, the invariant is
  what the property says of each helper, and it is kept when one more character is typed: `str_split`, the
  reader of escapes and the joining of tokens make one step per character from the front
  (`SplitSteps`, `ReadSteps`, `JoinSteps`), and `Replaced`, which goes on behind what it found, is shown to
  make the same step at the end (`ReplacedGrows`). The directory of a path ends in a
  slash if and only if the last two of the path's slashes stand together (`DoubleSlash`, `TailSlash`).
  Assumes `TextAssumption`: the value that stands for an exception is no text.
- `DatesAddUp`: `DateAddsUp`, for years and months of any size and sign, as long as the
  years stay between 1901 and 2099 (`is_leap_year` knows no centuries): a date stays one of the
  calendar, and the sum is the right one if and only if the date was in January.

`JsonProofs`

- `ArrayIsSequence`: `JsonArray` implements `JsonSequence`, for any elements and any number of
  calls, and no assertion fails, but in the steps that cut it behind a gap. The mapping reads the map with its gaps as a sequence whose length is one more than the
  greatest key. Each operation has its lemma; `removeIndex` is the hard one, a loop that
  shifts what is behind the index and then erases the last key (`ShiftShows`; of the last element it is a cut,
  `DropErases`, `CutSize`). The assertion fails nowhere else (`AbortCutsAtHole`).
- `CodePointIsUtf8`: `codePointToUTF8` gives the standard's bytes for every code point
  up to 10FFFF.
- `StringsAreRead`: `StringsComeBack`, for strings of any length with any units. `decodeString`
  goes from left to right, so the induction goes from the end of the string to the front: what
  it reads from a place on is what the piece there says, followed by what it reads behind
  that piece (`DecodeIs`), the pieces being single ones and pairs of surrogates (`TurnsAre`). What was
  read is quoted byte by byte, so that the quoted string has no pair and no unknown
  escape and says the bytes it was made of (`QuotedDecodes`, `QuotedIsRead`).
- `ParsesSafely`: for every sequence of lexemes, any features and any stack limit the reader comes to
  an end, gives comments only to values that still exist, has made as many calls as
  it counted when it gives up, and has returned from all of them when it accepts. The
  invariant (`Good`) says for each place the machine can be in how `depth`, `calls`, the path of the current value
  and the length of `lastValue_`'s path are related. The last is why the raw pointer is safe: a value is
  replaced only by the one being read at its own path, and by then `lastValue_` is no deeper than that.
  The end is a measure (`Left`): two turns for each lexeme.
- `StricterAgrees`: of two readers of one document the less strict accepts what the other does,
  and takes it for the same data, whether either collects comments or not. They go in lockstep (`Match`): all but the
  comments is the same in both, until the stricter one fails.
- `DocumentsAreRead`: `EchoReads`, for any lexemes and documents of any length, from these two and from what can be typed
  (`Typing`: what stands in a line comment is blank). Assumes `DocumentAssumption`: the limit is a number.
  The proof found one thing that the run's bounds had hidden: behind a comment `readObject` takes any
  token for a comma, brackets too, and a bracket that is taken for one is not counted:
  `{"a":1/*c*/["b":[1]}` is accepted. The property counts the brackets of a document
  only where none is in such a place (`BracketsSeen`).
- `DigitsAreExact`: `decodeNumber` compares what it has with a threshold before it takes in
  the next digit, and the last digit with what is left. For any limit and any number of digits this
  refuses exactly the numbers that do not fit. The loop's invariant: either it goes on and its value is
  that of the digits so far, or the value with the next digit is too large already, and
  further digits only make it larger.
- `NumbersAreRead`: `NumbersAreExact`, for integers of any widths and a mantissa between
  the two, as 53 bits are between 32 and 64 (`NumberAssumption`). Powers of two are a recursive function here (`TwoTo`), with the facts about sums of exponents
  that rounding needs. A double is a power of two times what fits the mantissa, so that
  rounding it again changes nothing, and the greatest 64-bit integers round up to the power above
  them: the one double of each type that passes its range check and does not fit.

Induction over data. The library's induction theorem takes an operator and cannot be used, so
`JsonProofs` proves its own, in terms of sets: every non-empty set of numbers has a
least one (`Least`, from the library's facts about well-founded relations), so a set with 0 and with the
successor of each of its numbers has all of them (`Induction`); and a function
given by its first value and a step from each value to the next exists (`Recursion`). That
is enough for a recursive function on the places of a sequence. It
does not reach a `RECURSIVE` operator.

Only model-checked:

- All liveness properties (fairness and `ENABLED` are out of the prover's reach): `EveryValueFetched`,
  `OnReleasesAll`, `WaitReturns`, `EveryJobEnds`, `WorkerStops`, `DisconnHappens`,
  `EveryMsgHandled`, `Reconnects`.
- `EchoComesBack`, `NakedNeverInvents`: the writers, and the grammar that gives a text its meaning,
  are defined by recursion on a tree (`RECURSIVE`), and what they say of every value is an
  induction on it. What the two ask of the reader alone is proved (`ParsesSafely`).

## 6. Where code and comments disagree

Five of them are runs that expect a violation:

1. `worker_pool_late`: the comment in `wait_until_all_workers_gone` says its
   `sleep(1)` stands for the joins. The wait does not see a worker that has
   been created but has not registered.
2. `jmsg_send_frames`: the macro named `MAKE_SURE_OUTGOING_DIAGRAM_CONTINUE` is inside
   `#if TRACE_JMSG`, and `TRACE_JMSG` is 0.
3. `jmsg_send_bye`: the comment before the throw counts on the bufferevent to
   outlive `bufferevent_free`; no deferred callback is pending there, and what is in the
   output buffer is dropped.
4. `jmsg_send_disconn`: documented "for worker threads", but called by one it may
   lose the connection between the header and the body.
5. `parts_resize`: `resize` ends in `assert(size() == newSize)` (jsoncpp.cpp 3260), and json.h 726 says "Resize the
   array to size elements". When the array is cut and the last of the `newSize` places is a hole (`resize(2)` of an array that has only
   element 5), nothing is left there to make it that long, and the assertion fails.

Others contradict a comment too. The property that is concerned says exactly where the code
does otherwise, so that these are exceptions in a property that holds and not runs of their own:

- `date_add_ym`: "4/30 - '2 monthes' => 2/28" (utils.cpp 231). The months it is given take the place of `tm_mon`
  instead of being added to it, so that the result is right for the dates of January only: 4/30 less two months is
  11/30 of the year before (`DateAddsUp`).
- `dir_from_file_path`: 「不以'/'结尾」, "does not end in '/'" (utils.cpp 49). The directory of `a//b` is `a/` (`DirOfPath`, by
  `DoubleSlash`).
- `fetch_msg`: its declaration says it gets a complete message or does not touch the
  buffer (jmsg_connection.h 130). When `malloc` fails it drains the message and returns NULL (`AllocFails`), and the
  read callback ends as if there were nothing more (`EveryMsgHandled`, by `stalled`).

What else was met while modelling. The models do as the code does; no comment or document
that we know of says otherwise.

- `is_leap_year` knows no centuries (wrong for 1900 and 2100; `DateAddsUp` is asked from 1901 to 2099
  only).
- A `NakedJsonConnection` takes for a message what the piece that it gets happens to begin with. Of `{"a":"{}"}`,
  cut before the inner brace, it makes `{}`, which nobody sent, as what follows a document
  is ignored; an object inside a value is taken for the message where a cut falls before it (`NakedNeverInvents`, by
  `IsInside`).
- A second `take_socket`, `connect_tcp`, `connect_unix`, `start_handle_signal`, `start_listen_on_*` or `bind_udp` overwrites
  the handle of the first: the first source is never freed and calls the object for ever, also
  when it is deleted (`NothingOutlivesItsObject`, by `stray`).
- `removeIndex` of the last element takes the holes before it along: the array gets shorter by more than
  one (`ImplementsSequence`, by `CutAtHole`).
- `asInt64` of a double of 2^63 passes its range check (`ConversionsAgree` names it as its one exception).
- In an object, behind a comment any token but a closing brace is taken for the comma
  (`OurReader::readObject` and `Reader::readObject`), an opening bracket included, and an object may end in a comma behind a member with an empty
  name. What follows the value of a document is ignored.
- `StyledWriter` and `StyledStreamWriter` cut a name at a NUL, `StyledWriter` takes a comment that
  ends in a blank for indentation and runs the next text into it, a null that stands alone in an array
  is lost where nulls are dropped: what `Writable` excludes from `EchoComesBack`.
- An exception between `socket()` or `accept()` and the bufferevent or listener leaves the
  descriptor open: `take_socket`, `connect_*`, `start_listen_on_un`.
- `InnerPipe` frees no job that is in it when the switch is destroyed; a job queued before
  `create_inner_pipe` is dropped.
- `timer_cb` of the heartbeat and `get_item` hand out pointers that outlive their locks.
- `dir_from_file_path` throws for a path without a slash. The second `fork` of
  `shell_cmd_no_wait` is tested through the first one's variable, so that its failure
  makes the first child run the command, and the caller wait for it.
- The switch's timed wait begins its whole time again with each wakeup, and may report a
  timeout when the switch is on.

## 7. What is not modelled

- The loop itself, DNS, `send_to`, the replies of the HTTP server: calls of libevent
  without state here. A request handler is not told when its server goes, nor the
  server when a handler goes; the samples keep both for the whole program.
- Formatting, logging, `gmtime`, `to_time_t`, `hex_dump`, `shell_cmd`, `iconv`.
- jsoncpp: `Path`, the iterators, comparison and copying, error texts, the
  digits of doubles, features that no caller sets (`allowSingleQuotes_`, ...), the length of
  lines (an array may be written either way).
- The text of the frame header: a `seq` of more than nine digits with its sign does not
  fit its field, and `snprintf` cuts it.
- Windows branches.
- `shared_append_many`: it calls `slice`, which does not exist; nothing
  instantiates it.
- Failures of `pthread_create`, of `pthread_mutex_*` and of `new`.
- `wake(DONT_WAKE_ANYONE)`, which would read an uninitialized `i`: nobody calls it.
- `find_dest_pipe` for a token without a relay returns -1 where its comment says 0; nothing
  calls it, and `RelayAnswer` is a caller that knows.
- Calls of `OuterPipeMan` from threads other than the loop's; `add_or_replace_item`,
  `unreg_pipe_line`: no callers.
- `Map2`, `Multimap2`, `AutoReleasePtr`: containers of one thread.
- Samples other than `wt_demo`, and the listener and fork of `echo_to_all`: the pool's demo repeats
  `wt_demo` (its `get_seq` is a data race on a counter), the chat and the HTTP
  board print what they get.

## 8. Plan

Built, in this order: `SharedList`, `WorkerPool`, `MsgSwitch`, `JMsgSend`,
`JMsgReceive`, `ConnManager`; then `OnOffSwitch`, the modules of jsoncpp, `NakedJson`,
`Handles`, `DemoSession`, `DoubleFork`, `Calendar` and `Text`, with the
proofs about `JMsgSend`, `Handles`, `OnOffSwitch` and the pool's jobs; then the proofs
about `DemoSession`, `DoubleFork`, `Calendar`, `JsonArray` and `JsonString`, then those about
`JsonNumber` and `Text`, whose loops became recursive functions for it; last `JsonDocument` and the
proofs about `JsonReader`, whose recursion became a stack.

What is left, in the order of its worth:

1. Who owns a `JobMessage` whose handler throws after it freed itself
   (`inner_pipe.cpp` 50, 158, 228).
2. Other threads on `OuterPipeMan`: its locks allow `get_item` from a worker, and the
   pointer outlives the lock.
3. The HTTP handlers with the life of their server.
4. The writers with a stack like the reader's, which is what a proof of `EchoComesBack` would start from.
