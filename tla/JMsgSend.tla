------------------------------ MODULE JMsgSend ------------------------------
(***************************************************************************)
(* The sending side of one JMsgConnection (CommMan/jmsg_connection.cpp)    *)
(* shared by the loop thread and worker threads: send_msg and its three    *)
(* callers, the output buffer, the deferred write callback on_writable and *)
(* the end of the connection.  A frame is two writes, header and body.     *)
(*                                                                         *)
(* libevent's part is modelled from how the class uses it: the bufferevent *)
(* has one recursive lock, held during every callback and every write; the *)
(* loop moves bytes from the buffer to the socket and schedules the write  *)
(* callback when the buffer becomes empty; bufferevent_free drops what is  *)
(* left in the buffer.                                                     *)
(*                                                                         *)
(* pc[t]: "idle" -> "mark" (mark_exiting) -> "head" -> "body" -> "idle",   *)
(*        and "throw" after the body of send_error_msg_then_bye            *)
(***************************************************************************)
EXTENDS Naturals, Sequences

CONSTANTS
    Loop,             \* the thread of the event loop
    Workers,          \* other threads that send on the connection
    DisconnSenders,   \* threads that call send_error_msg_then_disconn
    TRACE_JMSG,       \* the compile-time switch of jmsg_connection.cpp
    NoThread,
    MaxMsgs           \* bound: messages sent

Threads == {Loop} \cup Workers

ASSUME SendAssumption ==
    /\ Loop \notin Workers /\ NoThread \notin Threads
    /\ DisconnSenders \subseteq Threads
    /\ TRACE_JMSG \in BOOLEAN
    /\ MaxMsgs \in Nat

VARIABLES
    pc, kind, cur,   \* each sender's program point, call, and message number
    inCallback,      \* the loop's current call comes from on_readable
    lock,            \* owner of the bufferevent's lock
    exiting,         \* disconnect_if_all_sent
    output, wire,    \* output buffer, and what the peer has received
    writePending,    \* the deferred write callback is scheduled
    conn,            \* "open", or how it ended: "peer", "bye", "drained"
    msgs,            \* messages begun
    farewells,       \* history: those of send_error_msg_then_disconn
    touchedDead      \* threads that have used the deleted connection

vars == <<pc, kind, cur, inCallback, lock, exiting, output, wire, writePending,
          conn, msgs, farewells, touchedDead>>

Header(m) == [msg |-> m, part |-> "head"]
Body(m)  == [msg |-> m, part |-> "body"]
MayLock(t) == lock \in {NoThread, t}

Init ==
    /\ pc = [t \in Threads |-> "idle"]
    /\ kind = [t \in Threads |-> "send"] /\ cur = [t \in Threads |-> 0]
    /\ inCallback = FALSE /\ lock = NoThread
    /\ exiting = FALSE
    /\ output = <<>> /\ wire = <<>> /\ writePending = FALSE
    /\ conn = "open"
    /\ msgs = 0 /\ farewells = {}
    /\ touchedDead = {}

-----------------------------------------------------------------------------
(* The calls.  The loop sends from a read callback, which holds the lock,  *)
(* or from a timer; then_bye is for callbacks only.                        *)
Begin(t, k, callback) ==
    /\ pc[t] = "idle" /\ conn = "open" /\ msgs < MaxMsgs
    /\ callback => t = Loop /\ MayLock(t)
    /\ k = "bye" => callback
    /\ k = "disconn" => t \in DisconnSenders
    /\ msgs' = msgs + 1
    /\ cur' = [cur EXCEPT ![t] = msgs + 1]
    /\ kind' = [kind EXCEPT ![t] = k]
    /\ pc' = [pc EXCEPT ![t] = IF k = "disconn" THEN "mark" ELSE "head"]
    /\ farewells' = IF k = "disconn" THEN farewells \cup {msgs + 1} ELSE farewells
    /\ IF callback THEN inCallback' = TRUE /\ lock' = t
                   ELSE UNCHANGED <<inCallback, lock>>
    /\ UNCHANGED <<exiting, output, wire, writePending, conn, touchedDead>>

(* A thread that holds a pointer to the deleted connection uses it.        *)
TouchDead(t) ==
    /\ pc[t] \in {"mark", "head", "body"} /\ conn # "open" /\ MayLock(t)
    /\ touchedDead' = touchedDead \cup {t}
    /\ pc' = [pc EXCEPT ![t] = "idle"]
    /\ UNCHANGED <<kind, cur, inCallback, lock, exiting, output, wire, writePending,
                   conn, msgs, farewells>>

(* send_error_msg_then_disconn: mark_exiting(), then send_msg.             *)
mark_exiting(t) ==
    /\ pc[t] = "mark" /\ conn = "open"
    /\ exiting' = TRUE
    /\ pc' = [pc EXCEPT ![t] = "head"]
    /\ UNCHANGED <<kind, cur, inCallback, lock, output, wire, writePending, conn,
                   msgs, farewells, touchedDead>>

(* queue_to_send(&head).  Only a trace build holds the output buffer's     *)
(* lock, which is the bufferevent's, from before the header to after the   *)
(* body (MAKE_SURE_OUTGOING_DIAGRAM_CONTINUE).  Mutant: it never does.     *)
WriteHeadUnlocked(t) ==
    /\ pc[t] = "head" /\ conn = "open" /\ MayLock(t)
    /\ output' = Append(output, Header(cur[t]))
    /\ pc' = [pc EXCEPT ![t] = "body"]
    /\ UNCHANGED <<kind, cur, inCallback, lock, exiting, wire, writePending, conn,
                   msgs, farewells, touchedDead>>

WriteHead(t) ==
    /\ pc[t] = "head" /\ conn = "open" /\ MayLock(t)
    /\ output' = Append(output, Header(cur[t]))
    /\ lock' = IF TRACE_JMSG THEN t ELSE lock
    /\ pc' = [pc EXCEPT ![t] = "body"]
    /\ UNCHANGED <<kind, cur, inCallback, exiting, wire, writePending, conn,
                   msgs, farewells, touchedDead>>

(* queue_to_send(jstr), the release of the lock, and the return from       *)
(* send_msg; then_bye goes on to throw.                                    *)
AfterBody(t) ==
    IF kind[t] = "bye" THEN
        pc' = [pc EXCEPT ![t] = "throw"] /\ UNCHANGED <<inCallback, lock>>
    ELSE
        /\ pc' = [pc EXCEPT ![t] = "idle"]
        /\ inCallback' = (inCallback /\ t # Loop)
        /\ lock' = IF lock = t THEN NoThread ELSE lock

WriteBody(t) ==
    /\ pc[t] = "body" /\ conn = "open" /\ MayLock(t)
    /\ output' = Append(output, Body(cur[t]))
    /\ AfterBody(t)
    /\ UNCHANGED <<kind, cur, exiting, wire, writePending, conn, msgs, farewells,
                   touchedDead>>

(* release_self deletes the connection; bufferevent_free drops the output. *)
Release(how) ==
    /\ conn' = how
    /\ output' = <<>>
    /\ writePending' = FALSE

(* ConnectionGoneException("Bye"), caught by on_readable.                  *)
ThrowBye ==
    /\ pc[Loop] = "throw"
    /\ Release("bye")
    /\ pc' = [pc EXCEPT ![Loop] = "idle"]
    /\ inCallback' = FALSE /\ lock' = NoThread
    /\ UNCHANGED <<kind, cur, exiting, wire, msgs, farewells, touchedDead>>

-----------------------------------------------------------------------------
(* The event loop between the calls.                                       *)
LoopFree == conn = "open" /\ pc[Loop] = "idle" /\ lock = NoThread

(* Mutant: the write callback is not scheduled.                            *)
FlushQuietly ==
    /\ LoopFree
    /\ \E n \in 1 .. Len(output) :
        /\ wire' = wire \o SubSeq(output, 1, n)
        /\ output' = SubSeq(output, n + 1, Len(output))
    /\ UNCHANGED <<pc, kind, cur, inCallback, lock, exiting, writePending, conn,
                   msgs, farewells, touchedDead>>

Flush ==
    /\ LoopFree
    /\ \E n \in 1 .. Len(output) :
        /\ wire' = wire \o SubSeq(output, 1, n)
        /\ output' = SubSeq(output, n + 1, Len(output))
        /\ writePending' = (writePending \/ n = Len(output))
    /\ UNCHANGED <<pc, kind, cur, inCallback, lock, exiting, conn, msgs, farewells,
                   touchedDead>>

(* Mutant: on_writable does not look at the buffer again.                  *)
OnWritableBlind ==
    /\ LoopFree /\ writePending
    /\ IF exiting
       THEN Release("drained")
       ELSE writePending' = FALSE /\ UNCHANGED <<conn, output>>
    /\ UNCHANGED <<pc, kind, cur, inCallback, lock, exiting, wire, msgs, farewells,
                   touchedDead>>

on_writable ==
    /\ LoopFree /\ writePending
    /\ IF exiting /\ output = <<>>
       THEN Release("drained")
       ELSE writePending' = FALSE /\ UNCHANGED <<conn, output>>
    /\ UNCHANGED <<pc, kind, cur, inCallback, lock, exiting, wire, msgs, farewells,
                   touchedDead>>

(* EOF or an error from the peer: on_conn_event, post_disconnected.        *)
PeerGone ==
    /\ LoopFree
    /\ Release("peer")
    /\ UNCHANGED <<pc, kind, cur, inCallback, lock, exiting, wire, msgs, farewells,
                   touchedDead>>

-----------------------------------------------------------------------------
Sends(t) == mark_exiting(t) \/ WriteHead(t) \/ WriteBody(t)

Next ==
    \/ \E t \in Threads, k \in {"send", "bye", "disconn"}, cb \in BOOLEAN : Begin(t, k, cb)
    \/ \E t \in Threads : Sends(t) \/ TouchDead(t)
    \/ ThrowBye \/ Flush \/ on_writable \/ PeerGone

Spec == Init /\ [][Next]_vars

(* A call that has begun goes on; the loop runs the callbacks it has       *)
(* scheduled; the peer keeps reading.                                      *)
FairSpec ==
    /\ Spec
    /\ \A t \in Threads : WF_vars(Sends(t))
    /\ WF_vars(ThrowBye) /\ WF_vars(Flush) /\ WF_vars(on_writable)

-----------------------------------------------------------------------------
Parts == [msg : 1 .. MaxMsgs, part : {"head", "body"}]

TypeOK ==
    /\ pc \in [Threads -> {"idle", "mark", "head", "body", "throw"}]
    /\ \A t \in Workers : pc[t] # "throw"
    /\ kind \in [Threads -> {"send", "bye", "disconn"}]
    /\ cur \in [Threads -> 0 .. MaxMsgs]
    /\ inCallback \in BOOLEAN /\ exiting \in BOOLEAN
    /\ lock \in Threads \cup {NoThread}
    /\ output \in Seq(Parts) /\ wire \in Seq(Parts)
    /\ writePending \in BOOLEAN /\ touchedDead \subseteq Threads
    /\ conn \in {"open", "peer", "bye", "drained"}
    /\ msgs \in 0 .. MaxMsgs /\ farewells \subseteq 1 .. MaxMsgs

(* The peer can parse what it receives: each header is followed by its own *)
(* body, whichever threads send at the same time.                          *)
Stream == wire \o output
FramesContiguous ==
    \A i \in 1 .. Len(Stream) :
        IF Stream[i].part = "head"
        THEN i < Len(Stream) => Stream[i + 1] = Body(Stream[i].msg)
        ELSE i > 1 /\ Stream[i - 1] = Header(Stream[i].msg)

OnWire(p) == \E i \in 1 .. Len(wire) : wire[i] = p

(* m is the last message of a worker whose call was not over when the      *)
(* connection ended.                                                       *)
Interrupted(m) == \E t \in Workers : cur[t] = m /\ (pc[t] # "idle" \/ t \in touchedDead)

(* When on_writable ends the connection, the messages that asked for it    *)
(* have reached the peer whole: a write callback that was scheduled for an *)
(* earlier message does not cut them off, whoever sent them, with the lock *)
(* of a trace build or without it.  The exception is a worker that is      *)
(* still between mark_exiting() and the end of send_msg.                   *)
FarewellDelivered ==
    conn = "drained" =>
        \A m \in farewells : (OnWire(Header(m)) /\ OnWire(Body(m))) \/ Interrupted(m)

(* After send_error_msg_then_disconn the connection does end.              *)
DisconnHappens == exiting ~> conn # "open"

(* "用于worker threads" (jmsg_connection.h): send_error_msg_then_disconn is *)
(* for worker threads, so one that calls it, and nobody else, uses the     *)
(* connection while it exists.                                             *)
DisconnIsForWorkers == conn = "drained" => touchedDead = {}

(* send_error_msg_then_bye sends its message before the connection goes:   *)
(* the comment above its throw counts on a pending buffer outliving        *)
(* bufferevent_free.                                                       *)
ByeDelivered ==
    conn = "bye" => OnWire(Body(cur[Loop]))
=============================================================================
