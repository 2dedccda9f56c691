----------------------------- MODULE JMsgReceive -----------------------------
(***************************************************************************)
(* The receiving side of one JMsgConnection (CommMan/jmsg_connection.cpp): *)
(* fetch_msg's framing, process_then_free_msg and the ways out of          *)
(* on_readable, with libevent's part as the class uses it: bytes arrive in *)
(* pieces of any size, each schedules the deferred read callback; at the   *)
(* end of the stream the event callback runs after a pending read one.     *)
(*                                                                         *)
(* The peer's stream is a sequence of frames, each known by its place in   *)
(* the stream, the data size its header announces and what its data is.    *)
(* Everything here runs in the loop's thread.                              *)
(***************************************************************************)
EXTENDS Naturals, Sequences

CONSTANTS
    HeaderLen,     \* sizeof(ChunkHeader)
    MAX_DATASIZE,
    DataSizes,     \* sizes the headers announce, in and out of range
    MaxFrames      \* bound: frames the peer sends

ASSUME ReceiveAssumption ==
    /\ HeaderLen \in Nat \ {0}
    /\ MAX_DATASIZE \in Nat /\ DataSizes \subseteq Nat
    /\ MaxFrames \in Nat

VARIABLES
    frames,     \* what the peer has sent
    arrived,    \* bytes the loop has moved to the input buffer so far
    consumed,   \* bytes fetch_msg has taken out of it
    pending,    \* the read callback is scheduled
    reading,    \* on_readable is running
    eof,        \* the loop has read the end of the stream
    conn,       \* "open", or how it ended: "badsize", "bye", "eof"
    handled,    \* history: frames whose message was processed, in order
    dropped,    \* history: frames drained for lack of memory
    stalled     \* on_readable returned although a message was complete

vars == <<frames, arrived, consumed, pending, reading, eof, conn, handled, dropped, stalled>>

(* "json": an object with a "Command"; "unparsable": process_then_free_msg *)
(* answers with an error; "throws": an exception leaves it, from jsoncpp   *)
(* (a "Command" that is no string) or from an override.                    *)
DataKinds == {"json", "unparsable", "throws"}

InRange(size) == size <= MAX_DATASIZE
End(f) == f.start + HeaderLen + (IF InRange(f.size) THEN f.size ELSE 0)
StreamEnd == IF frames = <<>> THEN 0 ELSE End(frames[Len(frames)])

Init ==
    /\ frames = <<>> /\ arrived = 0 /\ consumed = 0
    /\ pending = FALSE /\ reading = FALSE /\ eof = FALSE
    /\ conn = "open"
    /\ handled = <<>> /\ dropped = {} /\ stalled = FALSE

-----------------------------------------------------------------------------
(* The peer and the loop.                                                  *)
PeerSends(size, kind) ==
    /\ ~eof /\ Len(frames) < MaxFrames
    /\ frames' = Append(frames, [start |-> StreamEnd, size |-> size, kind |-> kind])
    /\ UNCHANGED <<arrived, consumed, pending, reading, eof, conn, handled, dropped, stalled>>

Arrive ==
    /\ conn = "open" /\ ~reading /\ ~eof
    /\ \E n \in arrived + 1 .. StreamEnd : arrived' = n
    /\ pending' = TRUE
    /\ UNCHANGED <<frames, consumed, reading, eof, conn, handled, dropped, stalled>>

PeerCloses ==
    /\ conn = "open" /\ ~reading /\ ~eof /\ arrived = StreamEnd
    /\ eof' = TRUE
    /\ UNCHANGED <<frames, arrived, consumed, pending, reading, conn, handled, dropped, stalled>>

RunReadCallback ==
    /\ conn = "open" /\ ~reading /\ pending
    /\ reading' = TRUE /\ pending' = FALSE
    /\ UNCHANGED <<frames, arrived, consumed, eof, conn, handled, dropped, stalled>>

(* release_self: the bufferevent goes with its buffers and its callbacks.  *)
Release(how) ==
    /\ conn' = how
    /\ reading' = FALSE /\ pending' = FALSE

on_conn_event ==
    /\ conn = "open" /\ ~reading /\ eof /\ ~pending
    /\ Release("eof")
    /\ UNCHANGED <<frames, arrived, consumed, eof, handled, dropped, stalled>>

-----------------------------------------------------------------------------
(* fetch_msg at position p of the stream: the header and the whole message *)
(* are in the buffer.                                                      *)
Whole(i, p) == frames[i].start = p /\ arrived >= End(frames[i])

Fetchable(p) == \E i \in 1 .. Len(frames) : Whole(i, p)

(* One turn of on_readable's loop.  fetch_msg takes message i and          *)
(* process_then_free_msg gets it.                                          *)
Turn(i) == reading /\ i \in 1 .. Len(frames) /\ Whole(i, consumed)
Take(i) ==
    /\ InRange(frames[i].size)
    /\ consumed' = End(frames[i])
    /\ handled' = Append(handled, i)

(* Mutants: evbuffer_copyout in the place of evbuffer_remove; `if' in the  *)
(* place of `while'.                                                       *)
HandlePeeked(i) ==
    /\ Turn(i) /\ frames[i].kind = "json" /\ InRange(frames[i].size)
    /\ handled' = Append(handled, i)
    /\ UNCHANGED <<frames, arrived, consumed, pending, reading, eof, conn, dropped, stalled>>

HandleOnlyOne(i) ==
    /\ Turn(i) /\ frames[i].kind = "json" /\ Take(i)
    /\ reading' = FALSE /\ stalled' = FALSE
    /\ UNCHANGED <<frames, arrived, pending, eof, conn, dropped>>

HandleMsg(i) ==
    /\ Turn(i) /\ frames[i].kind = "json" /\ Take(i)
    /\ UNCHANGED <<frames, arrived, pending, reading, eof, conn, dropped, stalled>>

(* send_error_msg_then_bye throws ConnectionGoneException.                 *)
HandleUnparsable(i) ==
    /\ Turn(i) /\ frames[i].kind = "unparsable" /\ Take(i)
    /\ Release("bye")
    /\ UNCHANGED <<frames, arrived, eof, dropped, stalled>>

(* Any other exception: logged, and on_readable returns.  Mutant: the      *)
(* handler empties the buffer.                                             *)
HandlerEmptiesBuffer(i) ==
    /\ Turn(i) /\ frames[i].kind = "throws" /\ InRange(frames[i].size)
    /\ handled' = Append(handled, i)
    /\ consumed' = arrived
    /\ reading' = FALSE /\ stalled' = FALSE
    /\ UNCHANGED <<frames, arrived, pending, eof, conn, dropped>>

HandleMsgThatThrows(i) ==
    /\ Turn(i) /\ frames[i].kind = "throws" /\ Take(i)
    /\ reading' = FALSE /\ stalled' = Fetchable(consumed')
    /\ UNCHANGED <<frames, arrived, pending, eof, conn, dropped>>

(* The header announces a size out of range: ConnectionGoneException.      *)
FetchBadSize(i) ==
    /\ Turn(i) /\ ~InRange(frames[i].size)
    /\ Release("badsize")
    /\ UNCHANGED <<frames, arrived, consumed, eof, handled, dropped, stalled>>

(* malloc fails: the message is drained, NULL ends the loop.               *)
AllocFails(i) ==
    /\ Turn(i) /\ InRange(frames[i].size)
    /\ consumed' = End(frames[i])
    /\ dropped' = dropped \cup {i}
    /\ reading' = FALSE /\ stalled' = Fetchable(consumed')
    /\ UNCHANGED <<frames, arrived, pending, eof, conn, handled>>

(* Nothing complete: fetch_msg returns NULL.                            *)
FetchNothing ==
    /\ reading /\ ~Fetchable(consumed)
    /\ reading' = FALSE /\ stalled' = FALSE
    /\ UNCHANGED <<frames, arrived, consumed, pending, eof, conn, handled, dropped>>

-----------------------------------------------------------------------------
OnReadable ==
    \/ \E i \in 1 .. Len(frames) :
        HandleMsg(i) \/ HandleUnparsable(i) \/ HandleMsgThatThrows(i) \/ FetchBadSize(i)
    \/ FetchNothing

MemoryFails == \E i \in 1 .. Len(frames) : AllocFails(i)

Next ==
    \/ \E size \in DataSizes, kind \in DataKinds : PeerSends(size, kind)
    \/ Arrive \/ PeerCloses \/ RunReadCallback \/ on_conn_event
    \/ OnReadable \/ MemoryFails

Spec == Init /\ [][Next]_vars

(* The loop runs the callbacks it has scheduled, and they end.             *)
FairSpec ==
    /\ Spec
    /\ WF_vars(RunReadCallback) /\ WF_vars(on_conn_event) /\ WF_vars(OnReadable)

-----------------------------------------------------------------------------
Frames == [start : Nat, size : DataSizes, kind : DataKinds]

TypeOK ==
    /\ frames \in Seq(Frames) /\ Len(frames) <= MaxFrames
    /\ arrived \in Nat /\ consumed \in 0 .. arrived
    /\ pending \in BOOLEAN /\ reading \in BOOLEAN /\ eof \in BOOLEAN /\ stalled \in BOOLEAN
    /\ conn \in {"open", "badsize", "bye", "eof"}
    /\ handled \in Seq(1 .. Len(frames)) /\ dropped \subseteq 1 .. Len(frames)

(* fetch_msg never loses the framing: whatever the pieces the stream comes *)
(* in, and whatever failed before, it looks for a header where one starts. *)
AtFrameBoundary ==
    consumed = StreamEnd \/ \E i \in 1 .. Len(frames) : frames[i].start = consumed

(* Each message taken out of the buffer was processed once, in the order   *)
(* it was sent, or drained for lack of memory.                             *)
Behind == {i \in 1 .. Len(frames) : End(frames[i]) <= consumed}
OnHandled == {handled[k] : k \in 1 .. Len(handled)}
EachOnceInOrder ==
    /\ \A k, l \in 1 .. Len(handled) : k < l => handled[k] < handled[l]
    /\ OnHandled \cup dropped = Behind /\ OnHandled \cap dropped = {}

(* A complete message in the buffer has a read callback coming, unless     *)
(* on_readable has left it there.                                          *)
NoMsgWithoutCallback ==
    conn = "open" /\ ~reading /\ Fetchable(consumed) => pending \/ stalled

(* Messages that came before the end of the stream are processed before    *)
(* the connection is released for it.                                      *)
EofAfterMessages == conn = "eof" => ~Fetchable(consumed) \/ stalled

(* Every message that has arrived is taken, or the connection has ended,   *)
(* or on_readable has left it behind.                                      *)
EveryMsgHandled ==
    \A i \in 1 .. MaxFrames :
        (i \in 1 .. Len(frames) /\ arrived >= End(frames[i]))
            ~> (i \in Behind \/ conn # "open" \/ stalled)
=============================================================================
