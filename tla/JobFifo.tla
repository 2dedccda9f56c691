------------------------------ MODULE JobFifo ------------------------------
(***************************************************************************)
(* What SharedList promises its callers (MsgSwitch, PooledMsgSwitch): a    *)
(* FIFO shared by threads.  One append adds one value at the tail; a fetch *)
(* takes the head, or everything, and only from a queue that has something.*)
(* `appended' and `taken' are histories: the values in the order they were *)
(* put in and in the order they came out.                                  *)
(***************************************************************************)
EXTENDS Naturals, Sequences

CONSTANT Values

VARIABLES queue, appended, taken

fifoVars == <<queue, appended, taken>>

Init == queue = <<>> /\ appended = <<>> /\ taken = <<>>

Put(v) ==
    /\ queue' = Append(queue, v)
    /\ appended' = Append(appended, v)
    /\ UNCHANGED taken

GetHead ==
    /\ queue # <<>>
    /\ queue' = Tail(queue)
    /\ taken' = Append(taken, Head(queue))
    /\ UNCHANGED appended

GetAll ==
    /\ queue # <<>>
    /\ queue' = <<>>
    /\ taken' = taken \o queue
    /\ UNCHANGED appended

Next == (\E v \in Values : Put(v)) \/ GetHead \/ GetAll

Fifo == Init /\ [][Next]_fifoVars
=============================================================================
