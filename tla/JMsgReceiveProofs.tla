-------------------------- MODULE JMsgReceiveProofs --------------------------
(***************************************************************************)
(* Theorems of JMsgReceive, for any number of frames, any sizes and any    *)
(* way the stream is cut into pieces.                                      *)
(***************************************************************************)
EXTENDS JMsgReceive, SequenceTheorems, TLAPS

(* The stream is laid out without gaps, and later frames start later.      *)
Tiled ==
    /\ \A i \in 1 .. Len(frames) :
        frames[i].start = IF i = 1 THEN 0 ELSE End(frames[i - 1])
    /\ \A i, j \in 1 .. Len(frames) : i < j => End(frames[i]) <= frames[j].start

IInv == TypeOK /\ Tiled /\ AtFrameBoundary /\ EachOnceInOrder

LEMMA FrameHasEnd ==
    ASSUME NEW f \in Frames
    PROVE  f.start \in Nat /\ End(f) \in Nat /\ f.start < End(f)
<1>1. f.start \in Nat /\ f.size \in Nat /\ HeaderLen \in Nat \ {0}
  BY ReceiveAssumption DEF Frames
<1>2. QED
  BY <1>1 DEF End

LEMMA StreamHasEnd ==
    ASSUME TypeOK
    PROVE  /\ StreamEnd \in Nat
           /\ \A i \in 1 .. Len(frames) :
                /\ frames[i] \in Frames
                /\ frames[i].start \in Nat /\ End(frames[i]) \in Nat
                /\ frames[i].start < End(frames[i])
<1>1. frames \in Seq(Frames)
  BY DEF TypeOK
<1>2. \A i \in 1 .. Len(frames) : frames[i] \in Frames
  BY <1>1
<1>3. CASE frames = <<>>
  BY <1>2, <1>3, FrameHasEnd DEF StreamEnd
<1>4. CASE frames # <<>>
  <2>1. Len(frames) \in 1 .. Len(frames)
    BY <1>1, <1>4, EmptySeq
  <2>2. QED
    BY <1>2, <1>4, <2>1, FrameHasEnd DEF StreamEnd
<1>5. QED
  BY <1>3, <1>4

-----------------------------------------------------------------------------
(* What a step does to the stream and to the messages taken from it.       *)
Sending ==
    /\ \E size \in DataSizes, kind \in DataKinds :
        frames' = Append(frames, [start |-> StreamEnd, size |-> size, kind |-> kind])
    /\ Len(frames) < MaxFrames
    /\ UNCHANGED <<arrived, consumed, handled, dropped>>
Taking(i) == Turn(i) /\ Take(i) /\ UNCHANGED <<frames, arrived, dropped>>
Dropping(i) ==
    /\ Turn(i)
    /\ consumed' = End(frames[i]) /\ dropped' = dropped \cup {i}
    /\ UNCHANGED <<frames, arrived, handled>>
Staying ==
    /\ arrived' \in Nat /\ arrived' >= arrived
    /\ UNCHANGED <<frames, consumed, handled, dropped>>
SmallTypes ==
    /\ pending \in BOOLEAN /\ reading \in BOOLEAN /\ eof \in BOOLEAN /\ stalled \in BOOLEAN
    /\ conn \in {"open", "badsize", "bye", "eof"}

LEMMA StepKinds ==
    ASSUME TypeOK, [Next]_vars
    PROVE  /\ \/ Sending \/ Staying
              \/ \E i \in 1 .. Len(frames) : Taking(i) \/ Dropping(i)
           /\ SmallTypes'
<1>0. arrived \in Nat /\ StreamEnd \in Nat /\ SmallTypes
  BY StreamHasEnd DEF TypeOK, SmallTypes
<1>1. CASE UNCHANGED vars
  BY <1>0, <1>1 DEF vars, Staying, SmallTypes
<1>2. ASSUME NEW size \in DataSizes, NEW kind \in DataKinds, PeerSends(size, kind)
      PROVE  Sending /\ SmallTypes'
  BY <1>0, <1>2 DEF PeerSends, Sending, SmallTypes
<1>3. CASE Arrive
  <2>1. PICK n \in arrived + 1 .. StreamEnd : arrived' = n
    BY <1>0, <1>3 DEF Arrive
  <2>2. arrived' \in Nat /\ arrived' >= arrived
    BY <1>0, <2>1
  <2>3. QED
    BY <1>0, <1>3, <2>2 DEF Arrive, Staying, SmallTypes
<1>4. CASE PeerCloses \/ RunReadCallback \/ on_conn_event \/ FetchNothing
  <2>1. UNCHANGED <<frames, arrived, consumed, handled, dropped>>
    BY <1>4 DEF PeerCloses, RunReadCallback, on_conn_event, FetchNothing, Release
  <2>2. Staying
    BY <1>0, <2>1 DEF Staying
  <2>3. SmallTypes'
    BY <1>0, <1>4 DEF PeerCloses, RunReadCallback, on_conn_event, FetchNothing, Release, SmallTypes
  <2>4. QED
    BY <2>2, <2>3
<1>5. ASSUME NEW i \in 1 .. Len(frames), FetchBadSize(i)
      PROVE  Staying /\ SmallTypes'
  <2>1. UNCHANGED <<frames, arrived, consumed, handled, dropped>>
    BY <1>5 DEF FetchBadSize, Release
  <2>2. Staying
    BY <1>0, <2>1 DEF Staying
  <2>3. SmallTypes'
    BY <1>0, <1>5 DEF FetchBadSize, Release, SmallTypes
  <2>4. QED
    BY <2>2, <2>3
<1>6. ASSUME NEW i \in 1 .. Len(frames), HandleMsg(i) \/ HandleUnparsable(i)
      PROVE  Taking(i) /\ SmallTypes'
  BY <1>0, <1>6 DEF HandleMsg, HandleUnparsable, Take, Taking, Release, SmallTypes
<1>7. ASSUME NEW i \in 1 .. Len(frames), HandleMsgThatThrows(i)
      PROVE  Taking(i) /\ SmallTypes'
  <2>1. stalled' \in BOOLEAN
    BY <1>7 DEF HandleMsgThatThrows, Fetchable
  <2>2. QED
    BY <1>0, <1>7, <2>1 DEF HandleMsgThatThrows, Take, Taking, SmallTypes
<1>8. ASSUME NEW i \in 1 .. Len(frames), AllocFails(i)
      PROVE  Dropping(i) /\ SmallTypes'
  <2>1. stalled' \in BOOLEAN
    BY <1>8 DEF AllocFails, Fetchable
  <2>2. QED
    BY <1>0, <1>8, <2>1 DEF AllocFails, Dropping, SmallTypes
<1>9. QED
  BY <1>1, <1>2, <1>3, <1>4, <1>5, <1>6, <1>7, <1>8 DEF Next, OnReadable, MemoryFails

-----------------------------------------------------------------------------
(* Before message i is taken, the messages behind the parser's position    *)
(* are the ones before it; taking it adds it and nothing else, and leaves  *)
(* the position at the next frame or at the end of the stream.             *)
LEMMA BehindIsBefore ==
    ASSUME TypeOK, Tiled, NEW i \in 1 .. Len(frames), frames[i].start = consumed
    PROVE  /\ Behind = {j \in 1 .. Len(frames) : j < i}
           /\ {j \in 1 .. Len(frames) : End(frames[j]) <= End(frames[i])}
                = {j \in 1 .. Len(frames) : j < i} \cup {i}
<1>1. Len(frames) \in Nat /\ i \in Nat
  BY DEF TypeOK
<1>2. ASSUME NEW j \in 1 .. Len(frames)
      PROVE  /\ End(frames[j]) <= consumed <=> j < i
             /\ End(frames[j]) <= End(frames[i]) <=> j < i \/ j = i
  <2>1. /\ frames[i].start \in Nat /\ End(frames[i]) \in Nat
        /\ frames[j].start \in Nat /\ End(frames[j]) \in Nat
        /\ frames[i].start < End(frames[i]) /\ frames[j].start < End(frames[j])
    BY StreamHasEnd
  <2>2. CASE j < i
    <3>1. End(frames[j]) <= frames[i].start
      BY <2>2 DEF Tiled
    <3>2. QED
      BY <2>1, <2>2, <3>1
  <2>3. CASE i < j
    <3>1. End(frames[i]) <= frames[j].start
      BY <2>3 DEF Tiled
    <3>2. QED
      BY <1>1, <2>1, <2>3, <3>1
  <2>4. CASE i = j
    BY <1>1, <2>1, <2>4
  <2>5. QED
    BY <1>1, <2>2, <2>3, <2>4
<1>3. QED
  BY <1>2 DEF Behind

LEMMA NextBoundary ==
    ASSUME TypeOK, Tiled, NEW i \in 1 .. Len(frames)
    PROVE  \/ End(frames[i]) = StreamEnd
           \/ \E j \in 1 .. Len(frames) : frames[j].start = End(frames[i])
<1>1. Len(frames) \in Nat
  BY DEF TypeOK
<1>2. CASE i = Len(frames)
  <2>1. frames # <<>>
    BY <1>2
  <2>2. QED
    BY <1>2, <2>1 DEF StreamEnd
<1>3. CASE i # Len(frames)
  <2>1. i + 1 \in 1 .. Len(frames) /\ i + 1 # 1 /\ (i + 1) - 1 = i
    BY <1>1, <1>3
  <2>2. frames[i + 1].start = End(frames[i])
    BY <2>1 DEF Tiled
  <2>3. QED
    BY <2>1, <2>2
<1>4. QED
  BY <1>2, <1>3

-----------------------------------------------------------------------------
LEMMA SendingKeeps ==
    ASSUME IInv, Sending, SmallTypes'
    PROVE  IInv'
<1> USE DEF IInv
<1>1. PICK size \in DataSizes, kind \in DataKinds :
        frames' = Append(frames, [start |-> StreamEnd, size |-> size, kind |-> kind])
  BY DEF Sending
<1> DEFINE f == [start |-> StreamEnd, size |-> size, kind |-> kind]
           n == Len(frames)
<1>2. f \in Frames /\ f.start = StreamEnd
  BY StreamHasEnd DEF Frames
<1>3. frames \in Seq(Frames) /\ n \in Nat /\ n < MaxFrames
  BY DEF TypeOK, Sending
<1>4. /\ frames' \in Seq(Frames) /\ Len(frames') = n + 1
      /\ \A i \in 1 .. n : frames'[i] = frames[i]
      /\ frames'[n + 1] = f
  BY <1>1, <1>2, <1>3, AppendProperties
<1>5. UNCHANGED <<arrived, consumed, handled, dropped>>
  BY DEF Sending
<1>6. End(f) \in Nat /\ StreamEnd < End(f) /\ StreamEnd' = End(f) /\ StreamEnd \in Nat
  <2>1. frames' # <<>> /\ Len(frames') \in Nat
    BY <1>3, <1>4, EmptySeq
  <2>2. StreamEnd' = End(f)
    BY <1>4, <2>1 DEF StreamEnd, End
  <2>3. QED
    BY <1>2, <2>2, FrameHasEnd, StreamHasEnd
<1> HIDE DEF f
<1>7. \A i \in 1 .. n : End(frames[i]) <= StreamEnd /\ i \in 1 .. n + 1
  <2> SUFFICES ASSUME NEW i \in 1 .. n
               PROVE  End(frames[i]) <= StreamEnd /\ i \in 1 .. n + 1
    OBVIOUS
  <2>1. n \in 1 .. n /\ frames # <<>> /\ StreamEnd = End(frames[n])
    BY <1>3, EmptySeq DEF StreamEnd
  <2>2. frames[n].start < End(frames[n]) /\ frames[n].start \in Nat /\ End(frames[i]) \in Nat
        /\ End(frames[n]) \in Nat
    BY <2>1, StreamHasEnd
  <2>3. CASE i = n
    BY <1>3, <2>1, <2>2, <2>3
  <2>4. CASE i # n
    <3>1. i < n
      BY <1>3, <2>4
    <3>2. End(frames[i]) <= frames[n].start
      BY <2>1, <3>1 DEF Tiled
    <3>3. QED
      BY <1>3, <2>1, <2>2, <3>2
  <2>5. QED
    BY <2>3, <2>4
<1>8. Tiled'
  <2>1. ASSUME NEW i \in 1 .. n + 1
        PROVE  frames'[i].start = IF i = 1 THEN 0 ELSE End(frames'[i - 1])
    <3>1. CASE i \in 1 .. n
      <4>1. i # 1 => i - 1 \in 1 .. n
        BY <1>3, <3>1
      <4>2. QED
        BY <1>4, <3>1, <4>1 DEF Tiled
    <3>2. CASE i = n + 1 /\ n = 0
      <4>1. frames = <<>>
        BY <1>3, <3>2, EmptySeq
      <4>2. StreamEnd = 0
        BY <4>1 DEF StreamEnd
      <4>3. QED
        BY <1>2, <1>4, <3>2, <4>2
    <3>3. CASE i = n + 1 /\ n # 0
      <4>1. n \in 1 .. n /\ i - 1 = n /\ i # 1
        BY <1>3, <3>3
      <4>2. StreamEnd = End(frames[n])
        BY <1>3, <3>3, EmptySeq DEF StreamEnd
      <4>3. QED
        BY <1>2, <1>4, <3>3, <4>1, <4>2
    <3>4. QED
      BY <1>3, <3>1, <3>2, <3>3
  <2>2. ASSUME NEW i \in 1 .. n + 1, NEW j \in 1 .. n + 1, i < j
        PROVE  End(frames'[i]) <= frames'[j].start
    <3>1. i \in 1 .. n /\ (j \in 1 .. n \/ j = n + 1)
      BY <1>3, <2>2
    <3>2. QED
      BY <1>2, <1>4, <1>7, <2>2, <3>1 DEF Tiled
  <2>3. QED
    BY <1>4, <2>1, <2>2 DEF Tiled, End
<1>9. AtFrameBoundary'
  <2>1. CASE consumed = StreamEnd
    <3>1. n + 1 \in 1 .. Len(frames') /\ frames'[n + 1].start = consumed'
      BY <1>2, <1>3, <1>4, <1>5, <2>1
    <3>2. QED
      BY <3>1 DEF AtFrameBoundary
  <2>2. CASE \E i \in 1 .. n : frames[i].start = consumed
    <3>1. PICK i \in 1 .. n : frames[i].start = consumed
      BY <2>2
    <3>2. i \in 1 .. Len(frames') /\ frames'[i].start = consumed'
      BY <1>4, <1>5, <1>7, <3>1
    <3>3. QED
      BY <3>2 DEF AtFrameBoundary
  <2>3. QED
    BY <2>1, <2>2 DEF AtFrameBoundary
<1>10. Behind' = Behind
  <2>1. consumed \in Nat /\ consumed <= StreamEnd
    <3>1. consumed \in Nat
      BY DEF TypeOK
    <3>2. ASSUME NEW i \in 1 .. n, frames[i].start = consumed
          PROVE  consumed <= StreamEnd
      BY <1>6, <1>7, <3>1, <3>2, StreamHasEnd
    <3>3. QED
      BY <1>6, <3>1, <3>2 DEF AtFrameBoundary
  <2>2. ~(End(f) <= consumed)
    BY <1>6, <2>1
  <2>3. \A i \in 1 .. n + 1 : i \in 1 .. n \/ i = n + 1
    BY <1>3
  <2>4. Behind' = {i \in 1 .. n + 1 : End(frames'[i]) <= consumed}
    BY <1>4, <1>5 DEF Behind, End
  <2>5. QED
    BY <1>4, <1>7, <2>2, <2>3, <2>4 DEF Behind
<1>11. EachOnceInOrder'
  BY <1>5, <1>10 DEF EachOnceInOrder, OnHandled
<1>12. TypeOK'
  <2>1. handled' \in Seq(1 .. Len(frames')) /\ dropped' \subseteq 1 .. Len(frames')
    <3>1. 1 .. n \subseteq 1 .. n + 1
      BY <1>7
    <3>2. QED
      BY <1>4, <1>5, <3>1, SeqMonotonic DEF TypeOK
  <2>2. Len(frames') <= MaxFrames
    BY <1>3, <1>4, ReceiveAssumption
  <2>3. QED
    BY <1>4, <1>5, <2>1, <2>2 DEF TypeOK, SmallTypes
<1>13. QED
  BY <1>8, <1>9, <1>11, <1>12

LEMMA TakingKeeps ==
    ASSUME IInv, SmallTypes', NEW i \in 1 .. Len(frames), Taking(i) \/ Dropping(i)
    PROVE  IInv'
<1> USE DEF IInv
<1>1. frames[i].start = consumed /\ arrived >= End(frames[i]) /\ consumed' = End(frames[i])
  BY DEF Taking, Dropping, Take, Turn, Whole
<1>2. UNCHANGED <<frames, arrived>>
  BY DEF Taking, Dropping
<1>3. /\ Behind = {j \in 1 .. Len(frames) : j < i}
      /\ Behind' = Behind \cup {i} /\ i \notin Behind
  <2>1. Behind' = {j \in 1 .. Len(frames) : End(frames[j]) <= End(frames[i])}
    BY <1>1, <1>2 DEF Behind, End
  <2>2. QED
    BY <1>1, <2>1, BehindIsBefore
<1>4. Tiled'
  BY <1>2 DEF Tiled, End
<1>5. AtFrameBoundary'
  <2>1. StreamEnd' = StreamEnd
    BY <1>2 DEF StreamEnd, End
  <2>2. QED
    BY <1>1, <1>2, <2>1, NextBoundary DEF AtFrameBoundary
<1>6. CASE Dropping(i)
  <2>1. handled' = handled /\ dropped' = dropped \cup {i}
    BY <1>6 DEF Dropping
  <2>2. EachOnceInOrder'
    BY <1>3, <2>1 DEF EachOnceInOrder, OnHandled
  <2>3. TypeOK'
    BY <1>1, <1>2, <2>1, StreamHasEnd DEF TypeOK, SmallTypes
  <2>4. QED
    BY <1>4, <1>5, <2>2, <2>3
<1>7. CASE Taking(i)
  <2>1. handled' = Append(handled, i) /\ dropped' = dropped
    BY <1>7 DEF Taking, Take
  <2>2. handled \in Seq(1 .. Len(frames))
    BY DEF TypeOK
  <2>3. /\ handled' \in Seq(1 .. Len(frames)) /\ Len(handled') = Len(handled) + 1
        /\ Len(handled) \in Nat
        /\ \A k \in 1 .. Len(handled) : handled'[k] = handled[k]
        /\ handled'[Len(handled) + 1] = i
    BY <2>1, <2>2, AppendProperties
  <2>4. \A k \in 1 .. Len(handled) : handled[k] < i
    BY <1>3 DEF EachOnceInOrder, OnHandled
  <2> DEFINE m == Len(handled)
  <2>5. m \in Nat /\ m + 1 \in 1 .. m + 1 /\ \A k \in 1 .. m + 1 : k \in 1 .. m \/ k = m + 1
    BY <2>3
  <2>6. \A k \in 1 .. m : k \in 1 .. m + 1 /\ k < m + 1
    BY <2>3
  <2> HIDE DEF m
  <2>7. Len(handled') = m + 1 /\ \A k \in 1 .. m : handled'[k] = handled[k]
    BY <2>3 DEF m
  <2>8. handled'[m + 1] = i
    BY <2>3 DEF m
  <2>9. OnHandled' = OnHandled \cup {i}
    <3>1. OnHandled' = {handled'[k] : k \in 1 .. m + 1}
      BY <2>7 DEF OnHandled
    <3>2. OnHandled = {handled[k] : k \in 1 .. m}
      BY DEF OnHandled, m
    <3>3. ASSUME NEW x PROVE x \in OnHandled' <=> x \in OnHandled \/ x = i
      <4>1. x \in OnHandled' => x \in OnHandled \/ x = i
        BY <2>5, <2>7, <2>8, <3>1, <3>2
      <4>2. x \in OnHandled => x \in OnHandled'
        BY <2>6, <2>7, <3>1, <3>2
      <4>3. i \in OnHandled'
        BY <2>5, <2>8, <3>1
      <4>4. QED
        BY <4>1, <4>2, <4>3
    <3>4. QED
      BY <3>3
  <2>10. ASSUME NEW k \in 1 .. m + 1, NEW l \in 1 .. m + 1, k < l
        PROVE  handled'[k] < handled'[l]
    <3>1. k \in 1 .. m
      BY <2>5, <2>10
    <3>2. CASE l \in 1 .. m
      BY <2>7, <2>10, <3>1, <3>2 DEF EachOnceInOrder, m
    <3>3. CASE l = m + 1
      BY <2>4, <2>7, <2>8, <3>1, <3>3 DEF m
    <3>4. QED
      BY <2>5, <3>2, <3>3
  <2>11. EachOnceInOrder'
    BY <1>3, <2>1, <2>9, <2>10, <2>7 DEF EachOnceInOrder
  <2>12. TypeOK'
    BY <1>1, <1>2, <2>1, <2>3, StreamHasEnd DEF TypeOK, SmallTypes
  <2>13. QED
    BY <1>4, <1>5, <2>11, <2>12
<1>8. QED
  BY <1>6, <1>7

LEMMA StayingKeeps ==
    ASSUME IInv, Staying, SmallTypes'
    PROVE  IInv'
<1> USE DEF IInv, Staying
<1>1. Tiled' /\ AtFrameBoundary'
  BY DEF Tiled, AtFrameBoundary, StreamEnd, End
<1>2. EachOnceInOrder'
  BY DEF EachOnceInOrder, OnHandled, Behind, End
<1>3. TypeOK'
  BY DEF TypeOK, SmallTypes
<1>4. QED
  BY <1>1, <1>2, <1>3

LEMMA Inductive == Spec => []IInv
<1>1. Init => IInv
  <2> SUFFICES ASSUME Init PROVE IInv
    OBVIOUS
  <2>1. Len(frames) = 0 /\ Len(handled) = 0 /\ StreamEnd = 0
    BY DEF Init, StreamEnd
  <2>2. TypeOK
    <3>1. handled \in Seq(1 .. Len(frames)) /\ frames \in Seq(Frames)
      BY EmptySeq DEF Init
    <3>2. Len(frames) <= MaxFrames
      BY ReceiveAssumption, <2>1
    <3>3. arrived \in Nat /\ consumed \in 0 .. arrived
      BY DEF Init
    <3>4. QED
      BY <3>1, <3>2, <3>3 DEF Init, TypeOK
  <2>3. Tiled /\ AtFrameBoundary
    BY <2>1 DEF Init, Tiled, AtFrameBoundary
  <2>4. Behind = {} /\ OnHandled = {} /\ dropped = {}
    <3>1. 1 .. 0 = {}
      OBVIOUS
    <3>2. QED
      BY <2>1, <3>1, Zenon DEF Init, OnHandled, Behind
  <2>5. EachOnceInOrder
    BY <2>1, <2>4 DEF EachOnceInOrder
  <2>6. QED
    BY <2>2, <2>3, <2>5 DEF IInv
<1>2. IInv /\ [Next]_vars => IInv'
  BY StepKinds, SendingKeeps, TakingKeeps, StayingKeeps DEF IInv
<1>3. QED
  BY <1>1, <1>2, PTL DEF Spec

-----------------------------------------------------------------------------
(* AtFrameBoundary: fetch_msg looks for a header only where one starts,    *)
(* however the stream is cut and whatever has failed before.               *)
THEOREM NeverLosesFraming == Spec => []AtFrameBoundary
<1>1. IInv => AtFrameBoundary
  BY DEF IInv
<1>2. QED
  BY Inductive, <1>1, PTL

(* EachOnceInOrder: what has left the buffer was processed once, in the    *)
(* order it was sent, or drained by fetch_msg for lack of memory.          *)
THEOREM OnceInOrder == Spec => []EachOnceInOrder
<1>1. IInv => EachOnceInOrder
  BY DEF IInv
<1>2. QED
  BY Inductive, <1>1, PTL

(* TypeOK: the parser never takes more bytes than have arrived.            *)
THEOREM TypeCorrect == Spec => []TypeOK
<1>1. IInv => TypeOK
  BY DEF IInv
<1>2. QED
  BY Inductive, <1>1, PTL

-----------------------------------------------------------------------------
(* The callbacks.  The loop never has more than the peer has sent;         *)
(* on_readable runs on an open connection; a connection released for the   *)
(* end of the stream has read it.                                          *)
Callbacks ==
    /\ arrived <= StreamEnd
    /\ reading => conn = "open"
    /\ conn = "eof" => eof
    /\ NoMsgWithoutCallback /\ EofAfterMessages

(* A frame that the peer adds is not complete in the buffer.               *)
LEMMA NewFrameIsNotWhole ==
    ASSUME TypeOK, arrived <= StreamEnd, Sending
    PROVE  (Fetchable(consumed)' => Fetchable(consumed)) /\ arrived' <= StreamEnd'
<1>1. PICK size \in DataSizes, kind \in DataKinds :
        frames' = Append(frames, [start |-> StreamEnd, size |-> size, kind |-> kind])
  BY DEF Sending
<1> DEFINE f == [start |-> StreamEnd, size |-> size, kind |-> kind]
<1>2. f \in Frames /\ f.start = StreamEnd
  BY StreamHasEnd DEF Frames
<1>3. frames \in Seq(Frames) /\ Len(frames) \in Nat
  BY DEF TypeOK
<1>4. /\ frames' \in Seq(Frames) /\ Len(frames') = Len(frames) + 1
      /\ \A i \in 1 .. Len(frames) : frames'[i] = frames[i]
      /\ frames'[Len(frames) + 1] = f /\ frames' # <<>>
  BY <1>1, <1>2, <1>3, AppendProperties
<1>5. StreamEnd' = End(f)
  BY <1>3, <1>4 DEF StreamEnd, End
<1>6. End(f) \in Nat /\ StreamEnd \in Nat /\ StreamEnd < End(f)
  BY <1>2, FrameHasEnd, StreamHasEnd
<1>7. arrived \in Nat /\ arrived' = arrived /\ consumed' = consumed
  BY DEF TypeOK, Sending
<1> HIDE DEF f
<1>8. ASSUME NEW i \in 1 .. Len(frames'), Whole(i, consumed)' PROVE Whole(i, consumed) /\ i \in 1 .. Len(frames)
  <2>1. arrived >= End(frames'[i]) /\ frames'[i].start = consumed
    BY <1>7, <1>8 DEF Whole, End
  <2>2. i # Len(frames) + 1
    BY <1>4, <1>6, <1>7, <2>1
  <2>3. i \in 1 .. Len(frames)
    BY <1>3, <1>4, <2>2
  <2>4. QED
    BY <1>4, <2>1, <2>3 DEF Whole
<1>9. Fetchable(consumed)' => Fetchable(consumed)
  BY <1>8 DEF Fetchable
<1>10. QED
  BY <1>5, <1>6, <1>7, <1>9

LEMMA CallbacksKept ==
    ASSUME IInv, Callbacks, [Next]_vars
    PROVE  Callbacks'
<1> USE DEF Callbacks, NoMsgWithoutCallback, EofAfterMessages
<1>1. TypeOK /\ arrived \in Nat /\ StreamEnd \in Nat
  BY StreamHasEnd DEF IInv, TypeOK
<1>2. frames' = frames => StreamEnd' = StreamEnd
  BY DEF StreamEnd, End
<1>3. UNCHANGED <<frames, arrived, consumed>> => Fetchable(consumed)' = Fetchable(consumed)
  BY DEF Fetchable, Whole, End
<1>4. CASE UNCHANGED vars
  BY <1>2, <1>3, <1>4 DEF vars
<1>5. ASSUME NEW size \in DataSizes, NEW kind \in DataKinds, PeerSends(size, kind)
      PROVE  Callbacks'
  <2>1. Sending
    BY <1>5 DEF PeerSends, Sending
  <2>2. (Fetchable(consumed)' => Fetchable(consumed)) /\ arrived' <= StreamEnd'
    BY <1>1, <2>1, NewFrameIsNotWhole
  <2>3. QED
    BY <1>5, <2>2 DEF PeerSends
<1>6. CASE Arrive
  <2>1. arrived' <= StreamEnd'
    BY <1>1, <1>2, <1>6 DEF Arrive
  <2>2. QED
    BY <1>6, <2>1 DEF Arrive
<1>7. CASE PeerCloses
  BY <1>2, <1>3, <1>7 DEF PeerCloses
<1>8. CASE RunReadCallback
  BY <1>2, <1>8 DEF RunReadCallback
<1>9. CASE on_conn_event
  BY <1>2, <1>3, <1>9 DEF on_conn_event, Release
<1>10. CASE FetchNothing
  BY <1>2, <1>3, <1>10 DEF FetchNothing
<1>11. ASSUME NEW i \in 1 .. Len(frames), HandleMsg(i)
       PROVE  Callbacks'
  BY <1>2, <1>11 DEF HandleMsg, Turn
<1>12. ASSUME NEW i \in 1 .. Len(frames), HandleUnparsable(i) \/ FetchBadSize(i)
       PROVE  Callbacks'
  BY <1>2, <1>12 DEF HandleUnparsable, FetchBadSize, Release
<1>13. ASSUME NEW i \in 1 .. Len(frames), HandleMsgThatThrows(i) \/ AllocFails(i)
       PROVE  Callbacks'
  <2>1. /\ UNCHANGED <<frames, arrived, pending, eof, conn>>
        /\ ~reading' /\ reading /\ stalled' = Fetchable(consumed')
    BY <1>13 DEF HandleMsgThatThrows, AllocFails, Turn
  <2>2. Fetchable(consumed)' = Fetchable(consumed')
    BY <2>1 DEF Fetchable, Whole, End
  <2>3. QED
    BY <1>2, <2>1, <2>2
<1>14. QED
  BY <1>4, <1>5, <1>6, <1>7, <1>8, <1>9, <1>10, <1>11, <1>12, <1>13
     DEF Next, OnReadable, MemoryFails

LEMMA CallbacksHold == Spec => []Callbacks
<1>1. Init => Callbacks
  <2> SUFFICES ASSUME Init PROVE Callbacks
    OBVIOUS
  <2>1. Len(frames) = 0 /\ StreamEnd = 0 /\ arrived = 0
    BY DEF Init, StreamEnd
  <2>2. ~Fetchable(consumed)
    BY <2>1 DEF Fetchable
  <2>3. QED
    BY <2>1, <2>2 DEF Init, Callbacks, NoMsgWithoutCallback, EofAfterMessages
<1>2. IInv /\ Callbacks /\ [Next]_vars => Callbacks'
  BY CallbacksKept
<1>3. QED
  BY Inductive, <1>1, <1>2, PTL DEF Spec

(* EofAfterMessages: on_conn_event releases the connection for the end of  *)
(* the stream only when no complete message is left in the buffer, but for *)
(* those that on_readable gave up.                                         *)
THEOREM MessagesBeforeEof == Spec => []EofAfterMessages
<1>1. Callbacks => EofAfterMessages
  BY DEF Callbacks
<1>2. QED
  BY CallbacksHold, <1>1, PTL

(* NoMsgWithoutCallback: while the connection is open, a complete message  *)
(* in the buffer has on_readable coming, but for the same ones.            *)
THEOREM CallbackComes == Spec => []NoMsgWithoutCallback
<1>1. Callbacks => NoMsgWithoutCallback
  BY DEF Callbacks
<1>2. QED
  BY CallbacksHold, <1>1, PTL
=============================================================================
