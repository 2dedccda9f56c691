--------------------------- MODULE JMsgSendProofs ---------------------------
(***************************************************************************)
(* Theorems of JMsgSend, for any number of workers and messages: what a    *)
(* farewell is owed, in any build and whoever sends, and that frames stay  *)
(* whole where one thread writes at a time.                                *)
(***************************************************************************)
EXTENDS JMsgSend, SequenceTheorems, TLAPS

(* The lock of a trace build, or a connection on which only the loop sends *)
(* (the build as it is committed has TRACE_JMSG 0).                        *)
OneWriter == TRACE_JMSG \/ Workers = {}

(* All of TypeOK but the two sequences.                                    *)
SmallTypes ==
    /\ pc \in [Threads -> {"idle", "mark", "head", "body", "throw"}]
    /\ \A t \in Workers : pc[t] # "throw"
    /\ kind \in [Threads -> {"send", "bye", "disconn"}]
    /\ cur \in [Threads -> 0 .. MaxMsgs]
    /\ inCallback \in BOOLEAN /\ exiting \in BOOLEAN
    /\ lock \in Threads \cup {NoThread}
    /\ writePending \in BOOLEAN /\ touchedDead \subseteq Threads
    /\ conn \in {"open", "peer", "bye", "drained"}
    /\ msgs \in 0 .. MaxMsgs /\ farewells \subseteq 1 .. MaxMsgs

(* Only the loop says bye, from a callback, so with the lock; a thread     *)
(* with a call under way that writes has a number.                         *)
Bye ==
    /\ kind[Loop] = "bye" /\ pc[Loop] # "idle" => lock = Loop
    /\ pc[Loop] = "throw" => kind[Loop] = "bye" /\ conn = "open"

Calls ==
    /\ \A t \in Workers : kind[t] # "bye"
    /\ \A t \in Threads : pc[t] \in {"mark", "head", "body"} => cur[t] \in 1 .. MaxMsgs
    /\ Bye

LastPart(s) == s[Len(s)]

Written(p) == \E i \in 1 .. Len(Stream) : Stream[i] = p
UnderWay(t, m) == cur[t] = m /\ pc[t] \in {"mark", "head", "body"}

(* Whoever is between its two writes has written its header.               *)
HeadsWritten ==
    conn = "open" => \A t \in Threads : pc[t] = "body" => Written(Header(cur[t]))

(* A farewell is being written, or written.                                *)
FarewellsWritten ==
    conn = "open" =>
        \A m \in farewells :
            (\E t \in Threads : UnderWay(t, m)) \/ (Written(Header(m)) /\ Written(Body(m)))

SInv == TypeOK /\ Calls /\ HeadsWritten /\ FarewellsWritten /\ FarewellDelivered

(* Where one thread writes at a time, its header is the last thing written *)
(* until its body is; when nobody is between the two, a body is.           *)
Writing ==
    /\ \A t \in Threads : pc[t] = "body" =>
          /\ lock = t \/ Workers = {}
          /\ conn = "open" /\ Stream # <<>> /\ LastPart(Stream) = Header(cur[t])
    /\ conn = "open" /\ (\A t \in Threads : pc[t] # "body") =>
          Stream = <<>> \/ LastPart(Stream).part = "body"

FInv == FramesContiguous /\ Writing

-----------------------------------------------------------------------------
(* What a step does to the stream.                                         *)
LEMMA StreamType ==
    ASSUME TypeOK
    PROVE  Stream \in Seq(Parts) /\ Len(Stream) \in Nat /\ Len(Stream) = Len(wire) + Len(output)
BY ConcatProperties DEF TypeOK, Stream

LEMMA StreamGrows ==
    ASSUME TypeOK, NEW p \in Parts, wire' = wire, output' = Append(output, p)
    PROVE  /\ Stream' = Append(Stream, p)
           /\ output' \in Seq(Parts) /\ wire' \in Seq(Parts)
<1>1. wire \in Seq(Parts) /\ output \in Seq(Parts) /\ <<p>> \in Seq(Parts)
  BY DEF TypeOK
<1>2. output' = output \o <<p>>
  BY <1>1, AppendIsConcat
<1>3. wire \o (output \o <<p>>) = (wire \o output) \o <<p>>
  BY <1>1, ConcatAssociative
<1>4. wire \o output \in Seq(Parts)
  BY <1>1, ConcatProperties
<1>5. (wire \o output) \o <<p>> = Append(wire \o output, p)
  BY <1>4, AppendIsConcat
<1>6. QED
  BY <1>1, <1>2, <1>3, <1>5 DEF Stream

LEMMA MovingKeeps ==
    ASSUME NEW S, NEW w \in Seq(S), NEW o \in Seq(S), NEW n \in 1 .. Len(o)
    PROVE  (w \o SubSeq(o, 1, n)) \o SubSeq(o, n + 1, Len(o)) = w \o o
<1>1. 1 \in 1 .. Len(o) + 1 /\ n \in 1 - 1 .. Len(o) /\ Len(o) \in n .. Len(o)
  OBVIOUS
<1>2. \A m \in 1 .. Len(o) + 1 : \A k \in m - 1 .. Len(o) : \A l \in k .. Len(o) :
        SubSeq(o, m, k) \o SubSeq(o, k + 1, l) = SubSeq(o, m, l)
  BY ConcatAdjacentSubSeq, Zenon
<1>3. SubSeq(o, 1, n) \o SubSeq(o, n + 1, Len(o)) = SubSeq(o, 1, Len(o))
  BY <1>1, <1>2, Zenon
<1>4. SubSeq(o, 1, Len(o)) = o
  BY SubSeqFull, Zenon
<1>5. SubSeq(o, 1, n) \in Seq(S) /\ SubSeq(o, n + 1, Len(o)) \in Seq(S)
  BY SubSeqProperties
<1> DEFINE front == SubSeq(o, 1, n)
           rest  == SubSeq(o, n + 1, Len(o))
<1>a. front \in Seq(S) /\ rest \in Seq(S)
  BY <1>5
<1>6. front \o rest = o
  BY <1>3, <1>4
<1> HIDE DEF front, rest
<1>7. (w \o front) \o rest = w \o (front \o rest)
  BY <1>a
<1>8. (w \o front) \o rest = w \o o
  BY <1>6, <1>7
<1>9. QED
  BY <1>8 DEF front, rest

LEMMA StreamMoves ==
    ASSUME TypeOK, NEW n \in 1 .. Len(output),
           wire' = wire \o SubSeq(output, 1, n),
           output' = SubSeq(output, n + 1, Len(output))
    PROVE  Stream' = Stream /\ output' \in Seq(Parts) /\ wire' \in Seq(Parts)
<1>1. wire \in Seq(Parts) /\ output \in Seq(Parts) /\ Len(output) \in Nat
  BY DEF TypeOK
<1>2. SubSeq(output, 1, n) \in Seq(Parts) /\ SubSeq(output, n + 1, Len(output)) \in Seq(Parts)
  BY <1>1, SubSeqProperties
<1>a. (wire \o SubSeq(output, 1, n)) \o SubSeq(output, n + 1, Len(output)) = wire \o output
  BY <1>1, <1>2, MovingKeeps, Zenon
<1>3. wire' \o output' = wire \o output
  BY <1>a
<1>4. wire' \in Seq(Parts)
  BY <1>1, <1>2, ConcatProperties
<1>5. QED
  BY <1>2, <1>3, <1>4 DEF Stream

(* Release cuts the stream at what the peer has.                           *)
LEMMA StreamCut ==
    ASSUME TypeOK, wire' = wire, output' = <<>>
    PROVE  /\ Stream' = wire /\ Len(wire) \in Nat /\ Len(wire) <= Len(Stream)
           /\ \A i \in 1 .. Len(wire) : wire[i] = Stream[i]
           /\ output' \in Seq(Parts) /\ wire' \in Seq(Parts)
<1>1. wire \in Seq(Parts) /\ output \in Seq(Parts)
  BY DEF TypeOK
<1>2. QED
  BY <1>1, ConcatProperties, ConcatEmptySeq DEF Stream

LEMMA CutContiguous ==
    ASSUME TypeOK, FramesContiguous, wire' = wire, output' = <<>>
    PROVE  FramesContiguous'
<1> DEFINE old == Stream
           cut == Stream'
<1>1. /\ Len(cut) \in Nat /\ Len(old) \in Nat /\ Len(cut) <= Len(old)
      /\ \A i \in 1 .. Len(cut) : cut[i] = old[i]
  BY StreamCut, StreamType
<1>2. \A i \in 1 .. Len(old) :
        IF old[i].part = "head"
        THEN i < Len(old) => old[i + 1] = Body(old[i].msg)
        ELSE i > 1 /\ old[i - 1] = Header(old[i].msg)
  BY DEF FramesContiguous
<1> HIDE DEF old, cut
<1>3. \A i \in 1 .. Len(cut) :
        IF cut[i].part = "head"
        THEN i < Len(cut) => cut[i + 1] = Body(cut[i].msg)
        ELSE i > 1 /\ cut[i - 1] = Header(cut[i].msg)
  <2> TAKE i \in 1 .. Len(cut)
  <2>1. i \in 1 .. Len(old) /\ cut[i] = old[i]
    BY <1>1
  <2>2. CASE cut[i].part = "head"
    <3> SUFFICES ASSUME i < Len(cut) PROVE cut[i + 1] = Body(cut[i].msg)
      BY <2>2
    <3>1. i + 1 \in 1 .. Len(cut) /\ i < Len(old)
      BY <1>1
    <3>2. QED
      BY <3>1, <2>1, <2>2, <1>1, <1>2
  <2>3. CASE cut[i].part # "head"
    <3>1. i > 1 /\ old[i - 1] = Header(old[i].msg)
      BY <2>1, <2>3, <1>2
    <3>2. i - 1 \in 1 .. Len(cut)
      BY <3>1, <1>1
    <3>3. QED
      BY <3>1, <3>2, <2>1, <2>3, <1>1
  <2>4. QED
    BY <2>2, <2>3
<1>4. QED
  BY <1>3 DEF FramesContiguous, Body, Header, cut

LEMMA HeaderContiguous ==
    ASSUME TypeOK, FramesContiguous, NEW m \in 1 .. MaxMsgs,
           Stream = <<>> \/ LastPart(Stream).part = "body",
           Stream' = Append(Stream, Header(m))
    PROVE  FramesContiguous'
<1> DEFINE old == Stream
           new == Stream'
<1>1. Header(m) \in Parts
  BY DEF Header, Parts
<1>2. old \in Seq(Parts) /\ Len(old) \in Nat
  BY StreamType
<1>3. /\ Len(new) = Len(old) + 1 /\ new[Len(old) + 1] = Header(m)
      /\ \A i \in 1 .. Len(old) : new[i] = old[i]
  BY <1>1, <1>2, AppendProperties
<1>4. \A i \in 1 .. Len(old) :
        IF old[i].part = "head"
        THEN i < Len(old) => old[i + 1] = Body(old[i].msg)
        ELSE i > 1 /\ old[i - 1] = Header(old[i].msg)
  BY DEF FramesContiguous
<1>5. old = <<>> => Len(old) = 0
  OBVIOUS
<1>6. Len(old) # 0 => old[Len(old)].part = "body"
  BY <1>2, <1>5, EmptySeq DEF LastPart
<1> HIDE DEF old, new
<1>7. \A i \in 1 .. Len(new) :
        IF new[i].part = "head"
        THEN i < Len(new) => new[i + 1] = Body(new[i].msg)
        ELSE i > 1 /\ new[i - 1] = Header(new[i].msg)
  <2> TAKE i \in 1 .. Len(new)
  <2>1. CASE i < Len(old)
    <3>1. i \in 1 .. Len(old) /\ i + 1 \in 1 .. Len(old) /\ new[i] = old[i] /\ new[i + 1] = old[i + 1]
      BY <2>1, <1>2, <1>3
    <3>2. i > 1 => new[i - 1] = old[i - 1]
      BY <2>1, <1>2, <1>3
    <3>3. QED
      BY <2>1, <3>1, <3>2, <1>4
  <2>2. CASE i = Len(old)
    <3>1. i \in 1 .. Len(old) /\ new[i] = old[i] /\ new[i + 1] = Header(m) /\ i # 0
      BY <2>2, <1>2, <1>3
    <3>2. i > 1 => new[i - 1] = old[i - 1]
      BY <2>2, <1>2, <1>3
    <3>3. QED
      BY <2>2, <3>1, <3>2, <1>4, <1>6 DEF Header, Body
  <2>3. CASE i = Len(old) + 1
    BY <2>3, <1>2, <1>3, <1>6 DEF Header, Body
  <2>4. QED
    BY <2>1, <2>2, <2>3, <1>2, <1>3
<1>8. QED
  BY <1>7 DEF FramesContiguous, Header, Body, new

LEMMA BodyContiguous ==
    ASSUME TypeOK, FramesContiguous, NEW m \in 1 .. MaxMsgs,
           Stream # <<>>, LastPart(Stream) = Header(m),
           Stream' = Append(Stream, Body(m))
    PROVE  FramesContiguous'
<1> DEFINE old == Stream
           new == Stream'
<1>1. Body(m) \in Parts
  BY DEF Body, Parts
<1>2. old \in Seq(Parts) /\ Len(old) \in Nat
  BY StreamType
<1>3. /\ Len(new) = Len(old) + 1 /\ new[Len(old) + 1] = Body(m)
      /\ \A i \in 1 .. Len(old) : new[i] = old[i]
  BY <1>1, <1>2, AppendProperties
<1>4. \A i \in 1 .. Len(old) :
        IF old[i].part = "head"
        THEN i < Len(old) => old[i + 1] = Body(old[i].msg)
        ELSE i > 1 /\ old[i - 1] = Header(old[i].msg)
  BY DEF FramesContiguous
<1>6. Len(old) > 0 /\ old[Len(old)] = Header(m)
  BY <1>2, EmptySeq DEF LastPart
<1> HIDE DEF old, new
<1>7. \A i \in 1 .. Len(new) :
        IF new[i].part = "head"
        THEN i < Len(new) => new[i + 1] = Body(new[i].msg)
        ELSE i > 1 /\ new[i - 1] = Header(new[i].msg)
  <2> TAKE i \in 1 .. Len(new)
  <2>1. CASE i < Len(old)
    <3>1. i \in 1 .. Len(old) /\ i + 1 \in 1 .. Len(old) /\ new[i] = old[i] /\ new[i + 1] = old[i + 1]
      BY <2>1, <1>2, <1>3
    <3>2. i > 1 => new[i - 1] = old[i - 1]
      BY <2>1, <1>2, <1>3
    <3>3. QED
      BY <2>1, <3>1, <3>2, <1>4
  <2>2. CASE i = Len(old)
    <3>1. i \in 1 .. Len(old) /\ new[i] = old[i] /\ new[i + 1] = Body(m) /\ i # 0
      BY <2>2, <1>2, <1>3
    <3>2. i > 1 => new[i - 1] = old[i - 1]
      BY <2>2, <1>2, <1>3
    <3>3. QED
      BY <2>2, <3>1, <3>2, <1>4, <1>6 DEF Header, Body
  <2>3. CASE i = Len(old) + 1
    BY <2>3, <1>2, <1>3, <1>6 DEF Header, Body
  <2>4. QED
    BY <2>1, <2>2, <2>3, <1>2, <1>3
<1>8. QED
  BY <1>7 DEF FramesContiguous, Header, Body, new

(* What is written stays written when the stream grows.                    *)
LEMMA StaysWritten ==
    ASSUME TypeOK, NEW p \in Parts, Stream' = Append(Stream, p), NEW q,
           \E i \in 1 .. Len(Stream) : Stream[i] = q
    PROVE  \E k \in 1 .. Len(Stream') : Stream'[k] = q
<1>1. PICK i \in 1 .. Len(Stream) : Stream[i] = q
  OBVIOUS
<1>2. i \in 1 .. Len(Stream') /\ Stream'[i] = q
  BY <1>1, StreamType, AppendProperties
<1>3. QED
  BY <1>2

LEMMA NowWritten ==
    ASSUME TypeOK, NEW p \in Parts, Stream' = Append(Stream, p)
    PROVE  \E k \in 1 .. Len(Stream') : Stream'[k] = p
<1>1. Len(Stream') \in 1 .. Len(Stream') /\ Stream'[Len(Stream')] = p
  BY StreamType, AppendProperties
<1>2. QED
  BY <1>1

-----------------------------------------------------------------------------
(* The initial state.                                                      *)
LEMMA InitHolds == Init => SInv /\ FInv
<1> SUFFICES ASSUME Init PROVE SInv /\ FInv
  OBVIOUS
<1>1. TypeOK
  <2>1. output \in Seq(Parts) /\ wire \in Seq(Parts)
    BY DEF Init
  <2>2. inCallback \in BOOLEAN /\ exiting \in BOOLEAN /\ writePending \in BOOLEAN /\ touchedDead \subseteq Threads
    BY Zenon DEF Init
  <2>3. lock \in Threads \cup {NoThread} /\ conn \in {"open", "peer", "bye", "drained"}
    BY DEF Init
  <2>4. /\ pc \in [Threads -> {"idle", "mark", "head", "body", "throw"}]
        /\ \A t \in Workers : pc[t] # "throw"
        /\ kind \in [Threads -> {"send", "bye", "disconn"}]
    BY DEF Init, Threads
  <2>5. /\ cur \in [Threads -> 0 .. MaxMsgs]
        /\ msgs \in 0 .. MaxMsgs /\ farewells \subseteq 1 .. MaxMsgs
    BY SendAssumption DEF Init
  <2>6. QED
    BY <2>1, <2>2, <2>3, <2>4, <2>5 DEF TypeOK
<1>2. Stream = <<>>
  BY DEF Init, Stream
<1>3. Len(Stream) = 0
  BY <1>2
<1>4. Calls
  BY SendAssumption DEF Init, Calls, Bye, Threads
<1>5. FramesContiguous
  BY <1>3 DEF FramesContiguous
<1>6. Writing /\ HeadsWritten
  BY <1>2 DEF Init, Writing, HeadsWritten
<1>7. FarewellsWritten /\ FarewellDelivered
  BY DEF Init, FarewellsWritten, FarewellDelivered
<1>8. QED
  BY <1>1, <1>4, <1>5, <1>6, <1>7 DEF SInv, FInv

-----------------------------------------------------------------------------
(* Steps that add nothing to the stream and end nothing: nobody starts or  *)
(* leaves the gap between the two writes.                                  *)
LEMMA QuietKeeps ==
    ASSUME SInv, SmallTypes', output' \in Seq(Parts), wire' \in Seq(Parts),
           Stream' = Stream, conn' = conn,
           conn = "open" => \A t \in Threads : pc'[t] = "body" => pc[t] = "body" /\ cur'[t] = cur[t],
           conn = "drained" => wire' = wire /\ farewells' = farewells,
           conn = "drained" => \A m \in farewells : Interrupted(m) => Interrupted(m)'
    PROVE  TypeOK' /\ HeadsWritten' /\ FarewellDelivered'
<1>1. TypeOK'
  BY DEF TypeOK, SmallTypes
<1>2. HeadsWritten'
  BY DEF SInv, HeadsWritten, Written, Header
<1>3. FarewellDelivered'
  <2> SUFFICES ASSUME conn = "drained", NEW m \in farewells
               PROVE  (OnWire(Header(m)) /\ OnWire(Body(m)))' \/ Interrupted(m)'
    BY DEF FarewellDelivered
  <2>1. (OnWire(Header(m)) /\ OnWire(Body(m))) \/ Interrupted(m)
    BY DEF SInv, FarewellDelivered
  <2>2. OnWire(Header(m)) /\ OnWire(Body(m)) => (OnWire(Header(m)) /\ OnWire(Body(m)))'
    BY DEF OnWire, Header, Body
  <2>3. QED
    BY <2>1, <2>2
<1>4. QED
  BY <1>1, <1>2, <1>3

LEMMA QuietFrames ==
    ASSUME FInv, Stream' = Stream, conn' = conn,
           \A t \in Threads : pc'[t] = "body" <=> pc[t] = "body",
           \A t \in Threads : pc[t] = "body" => (lock' = t \/ Workers = {}) /\ cur'[t] = cur[t]
    PROVE  FInv'
<1>1. FramesContiguous'
  BY DEF FInv, FramesContiguous
<1>2. Writing'
  BY Zenon DEF FInv, Writing, LastPart, Header
<1>3. QED
  BY <1>1, <1>2 DEF FInv

-----------------------------------------------------------------------------
(* The steps, in any build.                                                *)
LEMMA BeginKeeps ==
    ASSUME SInv, NEW t \in Threads, NEW k \in {"send", "bye", "disconn"},
           NEW cb \in BOOLEAN, Begin(t, k, cb)
    PROVE  SInv'
<1> USE DEF SInv, Begin
<1>1. SmallTypes'
  <2>1. t \in Workers => pc'[t] # "throw"
    BY DEF TypeOK
  <2>2. msgs' \in 1 .. MaxMsgs
    BY SendAssumption DEF TypeOK
  <2>3. inCallback' \in BOOLEAN
    BY Zenon DEF TypeOK
  <2>4. lock' \in Threads \cup {NoThread}
    BY DEF TypeOK
  <2>5. exiting' \in BOOLEAN /\ writePending' \in BOOLEAN /\ touchedDead' \subseteq Threads
    BY Zenon DEF TypeOK
  <2>6. /\ pc' \in [Threads -> {"idle", "mark", "head", "body", "throw"}]
        /\ \A w \in Workers : pc'[w] # "throw"
    BY <2>1 DEF TypeOK, Threads
  <2>7. kind' \in [Threads -> {"send", "bye", "disconn"}]
    BY DEF TypeOK
  <2>8. cur' \in [Threads -> 0 .. MaxMsgs] /\ farewells' \subseteq 1 .. MaxMsgs
    BY <2>2 DEF TypeOK
  <2>9. conn' \in {"open", "peer", "bye", "drained"}
    BY DEF TypeOK
  <2>10. QED
    BY <2>2, <2>3, <2>4, <2>5, <2>6, <2>7, <2>8, <2>9 DEF SmallTypes
<1>2. Stream' = Stream /\ output' \in Seq(Parts) /\ wire' \in Seq(Parts) /\ conn' = "open" /\ conn = "open"
  BY DEF Stream, TypeOK
<1>3. \A u \in Threads : pc'[u] = "body" => pc[u] = "body" /\ cur'[u] = cur[u]
  BY DEF TypeOK
<1>5. TypeOK' /\ HeadsWritten' /\ FarewellDelivered'
  BY <1>1, <1>2, <1>3, QuietKeeps
<1>6. Calls'
  <2>1. \A w \in Workers : kind'[w] # "bye"
    BY SendAssumption DEF Calls, TypeOK, Threads
  <2>2. \A u \in Threads : pc'[u] \in {"mark", "head", "body"} => cur'[u] \in 1 .. MaxMsgs
    BY SendAssumption DEF Calls, TypeOK
  <2>3. Bye'
    <3>1. CASE t = Loop
      BY <3>1 DEF Calls, Bye, TypeOK, Threads
    <3>2. CASE t # Loop
      BY <3>2 DEF Calls, Bye, TypeOK, Threads
    <3>3. QED
      BY <3>1, <3>2
  <2>4. QED
    BY <2>1, <2>2, <2>3 DEF Calls
<1>7. FarewellsWritten'
  <2> SUFFICES ASSUME NEW m \in farewells'
               PROVE  (\E u \in Threads : UnderWay(u, m)') \/ (Written(Header(m)) /\ Written(Body(m)))'
    BY DEF FarewellsWritten
  <2>1. CASE m \in farewells
    <3>1. (\E u \in Threads : UnderWay(u, m)) \/ (Written(Header(m)) /\ Written(Body(m)))
      BY <1>2, <2>1 DEF FarewellsWritten
    <3>2. ASSUME NEW u \in Threads, UnderWay(u, m) PROVE UnderWay(u, m)'
      BY <3>2 DEF UnderWay, TypeOK
    <3>3. (Written(Header(m)) /\ Written(Body(m))) => (Written(Header(m)) /\ Written(Body(m)))'
      BY <1>2 DEF Written, Header, Body
    <3>4. QED
      BY <3>1, <3>2, <3>3
  <2>2. CASE m \notin farewells
    <3>1. k = "disconn" /\ m = msgs + 1
      BY <2>2
    <3>2. UnderWay(t, m)'
      BY <3>1 DEF UnderWay, TypeOK
    <3>3. QED
      BY <3>2
  <2>3. QED
    BY <2>1, <2>2
<1>8. QED
  BY <1>5, <1>6, <1>7

LEMMA TouchDeadKeeps ==
    ASSUME SInv, NEW t \in Threads, TouchDead(t)
    PROVE  SInv'
<1> USE DEF SInv, TouchDead
<1>1. SmallTypes'
  BY DEF TypeOK, SmallTypes, Threads
<1>2. Stream' = Stream /\ output' \in Seq(Parts) /\ wire' \in Seq(Parts) /\ conn' = conn /\ conn # "open"
  BY DEF Stream, TypeOK
<1>3. \A m \in farewells : Interrupted(m) => Interrupted(m)'
  BY DEF Interrupted
<1>4. TypeOK' /\ HeadsWritten' /\ FarewellDelivered'
  BY <1>1, <1>2, <1>3, QuietKeeps
<1>5. Calls' /\ FarewellsWritten'
  BY DEF TypeOK, Calls, Bye, FarewellsWritten, Threads
<1>6. QED
  BY <1>4, <1>5

(* A step of a call that goes on keeps the farewells.                      *)
LEMMA CallGoesOn ==
    ASSUME SInv, conn = "open", farewells' = farewells, cur' = cur, NEW t \in Threads,
           \A u \in Threads : u # t => pc'[u] = pc[u], pc'[t] \in {"mark", "head", "body"},
           \A q : Written(q) => Written(q)'
    PROVE  FarewellsWritten'
<1> SUFFICES ASSUME NEW m \in farewells
             PROVE  (\E u \in Threads : UnderWay(u, m)') \/ (Written(Header(m)) /\ Written(Body(m)))'
  BY DEF FarewellsWritten
<1>1. (\E u \in Threads : UnderWay(u, m)) \/ (Written(Header(m)) /\ Written(Body(m)))
  BY DEF SInv, FarewellsWritten
<1>2. ASSUME NEW u \in Threads, UnderWay(u, m) PROVE UnderWay(u, m)'
  BY <1>2 DEF UnderWay
<1>3. Written(Header(m)) /\ Written(Body(m)) => (Written(Header(m)) /\ Written(Body(m)))'
  BY DEF Header, Body
<1>4. QED
  BY <1>1, <1>2, <1>3

LEMMA MarkKeeps ==
    ASSUME SInv, NEW t \in Threads, mark_exiting(t)
    PROVE  SInv'
<1> USE DEF SInv, mark_exiting
<1>1. SmallTypes'
  BY DEF TypeOK, SmallTypes, Threads
<1>2. Stream' = Stream /\ output' \in Seq(Parts) /\ wire' \in Seq(Parts) /\ conn' = conn /\ conn = "open"
  BY DEF Stream, TypeOK
<1>3. \A u \in Threads : pc'[u] = "body" => pc[u] = "body" /\ cur'[u] = cur[u]
  BY DEF TypeOK
<1>4. TypeOK' /\ HeadsWritten' /\ FarewellDelivered'
  BY <1>1, <1>2, <1>3, QuietKeeps
<1>5. Calls'
  BY DEF TypeOK, Calls, Bye, Threads
<1>6. FarewellsWritten'
  <2>1. \A q : Written(q) => Written(q)'
    BY <1>2 DEF Written
  <2>2. pc'[t] = "head" /\ \A u \in Threads : u # t => pc'[u] = pc[u]
    BY DEF TypeOK
  <2>3. QED
    BY <2>1, <2>2, CallGoesOn
<1>7. QED
  BY <1>4, <1>5, <1>6

LEMMA WriteHeadKeeps ==
    ASSUME SInv, NEW t \in Threads, WriteHead(t)
    PROVE  SInv'
<1> USE DEF SInv, WriteHead
<1>1. cur[t] \in 1 .. MaxMsgs
  BY DEF Calls
<1>2. Header(cur[t]) \in Parts
  BY <1>1 DEF Header, Parts
<1>3. Stream' = Append(Stream, Header(cur[t])) /\ output' \in Seq(Parts) /\ wire' \in Seq(Parts)
  BY <1>2, StreamGrows
<1>4. \A q : Written(q) => Written(q)'
  BY <1>2, <1>3, StaysWritten DEF Written
<1>5. Written(Header(cur[t]))'
  BY <1>2, <1>3, NowWritten DEF Written, Header
<1>6. pc'[t] = "body" /\ \A u \in Threads : u # t => pc'[u] = pc[u]
  BY DEF TypeOK
<1>7. TypeOK'
  <2>1. /\ pc' \in [Threads -> {"idle", "mark", "head", "body", "throw"}]
        /\ \A u \in Workers : pc'[u] # "throw"
    BY DEF TypeOK, Threads
  <2>2. lock' \in Threads \cup {NoThread}
    BY DEF TypeOK
  <2>3. QED
    BY <1>3, <2>1, <2>2 DEF TypeOK
<1>8. Calls'
  <2>2. Bye'
    <3>1. CASE t = Loop
      BY <3>1, SendAssumption DEF Calls, Bye, TypeOK, Threads
    <3>2. CASE t # Loop
      BY <3>2, SendAssumption DEF Calls, Bye, TypeOK, Threads, MayLock
    <3>3. QED
      BY <3>1, <3>2
  <2>3. \A u \in Threads : pc'[u] \in {"mark", "head", "body"} => cur'[u] \in 1 .. MaxMsgs
    BY <1>1 DEF TypeOK, Calls
  <2>4. QED
    BY <2>2, <2>3 DEF Calls
<1>9. HeadsWritten'
  <2> SUFFICES ASSUME NEW u \in Threads, pc'[u] = "body" PROVE Written(Header(cur[u]))'
    BY DEF HeadsWritten
  <2>1. CASE u = t
    BY <2>1, <1>5
  <2>2. CASE u # t
    <3>1. Written(Header(cur[u]))
      BY <2>2, <1>6 DEF HeadsWritten
    <3>2. QED
      BY <3>1, <1>4 DEF Header
  <2>3. QED
    BY <2>1, <2>2
<1>10. FarewellsWritten'
  BY <1>4, <1>6, CallGoesOn
<1>11. FarewellDelivered'
  BY DEF FarewellDelivered
<1>12. QED
  BY <1>7, <1>8, <1>9, <1>10, <1>11

LEMMA WriteBodyKeeps ==
    ASSUME SInv, NEW t \in Threads, WriteBody(t)
    PROVE  SInv'
<1> USE DEF SInv, WriteBody
<1>1. cur[t] \in 1 .. MaxMsgs /\ conn = "open" /\ conn' = "open"
  BY DEF Calls
<1>2. Body(cur[t]) \in Parts
  BY <1>1 DEF Body, Parts
<1>3. Stream' = Append(Stream, Body(cur[t])) /\ output' \in Seq(Parts) /\ wire' \in Seq(Parts)
  BY <1>2, StreamGrows
<1>4. \A q : Written(q) => Written(q)'
  BY <1>2, <1>3, StaysWritten DEF Written
<1>5. Written(Body(cur[t]))'
  BY <1>2, <1>3, NowWritten DEF Written, Body
<1>6. pc'[t] \in {"idle", "throw"} /\ \A u \in Threads : u # t => pc'[u] = pc[u]
  BY DEF TypeOK, AfterBody
<1>7. TypeOK'
  <2>1. /\ pc' \in [Threads -> {"idle", "mark", "head", "body", "throw"}]
        /\ \A u \in Workers : pc'[u] # "throw"
    BY SendAssumption DEF TypeOK, Threads, AfterBody, Calls
  <2>2. lock' \in Threads \cup {NoThread}
    BY DEF TypeOK, AfterBody
  <2>3. inCallback' \in BOOLEAN
    <3>1. CASE kind[t] = "bye"
      BY <3>1, Zenon DEF TypeOK, AfterBody
    <3>2. CASE kind[t] # "bye"
      BY <3>2, Zenon DEF TypeOK, AfterBody
    <3>3. QED
      BY <3>1, <3>2
  <2>4. QED
    BY <1>3, <2>1, <2>2, <2>3 DEF TypeOK
<1>8. Calls'
  <2>1. Bye'
    <3>1. CASE t = Loop
      BY <1>1, <3>1 DEF Calls, Bye, AfterBody, TypeOK, Threads
    <3>2. CASE t # Loop
      BY <1>1, <3>2, SendAssumption DEF Calls, Bye, AfterBody, TypeOK, Threads, MayLock
    <3>3. QED
      BY <3>1, <3>2
  <2>2. \A u \in Threads : pc'[u] \in {"mark", "head", "body"} => cur'[u] \in 1 .. MaxMsgs
    BY <1>6 DEF Calls
  <2>3. QED
    BY <1>1, <2>1, <2>2 DEF Calls
<1>9. HeadsWritten'
  <2> SUFFICES ASSUME NEW u \in Threads, pc'[u] = "body" PROVE Written(Header(cur[u]))'
    BY DEF HeadsWritten
  <2>1. u # t /\ pc[u] = "body"
    BY <1>6
  <2>2. Written(Header(cur[u]))
    BY <2>1, <1>1 DEF HeadsWritten
  <2>3. QED
    BY <2>2, <1>4 DEF Header
<1>10. FarewellsWritten'
  <2> SUFFICES ASSUME NEW m \in farewells
               PROVE  (\E u \in Threads : UnderWay(u, m)') \/ (Written(Header(m)) /\ Written(Body(m)))'
    BY DEF FarewellsWritten
  <2>1. (\E u \in Threads : UnderWay(u, m)) \/ (Written(Header(m)) /\ Written(Body(m)))
    BY <1>1 DEF FarewellsWritten
  <2>2. CASE Written(Header(m)) /\ Written(Body(m))
    BY <2>2, <1>4 DEF Header, Body
  <2>3. CASE \E u \in Threads : UnderWay(u, m)
    <3>1. PICK u \in Threads : UnderWay(u, m)
      BY <2>3
    <3>2. CASE u = t
      <4>1. Written(Header(m)) /\ cur[t] = m
        BY <1>1, <3>1, <3>2 DEF HeadsWritten, UnderWay
      <4>2. QED
        BY <4>1, <1>4, <1>5 DEF Header, Body
    <3>3. CASE u # t
      BY <3>1, <3>3, <1>6 DEF UnderWay
    <3>4. QED
      BY <3>2, <3>3
  <2>4. QED
    BY <2>1, <2>2, <2>3
<1>11. FarewellDelivered'
  BY <1>1 DEF FarewellDelivered
<1>12. QED
  BY <1>7, <1>8, <1>9, <1>10, <1>11

LEMMA FlushStream ==
    ASSUME TypeOK, Flush
    PROVE  /\ Stream' = Stream /\ output' \in Seq(Parts) /\ wire' \in Seq(Parts)
           /\ writePending' \in BOOLEAN
<1>1. PICK n \in 1 .. Len(output) :
        /\ wire' = wire \o SubSeq(output, 1, n)
        /\ output' = SubSeq(output, n + 1, Len(output))
        /\ writePending' = (writePending \/ n = Len(output))
  BY DEF Flush
<1>2. Stream' = Stream /\ output' \in Seq(Parts) /\ wire' \in Seq(Parts)
  BY <1>1, StreamMoves
<1>3. writePending' \in BOOLEAN
  BY <1>1, Zenon
<1>4. QED
  BY <1>2, <1>3

LEMMA FlushKeeps ==
    ASSUME SInv, Flush
    PROVE  SInv'
<1> USE DEF SInv
<1>2. Stream' = Stream /\ output' \in Seq(Parts) /\ wire' \in Seq(Parts) /\ writePending' \in BOOLEAN
  BY FlushStream
<1>4. conn' = conn /\ conn = "open" /\ pc' = pc /\ cur' = cur /\ lock' = lock
  BY DEF Flush, LoopFree
<1>5. SmallTypes'
  BY <1>2, <1>4 DEF TypeOK, SmallTypes, Flush
<1>7. TypeOK' /\ HeadsWritten' /\ FarewellDelivered'
  BY <1>2, <1>4, <1>5, QuietKeeps
<1>8. Calls' /\ FarewellsWritten'
  BY <1>2, <1>4 DEF Flush, Calls, Bye, FarewellsWritten, UnderWay, Written, Header, Body
<1>9. QED
  BY <1>7, <1>8

(* The three ends of the connection; "drained" comes only with an empty    *)
(* buffer, when the loop has no call under way.                            *)
LEMMA ReleaseKeeps ==
    ASSUME SInv, NEW how \in {"peer", "bye", "drained"}, Release(how), conn = "open",
           SmallTypes', Calls', wire' = wire, farewells' = farewells, cur' = cur,
           how = "drained" => output = <<>> /\ pc[Loop] = "idle" /\ pc' = pc
    PROVE  SInv'
<1> USE DEF SInv
<1>1. conn' = how /\ conn' # "open" /\ output' = <<>>
  BY DEF Release
<1>2. output' \in Seq(Parts) /\ wire' \in Seq(Parts)
  BY <1>1, StreamCut
<1>3. TypeOK'
  BY <1>2 DEF TypeOK, SmallTypes
<1>5. HeadsWritten' /\ FarewellsWritten'
  BY <1>1 DEF HeadsWritten, FarewellsWritten
<1>6. FarewellDelivered'
  <2> SUFFICES ASSUME how = "drained", NEW m \in farewells
               PROVE  (OnWire(Header(m)) /\ OnWire(Body(m)))' \/ Interrupted(m)'
    BY <1>1 DEF FarewellDelivered
  <2>1. Stream = wire
    BY ConcatEmptySeq DEF Stream, TypeOK
  <2>2. (\E u \in Threads : UnderWay(u, m)) \/ (Written(Header(m)) /\ Written(Body(m)))
    BY DEF FarewellsWritten
  <2>3. CASE Written(Header(m)) /\ Written(Body(m))
    BY <2>1, <2>3 DEF Written, OnWire, Header, Body
  <2>4. CASE \E u \in Threads : UnderWay(u, m)
    <3>1. PICK u \in Threads : UnderWay(u, m)
      BY <2>4
    <3>2. u \in Workers
      BY <3>1 DEF UnderWay, Threads
    <3>3. QED
      BY <3>1, <3>2 DEF UnderWay, Interrupted
  <2>5. QED
    BY <2>2, <2>3, <2>4
<1>7. QED
  BY <1>3, <1>5, <1>6

LEMMA ThrowByeKeeps ==
    ASSUME SInv, ThrowBye
    PROVE  SInv'
<1> USE DEF SInv, ThrowBye
<1>1. conn = "open" /\ Loop \in Threads
  BY DEF Calls, Bye, Threads
<1>3. SmallTypes'
  BY SendAssumption DEF TypeOK, SmallTypes, Threads, Release
<1>4. Calls'
  BY SendAssumption DEF TypeOK, Calls, Bye, Threads
<1>5. QED
  BY <1>1, <1>3, <1>4, ReleaseKeeps

LEMMA PeerGoneKeeps ==
    ASSUME SInv, PeerGone
    PROVE  SInv'
<1> USE DEF SInv, PeerGone
<1>2. SmallTypes'
  BY DEF TypeOK, SmallTypes, Release
<1>3. Calls'
  BY DEF Calls, Bye, LoopFree
<1>4. QED
  BY <1>2, <1>3, ReleaseKeeps DEF LoopFree

LEMMA OnWritableKeeps ==
    ASSUME SInv, on_writable
    PROVE  SInv'
<1> USE DEF SInv, on_writable
<1>2. SmallTypes' /\ Calls'
  BY DEF TypeOK, SmallTypes, Release, Calls, Bye, LoopFree
<1>3. CASE exiting /\ output = <<>>
  BY <1>2, <1>3, ReleaseKeeps DEF LoopFree
<1>4. CASE ~(exiting /\ output = <<>>)
  <2>1. Stream' = Stream /\ output' \in Seq(Parts) /\ wire' \in Seq(Parts) /\ conn' = conn
    BY <1>4 DEF Stream, TypeOK
  <2>2. TypeOK' /\ HeadsWritten' /\ FarewellDelivered'
    BY <1>2, <2>1, QuietKeeps DEF LoopFree
  <2>3. FarewellsWritten'
    BY <2>1 DEF FarewellsWritten, UnderWay, Written, Header, Body
  <2>4. QED
    BY <1>2, <2>2, <2>3
<1>5. QED
  BY <1>3, <1>4

LEMMA StutterKeeps ==
    ASSUME SInv, UNCHANGED vars
    PROVE  SInv'
<1>1. TypeOK' /\ Calls'
  BY DEF SInv, vars, TypeOK, Calls, Bye
<1>2. Stream' = Stream
  BY DEF vars, Stream
<1>3. HeadsWritten'
  BY <1>2 DEF SInv, vars, HeadsWritten, Written, Header
<1>4. FarewellsWritten'
  BY <1>2 DEF SInv, vars, FarewellsWritten, UnderWay, Written, Header, Body
<1>5. FarewellDelivered'
  BY DEF SInv, vars, FarewellDelivered, OnWire, Header, Body, Interrupted
<1>6. QED
  BY <1>1, <1>3, <1>4, <1>5 DEF SInv

-----------------------------------------------------------------------------
(* The frames, where one thread writes at a time.                          *)
LEMMA BeginFrames ==
    ASSUME SInv, FInv, NEW t \in Threads, NEW k \in {"send", "bye", "disconn"},
           NEW cb \in BOOLEAN, Begin(t, k, cb)
    PROVE  FInv'
<1> USE DEF FInv, Begin
<1>2. Stream' = Stream /\ conn' = conn
  BY DEF Stream
<1>3. \A u \in Threads : pc'[u] = "body" <=> pc[u] = "body"
  BY DEF SInv, TypeOK
<1>4. ASSUME NEW u \in Threads, pc[u] = "body"
      PROVE  (lock' = u \/ Workers = {}) /\ cur'[u] = cur[u]
  <2>1. u # t /\ u # NoThread
    BY <1>4, SendAssumption
  <2>2. cur'[u] = cur[u]
    BY <2>1 DEF SInv, TypeOK
  <2>3. CASE lock = u
    <3>1. ~cb
      BY <2>1, <2>3 DEF MayLock
    <3>2. QED
      BY <3>1, <2>2, <2>3
  <2>4. CASE Workers = {}
    BY <2>2, <2>4
  <2>5. QED
    BY <1>4, <2>3, <2>4 DEF Writing
<1>5. QED
  BY <1>2, <1>3, <1>4, QuietFrames

LEMMA MarkFrames ==
    ASSUME SInv, FInv, NEW t \in Threads, mark_exiting(t)
    PROVE  FInv'
<1> USE DEF FInv, mark_exiting
<1>1. Stream' = Stream /\ conn' = conn
  BY DEF Stream
<1>2. /\ \A u \in Threads : pc'[u] = "body" <=> pc[u] = "body"
      /\ \A u \in Threads : pc[u] = "body" => (lock' = u \/ Workers = {}) /\ cur'[u] = cur[u]
  BY DEF SInv, TypeOK, Writing
<1>3. QED
  BY <1>1, <1>2, QuietFrames

LEMMA TouchDeadFrames ==
    ASSUME SInv, FInv, NEW t \in Threads, TouchDead(t)
    PROVE  FInv'
<1> USE DEF FInv, TouchDead
<1>1. Stream' = Stream /\ conn' = conn
  BY DEF Stream
<1>2. \A u \in Threads : pc[u] # "body" /\ pc'[u] # "body"
  BY DEF SInv, TypeOK, Writing
<1>3. QED
  BY <1>1, <1>2, QuietFrames

LEMMA WriteHeadFrames ==
    ASSUME SInv, FInv, OneWriter, NEW t \in Threads, WriteHead(t)
    PROVE  FInv'
<1> USE DEF FInv, WriteHead
<1>0. TypeOK
  BY DEF SInv
<1>1. cur[t] \in 1 .. MaxMsgs
  BY DEF SInv, Calls
<1>2. Header(cur[t]) \in Parts
  BY <1>1 DEF Header, Parts
<1>3. Stream' = Append(Stream, Header(cur[t]))
  BY <1>0, <1>2, StreamGrows
<1>4. Stream' # <<>> /\ LastPart(Stream') = Header(cur[t])
  BY <1>0, <1>2, <1>3, StreamType, AppendProperties DEF LastPart
<1>5. (lock' = t \/ Workers = {}) /\ conn' = "open"
  BY DEF OneWriter
<1>6. \A u \in Threads : pc[u] # "body"
  <2> SUFFICES ASSUME NEW u \in Threads, pc[u] = "body" PROVE FALSE
    OBVIOUS
  <2>1. u # t /\ u # NoThread
    BY SendAssumption
  <2>2. lock = u \/ Workers = {}
    BY DEF Writing
  <2>3. QED
    BY <2>1, <2>2 DEF MayLock, Threads
<1>7. Stream = <<>> \/ LastPart(Stream).part = "body"
  BY <1>6 DEF Writing
<1>8. FramesContiguous'
  BY <1>0, <1>1, <1>3, <1>7, HeaderContiguous
<1>9. Writing'
  <2>1. \A u \in Threads : pc'[u] = "body" => u = t
    BY <1>0, <1>6 DEF TypeOK
  <2>2. pc'[t] = "body" /\ cur'[t] = cur[t]
    BY <1>0 DEF TypeOK
  <2>3. QED
    BY <1>4, <1>5, <2>1, <2>2 DEF Writing, Header
<1>10. QED
  BY <1>8, <1>9

LEMMA WriteBodyFrames ==
    ASSUME SInv, FInv, NEW t \in Threads, WriteBody(t)
    PROVE  FInv'
<1> USE DEF FInv, WriteBody
<1>0. TypeOK
  BY DEF SInv
<1>1. cur[t] \in 1 .. MaxMsgs
  BY DEF SInv, Calls
<1>2. Body(cur[t]) \in Parts
  BY <1>1 DEF Body, Parts
<1>3. Stream' = Append(Stream, Body(cur[t]))
  BY <1>0, <1>2, StreamGrows
<1>4. Stream' # <<>> /\ LastPart(Stream') = Body(cur[t])
  BY <1>0, <1>2, <1>3, StreamType, AppendProperties DEF LastPart
<1>5. Stream # <<>> /\ LastPart(Stream) = Header(cur[t])
  BY DEF Writing
<1>6. \A u \in Threads : pc[u] = "body" => u = t
  BY DEF Writing, Threads
<1>7. \A u \in Threads : pc'[u] # "body"
  BY <1>0, <1>6 DEF TypeOK, AfterBody
<1>8. FramesContiguous'
  BY <1>0, <1>1, <1>3, <1>5, BodyContiguous
<1>9. Writing'
  BY <1>4, <1>7 DEF Writing, Body
<1>10. QED
  BY <1>8, <1>9

LEMMA FlushFrames ==
    ASSUME SInv, FInv, Flush
    PROVE  FInv'
<1>1. Stream' = Stream
  BY FlushStream DEF SInv
<1>2. conn' = conn /\ pc' = pc /\ cur' = cur /\ lock' = lock
  BY DEF Flush
<1>3. QED
  BY <1>1, <1>2, QuietFrames DEF FInv, Writing

LEMMA ReleaseFrames ==
    ASSUME TypeOK, FInv, NEW how \in {"peer", "bye", "drained"}, Release(how), wire' = wire,
           \A u \in Threads : pc'[u] # "body"
    PROVE  FInv'
<1>1. conn' # "open" /\ output' = <<>>
  BY DEF Release
<1>2. FramesContiguous'
  BY <1>1, CutContiguous DEF FInv
<1>3. Writing'
  BY <1>1 DEF Writing
<1>4. QED
  BY <1>2, <1>3 DEF FInv

(* When the loop runs a callback that may end the connection, nobody is    *)
(* between its two writes.                                                 *)
LEMMA NobodyWrites ==
    ASSUME SInv, FInv, LoopFree \/ pc[Loop] = "throw", NEW u \in Threads
    PROVE  pc[u] # "body"
BY SendAssumption DEF SInv, FInv, Calls, Bye, Writing, LoopFree, Threads

LEMMA ThrowByeFrames ==
    ASSUME SInv, FInv, ThrowBye
    PROVE  FInv'
<1>1. \A u \in Threads : pc'[u] # "body"
  BY NobodyWrites DEF ThrowBye, SInv, TypeOK
<1>2. QED
  BY <1>1, ReleaseFrames DEF ThrowBye, SInv

LEMMA PeerGoneFrames ==
    ASSUME SInv, FInv, PeerGone
    PROVE  FInv'
<1>1. \A u \in Threads : pc'[u] # "body"
  BY NobodyWrites DEF PeerGone
<1>2. QED
  BY <1>1, ReleaseFrames DEF PeerGone, SInv

LEMMA OnWritableFrames ==
    ASSUME SInv, FInv, on_writable
    PROVE  FInv'
<1>1. \A u \in Threads : pc[u] # "body" /\ pc'[u] # "body"
  BY NobodyWrites DEF on_writable
<1>2. CASE exiting /\ output = <<>>
  BY <1>1, <1>2, ReleaseFrames DEF on_writable, SInv
<1>3. CASE ~(exiting /\ output = <<>>)
  <2>1. Stream' = Stream /\ conn' = conn
    BY <1>3 DEF on_writable, Stream
  <2>2. QED
    BY <1>1, <2>1, QuietFrames
<1>4. QED
  BY <1>2, <1>3

LEMMA StutterFrames ==
    ASSUME FInv, UNCHANGED vars
    PROVE  FInv'
<1>1. Stream' = Stream /\ conn' = conn /\ pc' = pc /\ cur' = cur /\ lock' = lock
  BY DEF vars, Stream
<1>2. QED
  BY <1>1, QuietFrames DEF FInv, Writing

-----------------------------------------------------------------------------
(* What the theorems below rest on.                                        *)
LEMMA StepKeeps == SInv /\ [Next]_vars => SInv'
<1> SUFFICES ASSUME SInv, [Next]_vars PROVE SInv'
  OBVIOUS
<1>1. CASE \E t \in Threads, k \in {"send", "bye", "disconn"}, cb \in BOOLEAN : Begin(t, k, cb)
  BY <1>1, BeginKeeps
<1>2. CASE \E t \in Threads : Sends(t) \/ TouchDead(t)
  BY <1>2, MarkKeeps, WriteHeadKeeps, WriteBodyKeeps, TouchDeadKeeps DEF Sends
<1>3. CASE ThrowBye \/ Flush \/ on_writable \/ PeerGone
  BY <1>3, ThrowByeKeeps, FlushKeeps, OnWritableKeeps, PeerGoneKeeps
<1>4. CASE UNCHANGED vars
  BY <1>4, StutterKeeps
<1>5. QED
  BY <1>1, <1>2, <1>3, <1>4 DEF Next

LEMMA StepFrames == OneWriter /\ SInv /\ FInv /\ [Next]_vars => FInv'
<1> SUFFICES ASSUME OneWriter, SInv, FInv, [Next]_vars PROVE FInv'
  OBVIOUS
<1>1. CASE \E t \in Threads, k \in {"send", "bye", "disconn"}, cb \in BOOLEAN : Begin(t, k, cb)
  BY <1>1, BeginFrames
<1>2. CASE \E t \in Threads : Sends(t) \/ TouchDead(t)
  BY <1>2, MarkFrames, WriteHeadFrames, WriteBodyFrames, TouchDeadFrames DEF Sends
<1>3. CASE ThrowBye \/ Flush \/ on_writable \/ PeerGone
  BY <1>3, ThrowByeFrames, FlushFrames, OnWritableFrames, PeerGoneFrames
<1>4. CASE UNCHANGED vars
  BY <1>4, StutterFrames
<1>5. QED
  BY <1>1, <1>2, <1>3, <1>4 DEF Next

(* In any build, whichever threads send and whichever of them call         *)
(* send_error_msg_then_disconn: when on_writable ends the connection, the  *)
(* messages that asked for the end have left whole, although the write     *)
(* callback that ends it may have been scheduled for an earlier one; but   *)
(* for that of a worker that is still in its call.                         *)
THEOREM FarewellLeaves == Spec => []FarewellDelivered
<1>1. Init => SInv
  BY InitHolds
<1>2. SInv => FarewellDelivered
  BY DEF SInv
<1>3. QED
  BY <1>1, <1>2, StepKeeps, PTL DEF Spec

(* In a trace build, whichever threads send, and in any build when only    *)
(* the loop sends, the peer receives frames: each header is followed by    *)
(* its own body.                                                           *)
THEOREM SendsWhole == OneWriter /\ Spec => [](TypeOK /\ FramesContiguous)
<1>1. Init => SInv /\ FInv
  BY InitHolds
<1>2. SInv /\ FInv => TypeOK /\ FramesContiguous
  BY DEF SInv, FInv
<1>3. OneWriter => OneWriter'
  BY DEF OneWriter
<1>4. QED
  BY <1>1, <1>2, <1>3, StepKeeps, StepFrames, PTL DEF Spec
=============================================================================
