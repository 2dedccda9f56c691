----------------------------- MODULE NakedJson -----------------------------
(***************************************************************************)
(* Two NakedJsonConnections (CommMan/jmsg_connection.cpp), one that sends  *)
(* and one that receives.  send_msg lets StyledWriter write a value and    *)
(* queues the text; nothing marks where one text ends and the next begins. *)
(* The text arrives in pieces; each schedules the deferred read callback,  *)
(* in which fetch_msg takes what is in the buffer for one document.        *)
(*                                                                         *)
(* The stream is cut anywhere, also within a string: it is a sequence of   *)
(* characters, in which a string is a quote, its characters and a quote.   *)
(* The string 'b' stands for one that reads like a document, "{}".  The    *)
(* other lexemes are a character each: a cut within one of them leaves a   *)
(* piece that does not end, and one that does not begin, an object.        *)
(***************************************************************************)
EXTENDS JsonReader, JsonWriter

CONSTANTS
    Values,      \* the values that are sent
    MaxSent,     \* bound: how many of them
    DepthLimit   \* stackLimit_g

VARIABLES
    sent,      \* the values sent so far: what each is, and its text
    arrived,   \* how many of the characters the loop has moved to the buffer
    taken,     \* how much of it fetch_msg has taken out
    handled    \* history: the documents processed, and where each was taken

vars == <<sent, arrived, taken, handled>>

(* send_msg.                                                               *)
StyledWriter ==
    [style |-> "styled", indent |-> TRUE, comments |-> TRUE, nulls |-> TRUE, narrow |-> FALSE]
Quote == "'"
Says(s) == IF s = "'b'" THEN <<"{", "}">> ELSE SelectSeq(<<NameOf[s]>>, LAMBDA c : c # "")
Spell(l) == IF l \in Strings THEN <<Quote>> \o Says(l) \o <<Quote>> ELSE <<l>>

Wire(v) ==
    LET text == write(StyledWriter, v)
    IN  FlattenSeq([i \in DOMAIN text |-> Spell(text[i])])
Stream == FlattenSeq([k \in DOMAIN sent |-> sent[k].text])

Init == sent = <<>> /\ arrived = 0 /\ taken = 0 /\ handled = <<>>

send_msg(v) ==
    /\ Len(sent) < MaxSent
    /\ sent' = Append(sent, [data |-> Data(v), text |-> Wire(v)])
    /\ UNCHANGED <<arrived, taken, handled>>

Arrive ==
    /\ \E n \in arrived + 1 .. Len(Stream) : arrived' = n
    /\ UNCHANGED <<sent, taken, handled>>

(* The lexemes of the characters c, from the first quote in them on taken  *)
(* for strings: behind the cut of one, what is no string is read as one.   *)
(* All strings that no sender wrote are one, and one without an end is bad.*)
StringOf(content) ==
    IF \E s \in Strings : Says(s) = content
    THEN CHOOSE s \in Strings : Says(s) = content
    ELSE "'0'"

ReadChar(r, c) ==
    IF c = Quote
    THEN IF r.inside THEN [lexemes |-> Append(r.lexemes, StringOf(r.content)),
                           inside |-> FALSE, content |-> <<>>]
         ELSE [r EXCEPT !.inside = TRUE]
    ELSE IF r.inside THEN [r EXCEPT !.content = Append(@, c)]
    ELSE [r EXCEPT !.lexemes = Append(@, c)]

Lexemes(c) ==
    LET r == FoldLeft(ReadChar, [lexemes |-> <<>>, inside |-> FALSE, content |-> <<>>], c)
    IN  IF r.inside THEN Append(r.lexemes, BadToken) ELSE r.lexemes

(* What fetch_msg makes of the buffer.                                     *)
Buffer == SubSeq(Stream, taken + 1, arrived)
fetch_msg(b) == parse(Lexemes(b), AllFeatures(DepthLimit))
IsMessage(r) == r.out = "ok" /\ r.tree[<<>>].kind = "object"

(* The message, with the place where its text starts.                      *)
Message(b, r) == [at |-> taken + skipSpaces(b, 1) - 1, data |-> Data(r.tree)]

(* Mutant: evbuffer_copyout in the place of evbuffer_remove.               *)
LeftInBuffer ==
    /\ taken < arrived
    /\ LET r == fetch_msg(Buffer) IN
       handled' = IF IsMessage(r) THEN Append(handled, Message(Buffer, r)) ELSE handled
    /\ UNCHANGED <<sent, arrived, taken>>

(* on_readable: the first turn of its loop empties the buffer, so that the *)
(* loop ends with the next one, whatever came of the first: an error, a    *)
(* document that is no object, an exception or a message.                  *)
on_readable ==
    /\ taken < arrived
    /\ taken' = arrived
    /\ LET r == fetch_msg(Buffer) IN
       handled' = IF IsMessage(r) THEN Append(handled, Message(Buffer, r)) ELSE handled
    /\ UNCHANGED <<sent, arrived>>

Next == (\E v \in Values : send_msg(v)) \/ Arrive \/ on_readable

Spec == Init /\ [][Next]_vars
-----------------------------------------------------------------------------
(* Where the text of the kth value starts.                                 *)
StartOf(k) == Len(FlattenSeq([i \in 1 .. k - 1 |-> sent[i].text]))

IsSent(h, k) == h.at = StartOf(k) /\ h.data = sent[k].data

(* The ith character of a text is within a string.                         *)
InString(s, i) == Len(SelectSeq(SubSeq(s, 1, i - 1), LAMBDA c : c = Quote)) % 2 = 1

(* The data of the objects inside a value that is one.                     *)
SubValue(d, p) ==
    LET paths == {SubSeq(q, Len(p) + 1, Len(q)) : q \in {r \in DOMAIN d : IsPrefix(p, r)}}
    IN  [q \in paths |-> d[p \o q]]
Inner(d) == {SubValue(d, p) : p \in DOMAIN d \ {<<>>}}

(* h was read from within the text of the kth value: from an object inside *)
(* it, which is then what was read, or from within a string.               *)
IsInside(h, k) ==
    LET text == sent[k].text IN
    \E i \in 2 .. Len(text) :
        /\ h.at = StartOf(k) + i - 1
        /\ InString(text, i) \/ (text[i] = "{" /\ h.data \in Inner(sent[k].data))

(* However the stream is cut into pieces, what is processed is a value     *)
(* that was sent, taken where its text starts, and none is processed twice *)
(* or out of order; the code drops those that share a piece with an        *)
(* earlier one or do not arrive in one piece. There are two exceptions: a  *)
(* piece that begins at an object inside a value is taken for that object, *)
(* and one that begins within a string may be taken for anything, up to an *)
(* object that nobody sent ({} of {"a":"{}"}).                             *)
NakedNeverInvents ==
    \A h \in DOMAIN handled :
        /\ \E k \in DOMAIN sent : IsSent(handled[h], k) \/ IsInside(handled[h], k)
        /\ \A g \in 1 .. h - 1 : handled[g].at < handled[h].at
=============================================================================
