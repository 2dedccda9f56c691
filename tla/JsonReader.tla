----------------------------- MODULE JsonReader -----------------------------
(***************************************************************************)
(* Json::Reader and its copy Json::OurReader (CommMan/json/jsoncpp.cpp).   *)
(* d is the document, F the features, s what the reader knows:             *)
(*                                                                         *)
(*   pos      current_                tree     the value being built       *)
(*   tok      type of the last token  before   commentsBefore_             *)
(*   lex      its lexeme              last     lastValue_, a path          *)
(*   depth    stackDepth_g            lastEnd  lastValueEnd_, 0 for none   *)
(*   p        the top of nodes_       dangles  lastValue_'s value is gone  *)
(*   calls    of readArray and readObject that have not returned, with the *)
(*            index or the name that each is at                            *)
(*   next     where the reader is: "value" at the beginning of readValue,  *)
(*            "behind" the value it has read, at the "name" of a member,   *)
(*            or "none" when the root has been read                        *)
(*   out      "ok", "error" or "throw"                                     *)
(*   alive    lastValue_ did not dangle when a comment was given to it     *)
(*                                                                         *)
(* After an error the code looks for the end of the containers it is in,   *)
(* for the sake of its messages, and returns false; here it just stops.    *)
(***************************************************************************)
EXTENDS JsonValue

Blank    == {" ", "\n"}
CComment == {"/*c*/", "/*n*/"}   \* the second spans two lines
BadToken == "?"
BadString == "'?'"               \* a string with an unknown escape

(* Features::all and Features::strictMode, with what OurFeatures adds.     *)
AllFeatures(limit) ==
    [allowComments |-> TRUE, collectComments |-> TRUE, strictRoot |-> FALSE,
     allowDroppedNullPlaceholders |-> FALSE, allowNumericKeys |-> FALSE,
     failIfExtra |-> FALSE, rejectDupKeys |-> FALSE, stackLimit |-> limit]

StrictMode(limit) ==
    [AllFeatures(limit) EXCEPT !.allowComments = FALSE, !.collectComments = FALSE,
                               !.strictRoot = TRUE]

(* CharReaderBuilder::strictMode.                                          *)
BuilderStrictMode(limit) ==
    [StrictMode(limit) EXCEPT !.failIfExtra = TRUE, !.rejectDupKeys = TRUE]
-----------------------------------------------------------------------------
skipSpaces(d, i) ==
    CHOOSE j \in i .. Len(d) + 1 :
        /\ \A k \in i .. j - 1 : d[k] \in Blank
        /\ j <= Len(d) => d[j] \notin Blank

containsNewLine(d, from, to) == \E j \in from .. to - 1 : d[j] \in {"\n", "/*n*/"}

(* The end of the comment that starts at i.                                *)
CommentEnd(d, i) ==
    IF d[i] \in CComment THEN i + 1
    ELSE CHOOSE j \in i + 1 .. Len(d) + 1 :
            /\ \A k \in i .. j - 2 : d[k] # "\n"
            /\ d[j - 1] = "\n" \/ j = Len(d) + 1

(* A comment on the line on which a value ended belongs to that value,     *)
(* any other to the next one.                                              *)
addComment(d, s, i, e) ==
    IF /\ s.lastEnd # 0
       /\ ~containsNewLine(d, s.lastEnd, i)
       /\ d[i] \in CComment => ~containsNewLine(d, i, e)
    THEN IF s.dangles THEN [s EXCEPT !.alive = FALSE]
         ELSE [s EXCEPT !.tree = SetComment(@, s.last, "same", SubSeq(d, i, e - 1))]
    ELSE [s EXCEPT !.before = @ \o SubSeq(d, i, e - 1)]

readComment(d, F, s, i) ==
    LET e == CommentEnd(d, i)
        r == [s EXCEPT !.pos = e, !.tok = "comment"]
    IN  IF F.collectComments THEN addComment(d, r, i, e) ELSE r

TokenType(l) ==
    CASE l \in Marks -> l
      [] l \in Strings \cup {BadString} -> "string"
      [] l \in Numbers -> "number"
      [] l \in Literals -> "literal"
      [] OTHER -> "error"

readToken(d, F, s) ==
    LET i == skipSpaces(d, s.pos)
    IN  IF i > Len(d) THEN [s EXCEPT !.pos = i, !.tok = "end"]
        ELSE IF d[i] \in CComment \cup {"//"} THEN readComment(d, F, s, i)
        ELSE [s EXCEPT !.pos = i + 1, !.tok = TokenType(d[i]), !.lex = d[i]]

(* The loops of readObject and readArray skip comments whatever the        *)
(* features say; there are as many at most as lexemes.                     *)
skipComments(d, F, s) ==
    LET past[k \in 0 .. Len(d)] ==
            IF k = 0 THEN s
            ELSE LET t == past[k - 1] IN IF t.tok = "comment" THEN readToken(d, F, t) ELSE t
    IN  IF s.tok = "comment" THEN past[Len(d)] ELSE s

skipCommentTokens(d, F, s) ==
    IF F.allowComments THEN skipComments(d, F, readToken(d, F, s))
    ELSE readToken(d, F, s)

Failed(s) == [s EXCEPT !.out = "error"]

(* swapPayload of the current value, p.                                    *)
Put(s, kind, leaf) ==
    [s EXCEPT !.tree = SwapPayload(@, s.p, kind, leaf),
              !.dangles = @ \/ IsStrictPrefix(s.p, s.last)]
-----------------------------------------------------------------------------
(* A call that reads a value of the current container and one that has     *)
(* read it: the current value is pushed on nodes_ and popped.              *)
readChild(s, key) ==
    [s EXCEPT !.tree = Child(@, s.p, key), !.p = Append(@, key), !.next = "value"]

Return(s) == [s EXCEPT !.calls = Front(@), !.next = "behind"]

(* The element with that index, and what follows it (v is the reader       *)
(* behind it): the next element or the end.                                *)
readElement(s, index) ==
    readChild([s EXCEPT !.calls[Len(s.calls)].index = index], ToString(index))

OnSeparator(c) ==
    CASE c.tok = "]" -> Return(c)
      [] c.tok = "," -> readElement(c, Last(c.calls).index + 1)
      [] OTHER -> Failed(c)

AfterElement(d, F, v) == OnSeparator(skipComments(d, F, readToken(d, F, v)))

Call(s, kind) ==
    [Put(s, kind, "") EXCEPT !.calls = Append(@, [kind |-> kind, index |-> 0, name |-> ""])]

(* No comment may stand in an empty array.                                 *)
readArray(d, s) ==
    LET i == skipSpaces(d, s.pos)
    IN  IF i <= Len(d) /\ d[i] = "]"
        THEN [Put(s, "array", "") EXCEPT !.pos = i + 1, !.next = "behind"]
        ELSE readElement(Call(s, "array"), 0)

(* A member: its name, its colon and, behind its value, what separates it  *)
(* from the next one. After a comment that is not looked at again, unless  *)
(* it closes the object.                                                   *)
readMember(d, F, s, name) ==
    LET colon == readToken(d, F, s)
    IN  IF \/ colon.tok # ":"
           \/ F.rejectDupKeys /\ Append(s.p, name) \in DOMAIN colon.tree
        THEN Failed(colon)
        ELSE readChild([colon EXCEPT !.calls[Len(s.calls)].name = name], name)

AfterMember(d, F, v) ==
    LET comma == readToken(d, F, v)
        next  == skipComments(d, F, comma)
    IN  IF comma.tok \notin {"}", ",", "comment"} THEN Failed(comma)
        ELSE IF next.tok = "}" THEN Return(next)
        ELSE [next EXCEPT !.next = "name"]

(* The test for an empty object is passed after a member with an empty     *)
(* name, too.                                                              *)
OnName(d, F, t) ==
    CASE t.tok = "}" /\ Last(t.calls).name = "" -> Return(t)
      [] t.tok = "string" /\ t.lex # BadString -> readMember(d, F, t, NameOf[t.lex])
      [] t.tok = "number" /\ F.allowNumericKeys -> readMember(d, F, t, t.lex)
      [] OTHER -> Failed(t)

readName(d, F, s) == OnName(d, F, skipComments(d, F, readToken(d, F, s)))

readObject(s) == [Call(s, "object") EXCEPT !.next = "name"]

(* decodeNumber, decodeString and the literals.                            *)
readLeaf(s) ==
    IF s.lex = BadString THEN Failed(s)
    ELSE [Put(s, IF s.lex = "null" THEN "null" ELSE "leaf", s.lex) EXCEPT !.next = "behind"]

(* The switch of readValue; the last case but one un-reads its token.      *)
readPayload(d, F, s) ==
    CASE s.tok = "{" -> readObject(s)
      [] s.tok = "[" -> readArray(d, s)
      [] s.tok \in {"number", "string", "literal"} -> readLeaf(s)
      [] s.tok \in {",", "}", "]"} /\ F.allowDroppedNullPlaceholders ->
            [Put(s, "null", "null") EXCEPT !.pos = @ - 1, !.next = "behind"]
      [] OTHER -> Failed(s)

(* commentsBefore_ goes to the current value, if there is any.             *)
TakeComments(placement, t) ==
    IF t.before = NoComment THEN t
    ELSE [t EXCEPT !.tree = SetComment(@, t.p, placement, t.before), !.before = NoComment]

(* readValue up to the call that reads what the value holds.               *)
readValue(d, F, s) ==
    IF s.depth >= F.stackLimit THEN [s EXCEPT !.out = "throw"]
    ELSE readPayload(d, F,
            TakeComments("before", skipCommentTokens(d, F, [s EXCEPT !.depth = @ + 1])))

(* Mutant: what a value added to the depth stays.                          *)
DepthStays(F, v) ==
    IF F.collectComments
    THEN [v EXCEPT !.last = v.p, !.lastEnd = v.pos, !.dangles = FALSE]
    ELSE v

(* The end of readValue.                                                   *)
AfterValue(F, v) ==
    IF F.collectComments
    THEN [v EXCEPT !.depth = @ - 1, !.last = v.p, !.lastEnd = v.pos, !.dangles = FALSE]
    ELSE [v EXCEPT !.depth = @ - 1]

(* Where the value has been read: in an array, an object or nothing.       *)
Behind(d, F, v) ==
    IF v.calls = <<>> THEN [v EXCEPT !.next = "none"]
    ELSE LET c == [v EXCEPT !.p = Front(@)]
         IN  IF Last(v.calls).kind = "array" THEN AfterElement(d, F, c)
             ELSE AfterMember(d, F, c)
-----------------------------------------------------------------------------
Start == [pos |-> 1, tok |-> "none", lex |-> "", depth |-> 0, tree |-> Root,
          before |-> NoComment, last |-> <<>>, lastEnd |-> 0, dangles |-> FALSE,
          out |-> "ok", alive |-> TRUE,
          p |-> <<>>, calls |-> <<>>, next |-> "value"]

Step(d, F, s) ==
    CASE s.next = "value"  -> readValue(d, F, s)
      [] s.next = "behind" -> Behind(d, F, AfterValue(F, s))
      [] s.next = "name"   -> readName(d, F, s)

Ended(s) == s.out # "ok" \/ s.next = "none"

(* Each lexeme is met by two steps at most.                                *)
readRoot(d, F) ==
    LET after[n \in 0 .. 2 * Len(d) + 2] ==
            IF n = 0 THEN Start
            ELSE LET s == after[n - 1] IN IF Ended(s) THEN s ELSE Step(d, F, s)
    IN  after[2 * Len(d) + 2]

(* What follows the root value is not looked at, but for comments and,     *)
(* with failIfExtra, for a token that is none.                             *)
BehindRoot(F, t) ==
    IF \/ F.failIfExtra /\ t.tok \notin {"error", "end"}
       \/ F.strictRoot /\ ~IsContainer(t.tree, <<>>)
    THEN Failed(t)
    ELSE TakeComments("after", t)

AfterRoot(d, F, v) ==
    IF v.out # "ok" THEN v ELSE BehindRoot(F, skipCommentTokens(d, F, v))

parse(d, F) == AfterRoot(d, F, readRoot(d, F))
=============================================================================
