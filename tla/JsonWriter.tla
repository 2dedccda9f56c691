----------------------------- MODULE JsonWriter -----------------------------
(***************************************************************************)
(* The writers of Json::Value (CommMan/json/jsoncpp.cpp): FastWriter, and  *)
(* three copies of one layout, StyledWriter, StyledStreamWriter and        *)
(* BuiltStyledStreamWriter.  W is the writer:                              *)
(*                                                                         *)
(*   style    "fast", "styled", "stream" or "built"                        *)
(*   indent   whether indentation_ is not empty                            *)
(*   comments whether comments are written (cs_ of the last)               *)
(*   nulls    whether a null is written as null                            *)
(*   narrow   whether each array is too long for a line: lengths are not   *)
(*            modelled, so that either may be so                           *)
(*                                                                         *)
(* o is what is written so far: doc, the lexemes, and indented, that is    *)
(* indented_ of the two stream writers.  n is the level, as many blanks.   *)
(***************************************************************************)
EXTENDS JsonValue

Blanks(W, n) == IF W.indent THEN [i \in 1 .. n |-> " "] ELSE <<>>
Write(o, text) == [o EXCEPT !.doc = @ \o text]
EndsWith(o, l) == o.doc # <<>> /\ Last(o.doc) = l
-----------------------------------------------------------------------------
(* Where the three copies differ.                                          *)

(* StyledWriter looks at what it has written to see whether it has         *)
(* indented, and takes a comment that ends in a blank for indentation.     *)
StyledIndent(W, o, n) ==
    IF EndsWith(o, " ") THEN o
    ELSE Write(o, (IF o.doc = <<>> \/ EndsWith(o, "\n") THEN <<>> ELSE <<"\n">>)
                  \o Blanks(W, n))

StreamIndent(W, o, n) == Write(o, <<"\n">> \o Blanks(W, n))

BuiltIndent(W, o, n) == IF W.indent THEN Write(o, <<"\n">> \o Blanks(W, n)) ELSE o

writeIndent(W, o, n) ==
    CASE W.style = "styled" -> StyledIndent(W, o, n)
      [] W.style = "stream" -> StreamIndent(W, o, n)
      [] W.style = "built" -> BuiltIndent(W, o, n)

IndentOnce(W, o, n) ==
    IF W.style # "styled" /\ o.indented THEN o ELSE writeIndent(W, o, n)

writeWithIndent(W, o, n, text) ==
    [Write(IndentOnce(W, o, n), text) EXCEPT !.indented = FALSE]

(* A line of a comment that starts with a slash is indented.               *)
CommentLines(W, text, n) ==
    FlattenSeq([i \in DOMAIN text |->
        IF /\ text[i] = "\n"
           /\ i < Len(text)
           /\ text[i + 1] \in {"//", "/*c*/", "/*n*/"}
        THEN <<"\n">> \o Blanks(W, n)
        ELSE <<text[i]>>])

StyledCommentBefore(W, o, n, node) ==
    IF node.before = NoComment THEN o
    ELSE Write(StyledIndent(W, Write(o, <<"\n">>), n),
               CommentLines(W, node.before, n) \o <<"\n">>)

StreamCommentBefore(W, o, n, node) ==
    IF node.before = NoComment THEN o
    ELSE writeWithIndent(W, o, n, CommentLines(W, node.before, n))

writeCommentBeforeValue(W, o, n, node) ==
    IF W.style = "styled" THEN StyledCommentBefore(W, o, n, node)
    ELSE IF W.comments THEN StreamCommentBefore(W, o, n, node)
    ELSE o

SameLine(o, node) ==
    IF node.same = NoComment THEN o ELSE Write(o, <<" ">> \o node.same)

StyledCommentAfter(o, node) ==
    LET s == SameLine(o, node)
    IN  IF node.after = NoComment THEN s
        ELSE Write(s, <<"\n">> \o node.after \o <<"\n">>)

StreamCommentAfter(W, o, n, node) ==
    LET s == SameLine(o, node)
    IN  IF node.after = NoComment THEN s
        ELSE Write(writeIndent(W, s, n), node.after)

writeCommentAfterValueOnSameLine(W, o, n, node) ==
    CASE W.style = "styled" -> StyledCommentAfter(o, node)
      [] W.style = "stream" ->
            [StreamCommentAfter(W, o, n, node) EXCEPT !.indented = FALSE]
      [] W.style = "built" ->
            IF W.comments THEN StreamCommentAfter(W, o, n, node) ELSE o

(* The name of a member: two of the writers end it at its first NUL.       *)
NameText(W, name) ==
    Quoted(IF W.style \in {"styled", "stream"} THEN CStr(name) ELSE name)
-----------------------------------------------------------------------------
LeafText(W, node) ==
    CASE node.kind = "array" -> <<"[", "]">>
      [] node.kind = "object" -> <<"{", "}">>
      [] node.kind = "null" /\ ~W.nulls -> <<>>
      [] OTHER -> <<node.leaf>>

Leaflike(t, p) == IsContainer(t, p) => Keys(t, p) = <<>>

(* isMultineArray.  An array of leaves is laid out in childValues_ first.  *)
OfLeaves(W, t, p) ==
    /\ ~(W.style = "built" /\ W.comments)
    /\ \A i \in DOMAIN Keys(t, p) : Leaflike(t, Append(p, Keys(t, p)[i]))

isMultineArray(W, t, p) ==
    \/ ~OfLeaves(W, t, p)
    \/ W.narrow
    \/ \E i \in DOMAIN Keys(t, p) : HasComment(t[Append(p, Keys(t, p)[i])])

SingleLine(W, t, p) ==
    LET keys == Keys(t, p)
        gap == IF W.style = "built" /\ ~W.indent THEN <<>> ELSE <<" ">>
    IN  <<"[">> \o gap
        \o FlattenSeq([i \in DOMAIN keys |->
              (IF i = 1 THEN <<>> ELSE <<",", " ">>)
              \o LeafText(W, t[Append(p, keys[i])])])
        \o gap \o <<"]">>

(* The comma and the comment behind a child, the last one without comma.   *)
(* Mutant: the comma comes last.                                           *)
CommaBehindComment(W, o, n, node, isLast) ==
    LET c == writeCommentAfterValueOnSameLine(W, o, n, node)
    IN  IF isLast THEN c ELSE Write(c, <<",">>)

AfterChild(W, o, n, node, isLast) ==
    writeCommentAfterValueOnSameLine(W, IF isLast THEN o ELSE Write(o, <<",">>), n, node)

RECURSIVE writeValue(_, _, _, _, _)

(* An element of an array that takes a line for each.                      *)
writeElement(W, t, p, o, n) ==
    LET inner == writeValue(W, t, p, [IndentOnce(W, o, n) EXCEPT !.indented = TRUE], n)
    IN  [inner EXCEPT !.indented = FALSE]

RECURSIVE writeElements(_, _, _, _, _, _)
writeElements(W, t, p, i, o, n) ==
    LET keys == Keys(t, p)
        child == Append(p, keys[i])
        b == writeCommentBeforeValue(W, o, n, t[child])
        v == IF OfLeaves(W, t, p)
             THEN writeWithIndent(W, b, n, LeafText(W, t[child]))
             ELSE writeElement(W, t, child, b, n)
        a == AfterChild(W, v, n, t[child], i = Len(keys))
    IN  IF i = Len(keys) THEN a ELSE writeElements(W, t, p, i + 1, a, n)

writeArrayValue(W, t, p, o, n) ==
    IF isMultineArray(W, t, p)
    THEN LET b == writeWithIndent(W, o, n, <<"[">>)
         IN  writeWithIndent(W, writeElements(W, t, p, 1, b, n + 1), n, <<"]">>)
    ELSE Write(o, SingleLine(W, t, p))

RECURSIVE writeMembers(_, _, _, _, _, _)
writeMembers(W, t, p, i, o, n) ==
    LET keys == Keys(t, p)
        child == Append(p, keys[i])
        b == writeCommentBeforeValue(W, o, n, t[child])
        m == writeWithIndent(W, b, n, <<NameText(W, keys[i]), " ", ":", " ">>)
        v == writeValue(W, t, child, m, n)
        a == AfterChild(W, v, n, t[child], i = Len(keys))
    IN  IF i = Len(keys) THEN a ELSE writeMembers(W, t, p, i + 1, a, n)

writeValue(W, t, p, o, n) ==
    IF Leaflike(t, p) THEN Write(o, LeafText(W, t[p]))
    ELSE IF t[p].kind = "array" THEN writeArrayValue(W, t, p, o, n)
    ELSE LET b == writeWithIndent(W, o, n, <<"{">>)
         IN  writeWithIndent(W, writeMembers(W, t, p, 1, b, n + 1), n, <<"}">>)
-----------------------------------------------------------------------------
RECURSIVE fastWriteValue(_, _, _)
fastWriteValue(W, t, p) ==
    LET keys == Keys(t, p)
        Item(i) == (IF i = 1 THEN <<>> ELSE <<",">>)
                   \o (IF t[p].kind = "object" THEN <<Quoted(keys[i]), ":">> ELSE <<>>)
                   \o fastWriteValue(W, t, Append(p, keys[i]))
        items == FlattenSeq([i \in DOMAIN keys |-> Item(i)])
    IN  CASE Leaflike(t, p) -> LeafText(W, t[p])
          [] t[p].kind = "array" -> <<"[">> \o items \o <<"]">>
          [] t[p].kind = "object" -> <<"{">> \o items \o <<"}">>

(* The document a writer makes of a value.                                 *)
styledWrite(W, t) ==
    LET o == [doc |-> <<>>, indented |-> TRUE]
        b == writeCommentBeforeValue(W, o, 0, t[<<>>])
        i == IF W.style = "styled" THEN b
             ELSE [IndentOnce(W, b, 0) EXCEPT !.indented = TRUE]
        v == writeValue(W, t, <<>>, i, 0)
        a == writeCommentAfterValueOnSameLine(W, v, 0, t[<<>>])
    IN  IF W.style = "built" THEN a.doc ELSE a.doc \o <<"\n">>

write(W, t) ==
    IF W.style = "fast" THEN fastWriteValue(W, t, <<>>) \o <<"\n">>
    ELSE styledWrite(W, t)
=============================================================================
