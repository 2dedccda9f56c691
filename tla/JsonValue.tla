------------------------------ MODULE JsonValue ------------------------------
(***************************************************************************)
(* Json::Value (CommMan/json/jsoncpp.cpp) as the readers build it and the  *)
(* writers walk it: a function from paths to nodes.  A path is a sequence  *)
(* of keys, a key the name of a member or an index written as a string; a  *)
(* node has a kind, what it holds if it is a leaf, and its three comments. *)
(*                                                                         *)
(* Text is a sequence of lexemes.  A lexeme is a bracket, a separator, a   *)
(* whole number, string or literal, a blank or a newline, a whole C        *)
(* comment, or the two slashes that make the rest of the line a comment.   *)
(***************************************************************************)
EXTENDS Naturals, Sequences, SequencesExt

Marks    == {"{", "}", "[", "]", ":", ","}
Numbers  == {"0", "1"}
Literals == {"true", "null"}

(* Strings and what decodeString makes of them.  The last of them has a    *)
(* NUL (\u0000) behind its a.                                              *)
NameOf ==
    LET pairs == {<<"''", "">>, <<"'a'", "a">>, <<"'b'", "b">>, <<"'a0'", "a0">>,
                  <<"'0'", "0">>, <<"'1'", "1">>}
    IN  [s \in {q[1] : q \in pairs} |-> (CHOOSE q \in pairs : q[1] = s)[2]]

Strings == DOMAIN NameOf

(* CZString::operator<: the order of members, and of indices.              *)
KeyOrder == <<"", "0", "1", "2", "3", "4", "5", "6", "7", "8", "9", "a", "a0", "b">>

(* What c_str() leaves of a name.                                          *)
CStr(name) == IF name = "a0" THEN "a" ELSE name

Quoted(name) == CHOOSE s \in Strings : NameOf[s] = name
-----------------------------------------------------------------------------
NoComment == <<>>

(* A null value, as Value() makes it.                                      *)
NewNode == [kind |-> "null", leaf |-> "null",
            before |-> NoComment, same |-> NoComment, after |-> NoComment]

Root == [p \in {<<>>} |-> NewNode]

(* resolveReference and operator[](ArrayIndex): the child of that key, a   *)
(* null one if there is none.                                              *)
Child(t, p, key) ==
    [q \in DOMAIN t \cup {Append(p, key)} |-> IF q \in DOMAIN t THEN t[q] ELSE NewNode]

(* swapPayload with a fresh value, which is then destroyed: the children   *)
(* of p go with it, its comments stay.                                     *)
SwapPayload(t, p, kind, leaf) ==
    [q \in {r \in DOMAIN t : ~IsStrictPrefix(p, r)} |->
        IF q = p THEN [t[q] EXCEPT !.kind = kind, !.leaf = leaf] ELSE t[q]]

(* setComment drops one trailing newline.                                  *)
SetComment(t, p, placement, text) ==
    [t EXCEPT ![p] = [@ EXCEPT ![placement] =
        IF text # <<>> /\ Last(text) = "\n" THEN Front(text) ELSE text]]

HasComment(node) ==
    node.before # NoComment \/ node.same # NoComment \/ node.after # NoComment

(* getMemberNames of an object, the indices of an array.                   *)
Keys(t, p) ==
    SelectSeq(KeyOrder, LAMBDA key : Append(p, key) \in DOMAIN t)

IsContainer(t, p) == t[p].kind \in {"object", "array"}

(* What a value says: its kinds and leaves, without its comments.          *)
Data(t) == [p \in DOMAIN t |-> <<t[p].kind, t[p].leaf>>]
=============================================================================
