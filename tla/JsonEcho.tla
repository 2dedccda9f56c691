------------------------------ MODULE JsonEcho ------------------------------
(***************************************************************************)
(* What was read from a document (JsonDocument) is compared with what the  *)
(* grammar says, and written back by the writers of JsonWriter. Meaning is *)
(* what the grammar of JSON says of the same text.                         *)
(***************************************************************************)
EXTENDS JsonDocument, JsonWriter
-----------------------------------------------------------------------------
(* The grammar of JSON, and what a text means: its paths, each with a kind *)
(* and a leaf, nothing if it is no value.                                  *)

(* The parts of w between the commas that no bracket encloses.             *)
Parts(w) ==
    LET cuts == {i \in DOMAIN w : w[i] = "," /\ Depth(w, i) = 0}
        ends == SetToSortSeq(cuts \cup {0, Len(w) + 1}, <)
    IN  [k \in 1 .. Len(ends) - 1 |-> SubSeq(w, ends[k] + 1, ends[k + 1] - 1)]

Under(key, meaning) == {<<<<key>> \o m[1], m[2]>> : m \in meaning}

RECURSIVE Meaning(_)
Elements(w) ==
    LET parts == Parts(w)
        of == [k \in DOMAIN parts |-> Meaning(parts[k])]
    IN  IF {} \in Range(of) THEN {}
        ELSE {<<<<>>, <<"array", "">>>>}
             \cup UNION {Under(ToString(k - 1), of[k]) : k \in DOMAIN of}

(* Of the members of one name the last one counts.                         *)
Members(w) ==
    LET parts == Parts(w)
        IsMember(m) == Len(m) > 2 /\ m[1] \in Strings /\ m[2] = ":"
        of == [k \in DOMAIN parts |-> Meaning(SubSeq(parts[k], 3, Len(parts[k])))]
        counts == {k \in DOMAIN parts :
                      \A j \in k + 1 .. Len(parts) : parts[j][1] # parts[k][1]}
    IN  IF \E k \in DOMAIN parts : ~IsMember(parts[k]) \/ of[k] = {} THEN {}
        ELSE {<<<<>>, <<"object", "">>>>}
             \cup UNION {Under(NameOf[parts[k][1]], of[k]) : k \in counts}

Meaning(w) ==
    LET n == Len(w)
        inner == SubSeq(w, 2, n - 1)
    IN  CASE n = 0 -> {}
          [] n = 1 /\ w[1] = "null" -> {<<<<>>, <<"null", "null">>>>}
          [] n = 1 /\ w[1] \in (Strings \cup Numbers \cup Literals) \ {"null"} ->
                {<<<<>>, <<"leaf", w[1]>>>>}
          [] n > 1 /\ w[1] = "[" /\ w[n] = "]" ->
                IF n = 2 THEN {<<<<>>, <<"array", "">>>>} ELSE Elements(inner)
          [] n > 1 /\ w[1] = "{" /\ w[n] = "}" ->
                IF n = 2 THEN {<<<<>>, <<"object", "">>>>} ELSE Members(inner)
          [] OTHER -> {}

(* The values a text starts with: one at most, as none is a prefix of      *)
(* another.                                                                *)
StartsWith(w) == {Meaning(SubSeq(w, 1, n)) : n \in 1 .. Len(w)} \ {{}}

AsMeaning(t) == {<<p, <<t[p].kind, t[p].leaf>>>> : p \in DOMAIN t}
-----------------------------------------------------------------------------
HasComments == \E i \in DOMAIN doc : doc[i] \in CComment \cup {"//"}

(* No value of w is inside so many others that the reader gives up.        *)
Shallow(w) ==
    \A i \in DOMAIN w : w[i] \notin {"}", "]"} => Depth(w, i - 1) < StackLimit

(* A document without comments is accepted if and only if it starts with a *)
(* JSON value that is not nested too deep, and that value is built, the    *)
(* last one of each name; but an object may end in a comma behind a member *)
(* with an empty name.  Comments are no part of the data: a document that  *)
(* is accepted without its comments, too, means the same with them.        *)
ReadsJson ==
    LET values == StartsWith(Tokens(doc))
        bare == parse(Tokens(doc), Default)
    IN  IF HasComments
        THEN Accepted /\ bare.out = "ok" => Data(got.tree) = Data(bare.tree)
        ELSE /\ values # {} => (Accepted <=> Shallow(Tokens(doc)))
             /\ Accepted /\ ~Contains(doc, "''") => values = {AsMeaning(got.tree)}

-----------------------------------------------------------------------------
(* The writers, with the reader that understands each.                     *)
Writers ==
    {[style |-> s, indent |-> TRUE, comments |-> TRUE, nulls |-> TRUE, narrow |-> n]
        : s \in {"styled", "stream", "built"}, n \in BOOLEAN}
    \cup {[style |-> s, indent |-> FALSE, comments |-> FALSE, nulls |-> n, narrow |-> FALSE]
        : s \in {"fast", "built"}, n \in BOOLEAN}

ReadBack(W, text) ==
    parse(text, [Default EXCEPT !.allowDroppedNullPlaceholders = ~W.nulls])

(* What a writer cannot write: a name with a NUL in it, for two of them; a *)
(* comment that ends in a blank, for one; a null that stands alone, if     *)
(* nulls are dropped.                                                      *)
HasNul(t) == \E p \in DOMAIN t : p # <<>> /\ CStr(Last(p)) # Last(p)

EndsInBlank(t) == \E p \in DOMAIN t : \E c \in {"before", "same", "after"} :
                      t[p][c] # NoComment /\ Last(t[p][c]) = " "

LoneNull(t) ==
    \E p \in DOMAIN t :
        /\ t[p].kind = "null"
        /\ \/ p = <<>>
           \/ t[Front(p)].kind = "array" /\ Len(Keys(t, Front(p))) = 1

Writable(W, t) ==
    /\ W.style \in {"styled", "stream"} => ~HasNul(t)
    /\ W.style = "styled" => ~EndsInBlank(t)
    /\ ~W.nulls => ~LoneNull(t)

CommentsOf(t) ==
    MapThenSumSet(LAMBDA p : Len(SelectSeq(t[p].before \o t[p].same \o t[p].after,
                                           LAMBDA l : l \in CComment \cup {"//"})),
                  DOMAIN t)

(* Whatever was read is written so that it is read back as the same value, *)
(* comments or not, on one line or on many.  A writer of comments loses    *)
(* none, and what it has written it writes again, so that a document does  *)
(* not change each time it passes.                                         *)
EchoIsKept ==
    Accepted => \A W \in Writers :
        Writable(W, got.tree) =>
            LET text == write(W, got.tree)
                back == ReadBack(W, text)
            IN  /\ back.out = "ok" /\ Data(back.tree) = Data(got.tree)
                /\ \/ ~W.comments \/ back.tree = got.tree
                   \/ /\ CommentsOf(back.tree) = CommentsOf(got.tree)
                      /\ write(W, back.tree) = text
=============================================================================
