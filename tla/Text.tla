-------------------------------- MODULE Text --------------------------------
(***************************************************************************)
(* The helpers of CommMan/CStringWrapper.h and utils.cpp that take a text  *)
(* apart or escape it: str_split and parse_addr_port, replace_them_all,    *)
(* mysql_esc and shell_arg_esc, and dir_from_file_path with the slash that *)
(* ends a directory or does not. A text is a sequence of characters.       *)
(***************************************************************************)
EXTENDS Naturals, Sequences, SequencesExt

CONSTANTS
    Chars,     \* the characters texts are made of
    MaxChars   \* bound: characters of a text

(* The exception is told from every text by a word that is no character.   *)
TextAssumption == "throws" \notin Chars

VARIABLE text

Init == text = <<>>
Type(c) == Len(text) < MaxChars /\ text' = Append(text, c)
Next == \E c \in Chars : Type(c)
Spec == Init /\ [][Next]_text
-----------------------------------------------------------------------------
(* The loop of str_split after k characters: a c begins the next token,    *)
(* any other character goes to the last one.                               *)
str_split(s, c) ==
    LET tokens[k \in 0 .. Len(s)] ==
            IF k = 0 THEN << <<>> >>
            ELSE IF s[k] = c THEN Append(tokens[k - 1], <<>>)
            ELSE [tokens[k - 1] EXCEPT ![Len(tokens[k - 1])] = Append(@, s[k])]
    IN  tokens[Len(s)]

(* atoi is not modelled: the port is its text.                             *)
parse_addr_port(s) ==
    LET tokens == str_split(s, ":")
    IN  IF Len(tokens) = 2
        THEN [r |-> 0, addr |-> tokens[1], port |-> tokens[2]]
        ELSE [r |-> 1]

(* What it connects to, or the exception.                                  *)
Throws == <<"throws">>
connect_tcp2(host_port) ==
    LET parsed == parse_addr_port(host_port)
    IN  IF parsed.r # 0 THEN Throws ELSE <<parsed.addr, parsed.port>>

(* replace_them_all from each position on: what was put in is not searched.*)
Replaced(s, find, with) ==
    LET n == Len(find)
        from[i \in 1 .. Len(s) + 1] ==
            IF i > Len(s) THEN <<>>
            ELSE IF i + n - 1 <= Len(s) /\ SubSeq(s, i, i + n - 1) = find
            THEN with \o from[i + n]
            ELSE <<s[i]>> \o from[i + 1]
    IN  from[1]

replace_them_all(s, find, with) ==
    IF find = <<>> THEN s ELSE Replaced(s, find, with)

(* The other replace_them_all, of a character by a character.              *)
replace_char(s, find, with) ==
    [k \in DOMAIN s |-> IF s[k] = find THEN with ELSE s[k]]

simple_json_str_esc(s) == replace_them_all(s, <<"\"">>, <<"\\", "\"">>)

(* Each character is appended, some with an escape before it: in a literal *)
(* a quote or a backslash, in an argument all but those in Plain.          *)
mysql_esc(s) ==
    FlattenSeq([k \in DOMAIN s |-> IF s[k] \in {"'", "\\"} THEN <<s[k], s[k]>> ELSE <<s[k]>>])

mysql_esc_with_sq(s) == <<"'">> \o mysql_esc(s) \o <<"'">>

(* The letters, digits, dots and commas among the characters of a run.     *)
Plain == {"a", "z", "A", "Z", "0", "9", ".", ","}
shell_arg_esc(s) ==
    FlattenSeq([k \in DOMAIN s |-> IF s[k] \in Plain THEN <<s[k]>> ELSE <<"\\", s[k]>>])

start_with(s, prefix) ==
    Len(s) >= Len(prefix) /\ SubSeq(s, 1, Len(prefix)) = prefix

remove_tail_slash(s) == IF s # <<>> /\ Last(s) = "/" THEN Front(s) ELSE s
makesure_tail_slash(s) == IF s # <<>> /\ Last(s) = "/" THEN s ELSE Append(s, "/")

(* Without a slash find_last_of returns npos and erase throws.             *)
dir_from_file_path(s) ==
    IF ~Contains(s, "/") THEN Throws
    ELSE SubSeq(s, 1, (CHOOSE k \in DOMAIN s : s[k] = "/" /\ \A l \in k + 1 .. Len(s) : s[l] # "/") - 1)
-----------------------------------------------------------------------------
Join(tokens, between) ==
    FlattenSeq([k \in DOMAIN tokens |-> IF k = 1 THEN tokens[1] ELSE between \o tokens[k]])

(* The tokens of a text, with c between them again, are the text, and none *)
(* has a c in it: empty ones are kept, also the last; an address is one    *)
(* if there is one colon.                                                  *)
SplitsApart ==
    /\ \A c \in Chars :
          LET tokens == str_split(text, c)
          IN  Join(tokens, <<c>>) = text /\ \A k \in DOMAIN tokens : ~Contains(tokens[k], c)
    /\ connect_tcp2(text) # Throws <=>
          (\E i \in DOMAIN text : \A j \in DOMAIN text : text[j] = ":" <=> j = i)

(* Every occurrence is replaced, and nothing else: for one character, what *)
(* is between those that are found stays; text put in is not searched, so  *)
(* that a replacement that has in it what is looked for comes to an end.   *)
ReplacesAll ==
    \A c \in Chars :
        LET tokens == str_split(text, c) IN
        /\ \A with \in {<<>>} \cup {<<e>> : e \in Chars} \cup {<<e, c>> : e \in Chars} :
              replace_them_all(text, <<c>>, with) = Join(tokens, with)
        /\ \A e \in Chars : replace_char(text, c, e) = Join(tokens, <<e>>)

(* How an escaped text is read, a character at a time: an escape is held   *)
(* until the next character, which it stands for. A quote stands for a     *)
(* quote only; before anything else it is the end of the literal.          *)
Reading(r, c, escapes) ==
    IF r.held = <<>> /\ c \in escapes THEN [r EXCEPT !.held = <<c>>]
    ELSE [said |-> Append(r.said, c), held |-> <<>>,
          ended |-> r.ended \/ (r.held = <<"'">> /\ c # "'")]

Read(s, escapes) ==
    LET read[k \in 0 .. Len(s)] ==
            IF k = 0 THEN [said |-> <<>>, held |-> <<>>, ended |-> FALSE]
            ELSE Reading(read[k - 1], s[k], escapes)
    IN  read[Len(s)]

Unescaped(s, escapes) ==
    LET r == Read(s, escapes) IN IF r.ended \/ r.held # <<>> THEN Throws ELSE r.said

(* An escaped text is read as the text: in a literal between quotes, where *)
(* a quote or a backslash stands for the character behind it, and where a  *)
(* backslash does. A quote inside never ends the literal, not even for a   *)
(* server to which a backslash is no escape and stays doubled. (A shell    *)
(* skips a backslash with a newline behind it; there is none in Chars.)    *)
EscapesComeBack ==
    LET literal == mysql_esc_with_sq(text)
        body    == SubSeq(literal, 2, Len(literal) - 1)
    IN  /\ Unescaped(body, {"'", "\\"}) = text
        /\ Unescaped(body, {"'"}) = replace_them_all(text, <<"\\">>, <<"\\", "\\">>)
        /\ Unescaped(shell_arg_esc(text), {"\\"}) = text

(* The last slash of the path and another one before it.                   *)
DoubleSlash(s) ==
    \E i \in 1 .. Len(s) - 1 :
        s[i] = "/" /\ s[i + 1] = "/" /\ \A j \in i + 2 .. Len(s) : s[j] # "/"

(* A path without a slash has no directory.  One with a slash is its       *)
(* directory, a slash and a name; the helpers for the slash at the end     *)
(* undo each other on that directory, which "does not end in '/'"          *)
(* (utils.cpp 49), but where the path doubles the slash before the name.   *)
DirOfPath ==
    LET dir == dir_from_file_path(text)
    IN  IF dir = Throws THEN \A i \in DOMAIN text : text[i] # "/"
        ELSE /\ start_with(text, Append(dir, "/"))
             /\ ~Contains(SubSeq(text, Len(dir) + 2, Len(text)), "/")
             /\ remove_tail_slash(makesure_tail_slash(dir)) = dir <=> ~DoubleSlash(text)

(* Nothing of a text is lost or invented by any of them.                   *)
TextHelpersAgree == SplitsApart /\ ReplacesAll /\ EscapesComeBack /\ DirOfPath
=============================================================================
