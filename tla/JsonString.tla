----------------------------- MODULE JsonString -----------------------------
(***************************************************************************)
(* Strings in jsoncpp (CommMan/json/jsoncpp.cpp): what stands between two  *)
(* quotes is typed piece by piece, a byte, an escape of one character or a *)
(* \u with its four digits; decodeString makes bytes of it and             *)
(* valueToQuotedStringN makes pieces of the bytes.                         *)
(***************************************************************************)
EXTENDS Integers, Sequences, SequencesExt

CONSTANTS
    Bytes,       \* bytes that are typed as they are
    Escapes,     \* characters typed behind a backslash
    Units,       \* numbers typed behind \u
    MaxPieces    \* bound: pieces of a string

StringAssumption ==
    /\ Bytes \subseteq 1 .. 255 \ {34, 92}
    /\ \A u \in Units : u \in Nat /\ u <= 65535

VARIABLE pieces

Plain(b) == [kind |-> "byte", n |-> b]
Escape(c) == [kind |-> "escape", n |-> c]
Unit(u) == [kind |-> "unicode", n |-> u]

Init == pieces = <<>>

Next == \E p \in {Plain(b) : b \in Bytes} \cup {Escape(c) : c \in Escapes}
                 \cup {Unit(u) : u \in Units} :
            Len(pieces) < MaxPieces /\ pieces' = Append(pieces, p)

Spec == Init /\ [][Next]_pieces
-----------------------------------------------------------------------------
(* A byte behind the first: its mask leaves six bits of what is shifted to *)
(* the right before.  Mutant of codePointToUTF8: bounds off by one.        *)
Continuation(shifted) == 128 + (shifted % 64)

BoundsOff(cp) ==
    IF cp < 127 THEN <<cp>>
    ELSE IF cp < 2047 THEN <<192 + ((cp \div 64) % 32), Continuation(cp)>>
    ELSE IF cp <= 65535 THEN
        <<224 + ((cp \div 4096) % 16), Continuation(cp \div 64), Continuation(cp)>>
    ELSE <<>>

codePointToUTF8(cp) ==
    IF cp <= 127 THEN <<cp>>
    ELSE IF cp <= 2047 THEN <<192 + ((cp \div 64) % 32), Continuation(cp)>>
    ELSE IF cp <= 65535 THEN
        <<224 + ((cp \div 4096) % 16), Continuation(cp \div 64), Continuation(cp)>>
    ELSE IF cp <= 1114111 THEN
        <<240 + ((cp \div 262144) % 8), Continuation(cp \div 4096),
          Continuation(cp \div 64), Continuation(cp)>>
    ELSE <<>>

IsHigh(u) == 55296 <= u /\ u <= 56319
IsLow(u)  == 56320 <= u /\ u <= 57343

Pair(high, low) == 65536 + (high % 1024) * 1024 + (low % 1024)

(* The character a backslash and c stand for.                              *)
Unescaped ==
    [c \in {34, 47, 92, 98, 102, 110, 114, 116} |->
        CASE c = 98 -> 8 [] c = 102 -> 12 [] c = 110 -> 10
          [] c = 114 -> 13 [] c = 116 -> 9 [] OTHER -> c]

(* The bytes one turn of decodeString appends, or Failed where it reports  *)
(* an error.  Whatever is behind the \u that follows a high surrogate is   *)
(* taken for the low one.                                                  *)
Failed == <<-1>>

decodeUnicodeCodePoint(s, i) ==
    IF ~IsHigh(s[i].n) THEN codePointToUTF8(s[i].n)
    ELSE IF i < Len(s) /\ s[i + 1].kind = "unicode"
         THEN codePointToUTF8(Pair(s[i].n, s[i + 1].n))
         ELSE Failed

Decoded(s, i) ==
    IF s[i].kind = "byte" THEN <<s[i].n>>
    ELSE IF s[i].kind = "unicode" THEN decodeUnicodeCodePoint(s, i)
    ELSE IF s[i].n \in DOMAIN Unescaped THEN <<Unescaped[s[i].n]>>
    ELSE Failed

(* How many pieces the turn takes.                                         *)
StartsPair(s, i) == s[i].kind = "unicode" /\ IsHigh(s[i].n)
Taken(s, i) == IF StartsPair(s, i) THEN 2 ELSE 1

(* What it makes of the pieces from the ith on; an error ends it.          *)
Then(bytes, rest) ==
    IF bytes = Failed \/ rest = Failed THEN Failed ELSE bytes \o rest

decodeString(s) ==
    LET from[i \in 1 .. Len(s) + 1] ==
            IF i > Len(s) THEN <<>>
            ELSE Then(Decoded(s, i), from[i + Taken(s, i)])
    IN  from[1]

(* One byte as valueToQuotedStringN writes it: what has an escape is       *)
(* escaped, any other control character becomes a \u; a string without     *)
(* such bytes is copied, which is the same.                                *)
Quoted(b) ==
    IF b \in {8, 9, 10, 12, 13, 34, 92}
    THEN Escape(CHOOSE c \in DOMAIN Unescaped : Unescaped[c] = b)
    ELSE IF b <= 31 THEN Unit(b) ELSE Plain(b)

valueToQuotedStringN(bytes) == [i \in DOMAIN bytes |-> Quoted(bytes[i])]
-----------------------------------------------------------------------------
(* What UTF-8 says of a code point: its digits to the base of 64, the last *)
(* two, three or four, each in a byte of its own.                          *)
Digits64(cp) == <<cp \div 262144, (cp \div 4096) % 64, (cp \div 64) % 64, cp % 64>>
Leads == <<0, 192, 224, 240>>

InBytes(cp, n) ==
    [k \in 1 .. n |-> (IF k = 1 THEN Leads[n] ELSE 128) + Digits64(cp)[4 - n + k]]

Utf8(cp) ==
    IF cp < 128 THEN <<cp>>
    ELSE IF cp < 2048 THEN InBytes(cp, 2)
    ELSE IF cp < 65536 THEN InBytes(cp, 3)
    ELSE InBytes(cp, 4)

(* Each surrogate is one of a pair.                                        *)
WellFormed(s) ==
    \A i \in DOMAIN s : s[i].kind = "unicode" =>
        /\ IsHigh(s[i].n) => i < Len(s) /\ s[i + 1].kind = "unicode" /\ IsLow(s[i + 1].n)
        /\ IsLow(s[i].n) => i > 1 /\ s[i - 1].kind = "unicode" /\ IsHigh(s[i - 1].n)

Says(s, i) ==
    LET p == s[i] IN
    IF p.kind = "byte" THEN <<p.n>>
    ELSE IF p.kind = "escape" THEN <<Unescaped[p.n]>>
    ELSE IF IsLow(p.n) THEN <<>>
    ELSE IF IsHigh(p.n)
    THEN Utf8(65536 + (p.n - 55296) * 1024 + (s[i + 1].n - 56320))
    ELSE Utf8(p.n)

(* The escapes are among the eight of JSON.                                *)
Known(s) == \A i \in DOMAIN s : s[i].kind = "escape" => s[i].n \in DOMAIN Unescaped

(* A well-formed text is read as the UTF-8 of what it says, a pair of      *)
(* surrogates as one character; an unknown escape and half a pair at the   *)
(* end or before anything but a \u are refused.  Whatever was read, NULs   *)
(* and stray surrogates as well, is written so that it is read again.      *)
ReadAsUtf8 ==
    Known(pieces) /\ WellFormed(pieces) =>
        decodeString(pieces) = FlattenSeq([i \in DOMAIN pieces |-> Says(pieces, i)])
UnknownRefused == ~Known(pieces) => decodeString(pieces) = Failed
ReadAgain ==
    LET bytes == decodeString(pieces)
    IN  bytes # Failed => decodeString(valueToQuotedStringN(bytes)) = bytes

StringsComeBack == ReadAsUtf8 /\ UnknownRefused /\ ReadAgain
=============================================================================
