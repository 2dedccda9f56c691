----------------------------- MODULE JsonNumber -----------------------------
(***************************************************************************)
(* Numbers in jsoncpp (CommMan/json/jsoncpp.cpp): the text of one is typed *)
(* digit by digit; decodeNumber makes an integer of it, or a double if     *)
(* there is none; the conversions of Json::Value ask for it in one of four *)
(* integer types; the writers print it.  Widths are parameters.            *)
(*                                                                         *)
(* A number is held as twice its value, since a text may end in `.5'; what *)
(* else a double can be (an exponent, other fractions) is left out.        *)
(***************************************************************************)
EXTENDS Integers, Sequences

CONSTANTS
    Bits,        \* of LargestInt and LargestUInt
    IntBits,     \* of Int and UInt
    Mantissa,    \* bits of a double's mantissa, fewer than LargestInt has
    MaxDigits    \* bound: digits of a text

NumberAssumption ==
    /\ IntBits \in Nat \ {0} /\ Bits \in Nat /\ Mantissa \in Nat
    /\ IntBits < Mantissa /\ Mantissa < Bits - 1
    /\ Bits > 4                                 \* a digit fits in

VARIABLE text   \* the token: a sign, digits, and whether `.5' follows

Types == {"Int", "UInt", "Int64", "UInt64"}

(* A power of two, in the recursion that proofs need.                      *)
TwoTo(n) ==
    LET power[i \in 0 .. n] == IF i = 0 THEN 1 ELSE 2 * power[i - 1]
    IN  power[n]

Lowest ==
    [t \in Types |-> CASE t = "Int" -> -TwoTo(IntBits - 1)
                       [] t = "Int64" -> -TwoTo(Bits - 1)
                       [] OTHER -> 0]
Highest ==
    [t \in Types |-> CASE t = "Int" -> TwoTo(IntBits - 1) - 1
                       [] t = "UInt" -> TwoTo(IntBits) - 1
                       [] t = "Int64" -> TwoTo(Bits - 1) - 1
                       [] t = "UInt64" -> TwoTo(Bits) - 1]

Magnitude(h) == IF h < 0 THEN -h ELSE h
Truncate(h)  == IF h < 0 THEN -((-h) \div 2) ELSE h \div 2
IsIntegral(h) == h % 2 = 0
-----------------------------------------------------------------------------
(* The double nearest to h halves, the even one of two.                    *)
NearestMultiple(h, step) ==
    LET q == h \div step
        r == 2 * (h % step)
    IN  step * (IF r > step \/ (r = step /\ q % 2 = 1) THEN q + 1 ELSE q)

BitsOf(m) ==
    CHOOSE n \in 0 .. m : m < TwoTo(n) /\ (n = 0 \/ m >= TwoTo(n - 1))

Rounded(m) ==
    LET bits == BitsOf(m)
    IN  IF bits <= Mantissa THEN m ELSE NearestMultiple(m, TwoTo(bits - Mantissa))

Double(h) == IF h < 0 THEN -Rounded(-h) ELSE Rounded(h)

Number(kind, h) == [kind |-> kind, twice |-> h]

decodeDouble(exact) == Number("real", Double(exact))

(* Whether decodeNumber gives up at a digit: behind value it makes more    *)
(* than limit, or might with what follows.  Mutant: the last digit that    *)
(* fits is not looked at.                                                  *)
BelowThreshold(value, digit, last, limit) ==
    value > limit \div 10 \/ (value = limit \div 10 /\ ~last)

Overflows(value, digit, last, limit) ==
    /\ value >= limit \div 10
    /\ value > limit \div 10 \/ ~last \/ digit > limit % 10

(* Its loop: the value after each digit, -1 once it has given up.          *)
DecodeDigits(d, limit) ==
    LET after[i \in 0 .. Len(d)] ==
            IF i = 0 THEN 0
            ELSE IF after[i - 1] = -1 \/ Overflows(after[i - 1], d[i], i = Len(d), limit)
            THEN -1
            ELSE after[i - 1] * 10 + d[i]
    IN  after[Len(d)]

(* What the text says, in halves.                                          *)
Says(d) ==
    LET after[i \in 0 .. Len(d)] == IF i = 0 THEN 0 ELSE after[i - 1] * 10 + d[i]
    IN  after[Len(d)]

Exact(t) ==
    LET h == 2 * Says(t.digits) + (IF t.half THEN 1 ELSE 0)
    IN  IF t.neg THEN -h ELSE h

(* An integer that is no Int has the kind of a UInt, unless it is negative.*)
decodeNumber(t) ==
    LET limit == IF t.neg THEN Highest["Int64"] + 1 ELSE Highest["UInt64"]
        value == DecodeDigits(t.digits, limit)
    IN  IF t.half \/ value = -1 THEN decodeDouble(Exact(t))
        ELSE IF t.neg THEN Number("int", -2 * value)
        ELSE Number(IF value <= Highest["Int"] THEN "int" ELSE "uint", 2 * value)
-----------------------------------------------------------------------------
Wide(t) == t \in {"Int64", "UInt64"}

(* isInt, isUInt, isInt64 and isUInt64.                                    *)
Is(t, v) ==
    IF v.kind # "real" THEN v.twice \div 2 \in Lowest[t] .. Highest[t]
    ELSE /\ IsIntegral(v.twice)
         /\ v.twice >= Double(2 * Lowest[t])
         /\ IF Wide(t) THEN v.twice < Double(2 * Highest[t])
            ELSE v.twice <= Double(2 * Highest[t])

(* The limits are converted to double: the highest 64-bit integers become  *)
(* the powers of 2 above them.                                             *)
InRange(t, v) == v.twice \in Double(2 * Lowest[t]) .. Double(2 * Highest[t])

(* What the conversion of a double may return: anything, if its type does  *)
(* not have the value.                                                     *)
Cast(t, h) ==
    IF Truncate(h) \in Lowest[t] .. Highest[t] THEN {Truncate(h)}
    ELSE Lowest[t] .. Highest[t]

(* asInt, asUInt, asInt64 and asUInt64: what they may return, nothing if   *)
(* they throw.                                                             *)
As(t, v) ==
    IF IF v.kind = "real" THEN InRange(t, v) ELSE Is(t, v)
    THEN Cast(t, v.twice)
    ELSE {}

isConvertibleTo(t, v) ==
    Is(t, v) \/ (v.kind = "real" /\ InRange(t, v))

(* valueToString of an integer, with uintToString; of a double that is an  *)
(* integer below 10^17, %.17g prints the same.                             *)
uintToString(n) ==
    LET digits[m \in 0 .. n] ==
            IF m < 10 THEN <<m>> ELSE Append(digits[m \div 10], m % 10)
    IN  digits[n]

valueToString(v) ==
    [neg    |-> v.twice < 0,
     digits |-> uintToString(Magnitude(v.twice) \div 2),
     half   |-> ~IsIntegral(v.twice)]
-----------------------------------------------------------------------------
Init == text = [neg |-> FALSE, digits |-> <<>>, half |-> FALSE]

TypeMinus ==
    /\ text.digits = <<>> /\ ~text.neg
    /\ text' = [text EXCEPT !.neg = TRUE]

TypeDigit(d) ==
    /\ ~text.half /\ Len(text.digits) < MaxDigits
    /\ text' = [text EXCEPT !.digits = Append(@, d)]

TypeHalf ==
    /\ ~text.half /\ text.digits # <<>>
    /\ text' = [text EXCEPT !.half = TRUE]

Next == TypeMinus \/ (\E d \in 0 .. 9 : TypeDigit(d)) \/ TypeHalf

Spec == Init /\ [][Next]_text
-----------------------------------------------------------------------------
(* A text is read as the integer it says if 64 bits hold it, and as the    *)
(* nearest double otherwise; and no text is read as an integer too large.  *)
DecodedExactly ==
    LET v == decodeNumber(text)
        lowest == IF text.neg THEN Lowest["Int64"] ELSE 0
    IN  IF ~text.half /\ Exact(text) \div 2 \in lowest .. Highest["UInt64"]
        THEN v.twice = Exact(text) /\ v.kind \in {"int", "uint"}
        ELSE v = Number("real", Double(Exact(text)))

(* What a conversion is said to be possible for it is exact for; whatever  *)
(* it returns is the value, cut to an integer.  The code lets one double   *)
(* by that the type does not have, the power of 2 above its highest value, *)
(* which isInt64 and isUInt64 refuse.                                      *)
ConversionsAgree ==
    LET v == decodeNumber(text) IN
    \A t \in Types :
        /\ Is(t, v) => IsIntegral(v.twice) /\ As(t, v) = {v.twice \div 2}
        /\ \/ As(t, v) \subseteq {Truncate(v.twice)}
           \/ Wide(t) /\ v = Number("real", 2 * Highest[t] + 2)
        /\ ~Wide(t) => (isConvertibleTo(t, v) <=> As(t, v) # {})

(* A number that is written is read back as the same number.               *)
NumberComesBack ==
    LET v == decodeNumber(text)
    IN  decodeNumber(valueToString(v)).twice = v.twice

(* The token of a number has at least its sign or a digit.                 *)
NumbersAreExact ==
    text.neg \/ text.digits # <<>> => DecodedExactly /\ ConversionsAgree /\ NumberComesBack
=============================================================================
