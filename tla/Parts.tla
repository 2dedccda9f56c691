-------------------------------- MODULE Parts --------------------------------
(* The parts of tevpp that share no state with each other, and what each of *)
(* them promises: the objects that hold event sources and descriptors       *)
(* (Handles, which this module extends), a session of samples/wt_demo.cpp   *)
(* (DemoSession), shell_cmd_no_wait (DoubleFork), documents, numbers,       *)
(* strings and arrays of jsoncpp (JsonDocument, JsonNumber, JsonString,     *)
(* JsonArray), date_add_ym (Calendar), the helpers for texts (Text).        *)
EXTENDS Handles

CONSTANTS MaxTicks,                             \* of DemoSession
          Keyboards, StackLimit,                \* of JsonDocument
          Bits, IntBits, Mantissa, MaxDigits,   \* of JsonNumber
          Bytes, Escapes, Units, MaxPieces,     \* of JsonString
          Element, Null, MaxLen,                \* of JsonArray
          FirstYear, LastYear, Years, Months,   \* of Calendar
          Chars, MaxChars                       \* of Text

VARIABLES client_conn, round, exiting, main, to_worker, worker, seq, to_main,
          ticks, to_server, jobs_done, diedNow, usedLate,    \* of DemoSession
          pc, parent, leader, secondFailed,                  \* of DoubleFork
          keyboard, doc, got,                                \* of JsonDocument
          number,                                            \* of JsonNumber
          pieces,                                            \* of JsonString
          map, aborted,                                      \* of JsonArray
          tm,                                                \* of Calendar
          text                                               \* of Text

Session == INSTANCE DemoSession WITH sent <- to_server, handled <- jobs_done
Fork    == INSTANCE DoubleFork
Document == INSTANCE JsonDocument
Number  == INSTANCE JsonNumber WITH text <- number
String  == INSTANCE JsonString
Array   == INSTANCE JsonArray
Date    == INSTANCE Calendar
Texts   == INSTANCE Text

(* In a session of wt_demo.cpp the deleted connection is not used after the*)
(* round of the loop in which it was deleted, the server gets every number *)
(* in order, and no job is lost but those in the pipe after the join.      *)
SessionEndsClean == Session!SessionEndsClean

(* shell_cmd_no_wait runs its command once, in a session of its own, leaves*)
(* no child and no zombie to its caller, and waits for the command itself  *)
(* only if the second fork failed.                                         *)
CallDetaches == Fork!CallDetaches

(* Whatever stands in a document, Reader comes to an end, gives a comment   *)
(* only to a value that still exists, and counts the nesting by the         *)
(* brackets, none of which is left when the value has been read; and what a *)
(* strict reader (Features::strictMode, CharReaderBuilder::strictMode)      *)
(* accepts the default one reads alike.                                     *)
EchoReads == Document!ReadsSafely

(* A number read from a document is the one typed, or a double where no     *)
(* integer holds it, is*, as* and isConvertibleTo agree about it, and it    *)
(* is written as it was read (decodeNumber, valueToString).                 *)
NumbersAreExact == Number!NumbersAreExact

(* Texts that are split, replaced in, escaped or cut to a directory keep    *)
(* every character that should stay (CStringWrapper.h, utils.cpp), but for  *)
(* a slash that is doubled before the name; numbers as above.               *)
NumbersAndTextsAreExact == NumbersAreExact /\ Texts!TextHelpersAgree

(* A string of JSON is read as the UTF-8 of what it says, its escapes and   *)
(* surrogate pairs decoded, or refused, and whatever was read is written so *)
(* that it is read again (decodeString, valueToQuotedStringN).              *)
StringsComeBack == String!StringsComeBack

(* The array of jsoncpp, a map with holes, implements a plain sequence     *)
(* (JsonSequence), removeIndex and resize included, and no assertion fails,*)
(* but for an array that is cut where it has a hole.                       *)
ImplementsSequence == Array!ImplementsSequence

(* "assert(size() == newSize)" at the end of Value::resize, for any array. *)
ResizeHolds == Array!ResizeHolds

(* From 1901 to 2099 a date stays one of the calendar when years and months*)
(* are added (date_add_ym), and the sum is right if, and only if, the date *)
(* is one of January.                                                      *)
DateAddsUp == Date!DateAddsUp
=============================================================================
