---------------------------- MODULE JsonDocument ----------------------------
(***************************************************************************)
(* A document is typed, lexeme by lexeme, and whatever stands there is read*)
(* by the readers of JsonReader.                                           *)
(***************************************************************************)
EXTENDS JsonReader, FiniteSets

CONSTANTS
    Keyboards,   \* bound: the lexemes typed in one document, and how many,
                 \* trivia counted twice
    StackLimit   \* stackLimit_g

DocumentAssumption == StackLimit \in Nat

VARIABLES
    keyboard,   \* the one the document is typed on
    doc,        \* the document so far
    got         \* what Reader, with its default features, makes of it

vars == <<keyboard, doc, got>>

Default == AllFeatures(StackLimit)
Trivia == Blank \cup CComment \cup {"//"}
Tokens(d) == SelectSeq(d, LAMBDA l : l \notin Trivia)

(* No text lexes into two adjacent numbers.  What a line comment says is   *)
(* not typed, but for a blank; a blank says nothing anywhere else.         *)
InLineComment(d) ==
    \E i \in DOMAIN d : d[i] = "//" /\ \A j \in i .. Len(d) : d[j] # "\n"

Fits(d, l) ==
    /\ InLineComment(d) => l \in Blank
    /\ l = " " => InLineComment(d)
    /\ l \in Numbers /\ d # <<>> => Last(d) \notin Numbers

Init == keyboard \in Keyboards /\ doc = <<>> /\ got = parse(<<>>, Default)

(* Nothing is typed behind a token that ends the reading.                  *)
AtEnd ==
    \/ got.tok = "end"
    \/ got.out = "throw" /\ skipSpaces(doc, got.pos) > Len(doc)

Type(l) ==
    /\ AtEnd /\ Fits(doc, l)
    /\ doc' = Append(doc, l)
    /\ 2 * Len(doc') - Len(Tokens(doc')) <= keyboard.size
    /\ got' = parse(doc', Default)
    /\ UNCHANGED keyboard

Next == \E l \in keyboard.lexemes : Type(l)

Spec == Init /\ [][Next]_vars
-----------------------------------------------------------------------------
Accepted == got.out = "ok"

(* How many of the first i brackets of w are open.                         *)
Depth(w, i) ==
    Cardinality({j \in 1 .. i : w[j] \in {"{", "["}})
    - Cardinality({j \in 1 .. i : w[j] \in {"}", "]"}})

(* The reader comes to an end.                                             *)
ReadingEnds == Ended(got)

(* No bracket, but for a closing brace, behind a comment: readObject takes *)
(* it for a comma there.                                                   *)
BracketsSeen(w) ==
    \A i, j \in DOMAIN w :
        (/\ i < j /\ w[i] \in CComment \cup {"//"}
         /\ \A k \in i + 1 .. j - 1 : w[k] \in Trivia) => w[j] \notin {"{", "[", "]"}

(* The depth is that of the containers and of their brackets: none is left *)
(* when all has been read, and the reader gives up where just as many are  *)
(* open as it allows.                                                      *)
NestingIsCounted ==
    /\ Accepted => got.depth = 0 /\ got.calls = <<>>
    /\ got.out = "throw" =>
          /\ got.depth = StackLimit /\ Len(got.calls) = StackLimit
          /\ BracketsSeen(doc) => Depth(doc, got.pos - 1) = StackLimit

(* A comment is only ever given to a value that is still there, also when  *)
(* a member of the same name has replaced what was read before: lastValue_ *)
(* never dangles.                                                          *)
CommentTargetsAlive == got.alive

(* What a strict reader accepts, the default one accepts, too, and takes   *)
(* for the same value.                                                     *)
StrictAgrees ==
    \A F \in {StrictMode(StackLimit), BuilderStrictMode(StackLimit)} :
        LET strict == parse(doc, F)
        IN  strict.out = "ok" => Accepted /\ Data(strict.tree) = Data(got.tree)

(* What holds of every reading.                                            *)
ReadsSafely == ReadingEnds /\ NestingIsCounted /\ CommentTargetsAlive /\ StrictAgrees
=============================================================================
