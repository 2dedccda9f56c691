------------------------------- MODULE MCParts -------------------------------
(* The parts of which safety is asked and that share nothing with each     *)
(* other, so that a behaviour exercises one of them, its subject:          *)
(*   echo     documents that are typed, read and written back (JsonEcho)   *)
(*   naked    values that are sent without frames (NakedJson)              *)
(*   number, string, array   the numbers, strings and arrays of jsoncpp    *)
(*   date, text   the helpers of utils and CStringWrapper                  *)
(*   handles  objects with event sources and descriptors (Handles)         *)
(*   demo     a session of samples/wt_demo.cpp (DemoSession)               *)
(*   fork     shell_cmd_no_wait (DoubleFork)                               *)
EXTENDS Parts, Integers, TLC

CONSTANTS Subjects, MaxSent

VARIABLES subject,
          sent, arrived, taken, handled      \* of NakedJson

Reader == INSTANCE JsonReader

(* Every lexeme in short documents, objects and arrays in longer ones, and *)
(* the places a comment can have in an array in those between.             *)
MCKeyboards ==
    { [size |-> 8,
       lexemes |-> Reader!Marks \cup {"'a'", "''", "'a0'", "1", "null", "/*c*/", "//", "\n", " "}],
      [size |-> 10, lexemes |-> Reader!Marks \cup {"'a'", "/*c*/"}],
      [size |-> 10, lexemes |-> {"[", "]", ",", "'a'", "//", "/*n*/", "\n", " "}] }

(* {}, {"a": 1}, {"a": [1, 1]} and, with an object inside and with a       *)
(* string that reads like one, {"a": {}} and {"a": "{}"} (see NakedJson).  *)
MCValues ==
    {Reader!parse(d, Reader!AllFeatures(StackLimit)).tree :
        d \in { <<"{", "}">>,
                <<"{", "'a'", ":", "1", "}">>,
                <<"{", "'a'", ":", "[", "1", ",", "1", "]", "}">>,
                <<"{", "'a'", ":", "{", "}", "}">>,
                <<"{", "'a'", ":", "'b'", "}">> }}

(* Steps to and over the ends of years, and from 29 February.              *)
MCYears  == {-4, -1, 0, 1}
MCMonths == {-25, -13, -12, -1, 0, 1, 12, 14}

(* One plain character and one of each kind the helpers look for.          *)
MCChars == {"a", ":", "/", "'", "\\"}

Echo   == INSTANCE JsonEcho
Naked  == INSTANCE NakedJson WITH Values <- MCValues, DepthLimit <- StackLimit

ASSUME MCAssumption ==
    /\ Document!DocumentAssumption
    /\ Number!NumberAssumption
    /\ String!StringAssumption
    /\ Array!ArrayAssumption
    /\ Date!CalendarAssumption
    /\ Texts!TextAssumption
    /\ HandlesAssumption

nakedVars == <<sent, arrived, taken, handled>>
arrayVars == <<map, aborted>>
echoVars  == <<keyboard, doc, got>>
demoVars  == <<client_conn, round, exiting, main, to_worker, worker, seq, to_main,
               ticks, to_server, jobs_done, diedNow, usedLate>>
forkVars  == <<pc, parent, leader, secondFailed>>
allVars   == <<subject, echoVars, nakedVars, number, pieces, arrayVars, tm, text,
               vars, demoVars, forkVars>>

(* What is no subject starts in one state and stays there.                 *)
MCInit ==
    /\ subject \in Subjects
    /\ Echo!Init /\ (subject = "echo" \/ keyboard = CHOOSE k \in Keyboards : TRUE)
    /\ Naked!Init /\ Number!Init /\ String!Init /\ Array!Init /\ Texts!Init
    /\ Date!Init
    /\ subject = "date" \/ tm = [tm_year |-> FirstYear, tm_mon |-> 0, tm_mday |-> 1]
    /\ Init /\ Fork!Init
    /\ Session!Init /\ (subject = "demo" \/ client_conn = "NULL")

MCNext ==
    \/ /\ subject = "echo" /\ Echo!Next
       /\ UNCHANGED <<subject, nakedVars, number, pieces, arrayVars, tm, text, vars, demoVars, forkVars>>
    \/ /\ subject = "naked" /\ Naked!Next
       /\ UNCHANGED <<subject, echoVars, number, pieces, arrayVars, tm, text, vars, demoVars, forkVars>>
    \/ /\ subject = "number" /\ Number!Next
       /\ UNCHANGED <<subject, echoVars, nakedVars, pieces, arrayVars, tm, text, vars, demoVars, forkVars>>
    \/ /\ subject = "string" /\ String!Next
       /\ UNCHANGED <<subject, echoVars, nakedVars, number, arrayVars, tm, text, vars, demoVars, forkVars>>
    \/ /\ subject = "array" /\ Array!Next
       /\ UNCHANGED <<subject, echoVars, nakedVars, number, pieces, tm, text, vars, demoVars, forkVars>>
    \/ /\ subject = "date" /\ Date!Next
       /\ UNCHANGED <<subject, echoVars, nakedVars, number, pieces, arrayVars, text, vars, demoVars, forkVars>>
    \/ /\ subject = "text" /\ Texts!Next
       /\ UNCHANGED <<subject, echoVars, nakedVars, number, pieces, arrayVars, tm, vars, demoVars, forkVars>>
    \/ /\ subject = "handles" /\ Next
       /\ UNCHANGED <<subject, echoVars, nakedVars, number, pieces, arrayVars, tm, text, demoVars, forkVars>>
    \/ /\ subject = "demo" /\ Session!Next
       /\ UNCHANGED <<subject, echoVars, nakedVars, number, pieces, arrayVars, tm, text, vars, forkVars>>
    \/ /\ subject = "fork" /\ Fork!Next
       /\ UNCHANGED <<subject, echoVars, nakedVars, number, pieces, arrayVars, tm, text, vars, demoVars>>

MCSpec == MCInit /\ [][MCNext]_allVars

(* What libevent and the kernel hand out is alike, and so are connections. *)
MCSymmetry ==
    Permutations(Sources) \cup Permutations(Fds) \cup Permutations(Connections)

(* A document without comments is accepted if and only if it starts with a *)
(* JSON value not nested too deep, and means what the grammar says; one    *)
(* with comments means the same as without them if it is accepted.  What a *)
(* writer of jsoncpp writes of it is read back as the value it was given   *)
(* (commas, comments and line breaks between the members included), no     *)
(* comment is lost, and the second round writes the same.  JsonEcho names  *)
(* the exceptions: ReadsJson a comma behind a member with an empty name,   *)
(* Writable the values that a writer cannot write.                         *)
EchoComesBack ==
    subject = "echo" => Echo!ReadsJson /\ Echo!EchoIsKept

(* However the stream of a NakedJsonConnection is cut or run together, it  *)
(* processes what was sent, in order and once, or, where a piece happened  *)
(* to begin inside a value's text, an object inside the value or whatever  *)
(* a reader makes of the rest of a string.                                 *)
NakedNeverInvents == subject = "naked" => Naked!NakedNeverInvents
=============================================================================
