SPECIFICATION MCSpec
CONSTANTS
    Subjects = {"echo", "naked", "number", "string", "array", "date", "text",
                "handles", "demo", "fork"}
    Keyboards <- MCKeyboards
    StackLimit = 3
    MaxSent = 2
    Bits = 6
    IntBits = 3
    Mantissa = 4
    MaxDigits = 3
    Bytes = {1, 97, 195}
    Escapes = {34, 92, 110, 120}
    Units = {0, 127, 128, 2047, 2048, 55357, 56832, 65535}
    MaxPieces = 4
    Element = {Null, a, b}
    Null = Null
    MaxLen = 4
    FirstYear = 95
    LastYear = 105
    Years <- MCYears
    Months <- MCMonths
    Chars <- MCChars
    MaxChars = 5
    Timers = {"timer"}
    SignalHandlers = {"signal"}
    Listeners = {"listener"}
    HttpServers = {"http"}
    Connections = {conn1, conn2}
    Diagrams = {"udp"}
    Sources = {s1, s2, s3}
    Fds = {fd1, fd2}
    None = None
    MaxObjects = 2
    MaxTicks = 3
SYMMETRY
    MCSymmetry
INVARIANTS
    EchoReads
    EchoComesBack
    NumbersAndTextsAreExact
    StringsComeBack
    NakedNeverInvents
    DateAddsUp
    NothingOutlivesItsObject
    SessionEndsClean
    CallDetaches
PROPERTIES
    ImplementsSequence
CHECK_DEADLOCK FALSE
