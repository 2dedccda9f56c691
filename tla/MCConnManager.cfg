SPECIFICATION FairSpec
CONSTANTS
    Clients = {c1, c2}
    Backends = {b1, b2}
    Tokens = {t1}
    IdModulus = 3
    MaxAccepts = 3
    NoConn = NoConn
    NoId = NoId
INVARIANTS
    ListedIffManaged
    AnswerOnceToAsker
    OneGuarded
PROPERTIES
    EndsAlone
    Reconnects
CHECK_DEADLOCK FALSE
