SPECIFICATION FairSpec
CONSTANTS
    HeaderLen = 2
    MAX_DATASIZE = 2
    DataSizes = {0, 2, 3}
    MaxFrames = 3
INVARIANTS
    AtFrameBoundary
    EachOnceInOrder
    EofAfterMessages
PROPERTIES
    EveryMsgHandled
CHECK_DEADLOCK FALSE
