SPECIFICATION Spec
CONSTANTS
    Loop = Loop
    w1 = w1
    w2 = w2
    Workers = {w1, w2}
    DisconnSenders = {Loop}
    TRACE_JMSG = FALSE
    NoThread = NoThread
    MaxMsgs = 3
INVARIANT
    FramesContiguous
CHECK_DEADLOCK FALSE
