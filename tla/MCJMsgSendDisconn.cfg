SPECIFICATION Spec
CONSTANTS
    Loop = Loop
    w1 = w1
    w2 = w2
    Workers = {w1}
    DisconnSenders = {w1}
    TRACE_JMSG = FALSE
    NoThread = NoThread
    MaxMsgs = 3
INVARIANT
    DisconnIsForWorkers
CHECK_DEADLOCK FALSE
