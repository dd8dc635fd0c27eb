CONSTANTS
    p1 = p1
    p2 = p2
    Payload <- MCPayload
    Time <- MCTime
    Journaled = TRUE
    WriteFaults <- NoFaults
    Garbled = Garbled
    BadUtf8 = BadUtf8
    MaxEntries = 3
SPECIFICATION FairSpec
INVARIANT AckedDurable
PROPERTIES ImplementsAppendOnlyLog ServesAgain
