CONSTANTS
    p1 = p1
    h1 = h1
    h2 = h2
    q1 = q1
    Payload <- OnePayload
    Time <- TwoTimes
    Journaled = TRUE
    WriteFaults <- OnlyTorn
    Garbled = Garbled
    BadUtf8 = BadUtf8
    MaxEntries = 2
    Handler <- TwoHandlers
    Reader <- OneReader
    TsaConfigured = TRUE
    Foreign = Foreign
    None = None
    Unread = Unread
SPECIFICATION FairSpec
INVARIANTS AnchoredMeansThisHead EveryAppendCovered
PROPERTY EveryPostEnds
