CONSTANTS
    p1 = p1
    h1 = h1
    h2 = h2
    q1 = q1
    Payload <- OnePayload
    Time <- TwoTimes
    Journaled = TRUE
    WriteFaults <- NoFaults
    Garbled = Garbled
    BadUtf8 = BadUtf8
    MaxEntries = 3
    Handler <- TwoHandlers
    Reader <- NoReaders
    TsaConfigured = TRUE
    Foreign = Foreign
    None = None
    Unread = Unread
SPECIFICATION Spec
INVARIANTS TypeOK HeadsStayServed ReceiptsStand
SYMMETRY Symmetric
