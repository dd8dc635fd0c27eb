CONSTANTS
    p1 = p1
    p2 = p2
    o1 = o1
    o2 = o2
    Payload <- TwoPayloads
    Time <- OneTime
    WriteFaults <- TornAndWhole
    Garbled = Garbled
    BadUtf8 = BadUtf8
    MaxEntries = 3
    Process <- TwoProcesses
    Environment <- MCEnvironment
    Blank = Blank
    None = None
SPECIFICATION Spec
INVARIANTS TypeOK AcceptedJournalHoldsAcked
PROPERTY StepsOfOneStore
