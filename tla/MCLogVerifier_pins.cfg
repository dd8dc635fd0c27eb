CONSTANTS
    p1 = p1
    p2 = p2
    v1 = v1
    Payload <- TwoPayloads
    Time <- OneTime
    Journaled = TRUE
    WriteFaults <- OnlyTorn
    Garbled = Garbled
    BadUtf8 = BadUtf8
    MaxEntries = 3
    Verifier <- OneVerifier
    None = None
    MaxFaults = 2
SPECIFICATION FairSpec
INVARIANTS TypeOK WrittenBackServed AcceptedHeadsFormChain
PROPERTIES AlarmsAreTrue LossIsFoundOut ClientsCatchUp
