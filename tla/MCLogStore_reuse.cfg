CONSTANTS
    p1 = p1
    p2 = p2
    Payload <- MCPayload
    Time <- MCTime
    Journaled = TRUE
    WriteFaults <- OnlyTorn
    Garbled = Garbled
    BadUtf8 = BadUtf8
    MaxEntries = 3
SPECIFICATION Spec
INVARIANT NumbersNeverReused
