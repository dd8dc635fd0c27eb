CONSTANTS
    c1 = c1
    None = None
    Headers = Headers
    Eol = Eol
    Cases <- MCCases
    Commitment <- MCCommitments
    Name <- MCNames
    Digest <- MCDigest
    Signature <- MCSignature
SPECIFICATION Spec
INVARIANTS TypeOK AnswersMatchTheLog JournalReadsBack ReceiptRebuilds HeadRebuilds CutAnswerNeverAnchored HonestAnswerAnchored ShownAnchorDecodes
