------------------------------ MODULE LogExchange ------------------------------
(***************************************************************************)
(* src/api.rs commit, tree_head and receipt: one POST /commitments from    *)
(* the body to the receipt, with the bytes of the TSA's answer, the        *)
(* journal line or its failed write, restarts, and what is served          *)
(* afterwards.  LogService has what several of them do to each other; this *)
(* module has what each of them reads and writes.                          *)
(***************************************************************************)
EXTENDS Integers, Sequences, FiniteSets, Configuration

CONSTANTS None, Headers, Eol,
          Cases,    \* what may happen: environment, request, earlier entries, TSA
          Commitment, Name, \* what texts of requests read as: hashes, anything else
          Digest,   \* the digest of the head that is submitted
          Signature \* the bytes of a signature

VARIABLES env, request, earlier, plan,  \* the case: chosen once
          stage,     \* "request", "submitting", or "answered"
          reply,     \* the last answer of POST or GET /receipt; None after a restart
          record,    \* the record in memory, or None
          line,      \* its journal line, or None
          cut,       \* the line is there without its newline, the write having failed
          received,  \* how much of the TSA's answer has arrived
          ended,     \* how the submission ended: "no", "closed", or "failed"
          anchor,    \* AppState.tsa
          size,      \* the entries of the log
          head       \* the body of the last GET /tree/head, or None

caseVars == <<env, request, earlier, plan>>
vars == <<caseVars, stage, reply, record, line, cut, received, ended, anchor, size, head>>

Wire == INSTANCE WireViews
Tsa == INSTANCE TsaResponse WITH Nothing <- None

config == ConfigOf(env)
Operator == OperatorOf(config)
Published == [log_id |-> Operator.log_id, suite |-> Operator.suite,
              key_id |-> Operator.key_id, public |-> Signature]

Now == 1

------------------------------------------------------------------------------
(* Assumptions.                                                              *)

Byte == 0..255

RequestText ==
    [kind : {"plain"}, of : Name, bytes : Nat, padded : BOOLEAN]
        \cup [kind : {"hex"}, of : Commitment, bytes : {64}, padded : BOOLEAN]

\* The value of a field of a request's body, and the body.
IsValue(v) ==
    /\ v.json \in {"null", "number", "string", "array", "object"}
    /\ v.json = "number" => v.n \in Nat \cup {Wire!NotU64}
    /\ v.json = "string" => v.text \in RequestText
IsBody(b) == b.json = "object" => \A key \in DOMAIN b.fields : IsValue(b.fields[key])

\* The authority's lengths fit their forms, its chunks the body; and no response to
\* another digest happens to hold this one.
IsPlan(p) ==
    /\ p.digest \in [1..32 -> Byte]
    /\ p.filler \in Nat /\ 37 + p.filler < 65536
    /\ p.form \in 0..4
    /\ 46 + p.filler < (IF p.form = 0 THEN 128 ELSE IF p.form = 1 THEN 256 ELSE 65536)
    /\ p.framing \in {"close", "length", "chunked"}
    /\ p.spelling \in {"usual", "other"}
    /\ p.framing = "chunked" => p.first \in 1..(48 + p.filler + p.form)
    /\ p.digest # Digest =>
          ~Tsa!Carries(Tsa!TimeStampResp(p.digest, p.filler, p.form), Digest)

ASSUME CasesAssumption ==
    /\ Digest \in [1..32 -> Byte]
    /\ Signature \in Seq(Byte)
    /\ \A c \in Cases :
          /\ c.request.body # None => IsBody(c.request.body)
          /\ c.earlier \in Nat
          /\ IsPlan(c.plan)

\* What texts read as.
FixedWord == {"left"} \cup UNION {{OperatorOf(ConfigOf(c.env)).log_id, OperatorOf(ConfigOf(c.env)).suite,
                              OperatorOf(ConfigOf(c.env)).key_id} : c \in Cases}
Hash == Commitment \cup [size : Nat, last : Commitment \cup {None}]
Content == Name \cup FixedWord \cup Hash \cup Nat \cup Seq(0..15)
Text == [kind : {"plain", "hex", "time", "digits"}, of : Content, bytes : Nat, padded : BOOLEAN]
SignatureRecord == [suite : FixedWord, key_id : FixedWord, value : Seq(Byte)]
NumValue  == [json : {"number"}, n : Nat]
TextValue == [json : {"string"}, text : Text]

\* None is none of the values it is told from.
ASSUME NoneAssumption ==
    /\ None \notin Nat
    /\ None \notin Text
    /\ None \notin [value : Content \cup {None}]
    /\ None \notin [subject : Text, commitment : Commitment, salt_ref : Nat \cup {None}]
    /\ None \notin [seq : Nat, logged_at : Nat, subject : Text, commitment : Commitment,
                    salt_ref : Nat \cup {None}]
    /\ None \notin [json : {"object"},
                    fields : [seq : NumValue, logged_at : TextValue, subject : TextValue,
                              commitment : TextValue, salt_ref : NumValue \cup {Wire!Null}]]
    /\ None \notin Seq(0..255)
    /\ None \notin SignatureRecord
    /\ None \notin [sibling : Hash, side : FixedWord]
    /\ None \notin [tag : Byte, value : Seq(Byte), raw_len : Nat]

------------------------------------------------------------------------------
(* What the store derives; hashes are terms of what they are over.           *)

\* The signed head over n entries of which `last' is the last.
SthOver(n, last) ==
    [log_id |-> Operator.log_id, tree_size |-> n, timestamp |-> Now,
     root |-> [size |-> n, last |-> last],
     signature |-> [suite |-> Operator.suite, key_id |-> Operator.key_id, value |-> Signature]]

\* Receipt::of for the last entry: its path has a left sibling for every one bit
\* of its number.
ReceiptOf(r) ==
    LET siblings == Cardinality({z \in 0..r.seq : (r.seq \div 2^z) % 2 = 1})
    IN  [record |-> r, sth |-> SthOver(r.seq + 1, r.commitment),
         inclusion |-> [leaf_index |-> r.seq, tree_size |-> r.seq + 1,
                        path |-> [i \in 1..siblings |->
                                     [sibling |-> [size |-> i, last |-> None],
                                      side |-> "left"]]]]

\* current_head, of the entry or of one that came after it.
HeadNow ==
    SthOver(size, IF record # None /\ size = earlier + 1 THEN record.commitment ELSE None)

------------------------------------------------------------------------------
(* POST /commitments                                                         *)

\* require_append: with a token configured, only under it.
Authorised == config.append_token \in {"none", request.bearer}

\* What the body asks to sequence; None if it is not JSON or not acceptable.
Post == IF request.body = None THEN None ELSE Wire!PostOf(request.body)

Accepted == Authorised /\ Post # None

Answer(code, body) == [code |-> code, body |-> body]

\* The request is refused, and nothing has changed: 401 before 400.
Reject ==
    /\ stage = "request"
    /\ ~Accepted
    /\ reply' = Answer(IF ~Authorised THEN 401 ELSE 400, None)
    /\ stage' = "answered"
    /\ UNCHANGED <<caseVars, record, line, cut, received, ended, anchor, size, head>>

\* LogStore::append: the record it makes of the request.
NewRecord ==
    [seq |-> earlier, logged_at |-> Now, subject |-> Post.subject,
     commitment |-> Post.commitment, salt_ref |-> Post.salt_ref]

Journaled == config.state_file # "none"

\* Whether a log of n entries has a head to submit, and somebody to submit it to.
AfterAppend(n) ==
    IF config.external_tsa_url = "none" \/ n = 0 THEN "answered" ELSE "submitting"

\* The record is written, applied, and its receipt derived, all under the lock;
\* the answer is sent once the submission has ended.
Sequence ==
    /\ stage = "request"
    /\ Accepted
    /\ record' = NewRecord
    /\ line' = IF Journaled THEN Wire!RecordView(NewRecord) ELSE None
    /\ reply' = Answer(201, Wire!ReceiptView(ReceiptOf(NewRecord), Published))
    /\ size' = earlier + 1
    /\ stage' = AfterAppend(earlier + 1)
    /\ UNCHANGED <<caseVars, cut, received, ended, anchor, head>>

\* Fault: a failed write is not noticed.
AppendFailsUnnoticed ==
    /\ stage = "request"
    /\ Accepted /\ Journaled
    /\ record' = NewRecord
    /\ line' \in {None, Wire!RecordView(NewRecord)}
    /\ cut' = (line' # None)
    /\ reply' = Answer(201, Wire!ReceiptView(ReceiptOf(NewRecord), Published))
    /\ size' = earlier + 1
    /\ stage' = AfterAppend(earlier + 1)
    /\ UNCHANGED <<caseVars, received, ended, anchor, head>>

\* The write fails: nothing is applied, but the line may be in the file, all of it
\* but the newline (LogStore has the shorter fragments: no record reads from them).
\* The head there already is is submitted all the same.
AppendFails ==
    /\ stage = "request"
    /\ Accepted /\ Journaled
    /\ line' \in {None, Wire!RecordView(NewRecord)}
    /\ cut' = (line' # None)
    /\ reply' = Answer(500, None)
    /\ stage' = AfterAppend(earlier)
    /\ UNCHANGED <<caseVars, record, received, ended, anchor, size, head>>

Body == Tsa!TimeStampResp(plan.digest, plan.filler, plan.form)
Stream == Tsa!StreamOf(Body, plan.framing, plan.first)
AnswerHead == [status |-> plan.status, framing |-> plan.framing,
               spelling |-> plan.spelling, length |-> Len(Body)]

\* The head over n entries, as it is submitted.
Submitted(n) == [tree_size |-> n, digest |-> Digest]

\* More of the answer arrives.
Receive ==
    /\ stage = "submitting" /\ Tsa!Dialable(plan.url)
    /\ received < Len(Stream)
    /\ received' = received + 1
    /\ UNCHANGED <<caseVars, stage, reply, record, line, cut, ended, anchor, size, head>>

\* The connection is closed, after all of the answer or before.
EndOfAnswer ==
    /\ stage = "submitting" /\ Tsa!Dialable(plan.url)
    /\ anchor' = Tsa!RecordOf(Submitted(size), Now,
                             Tsa!BodyOf(AnswerHead, SubSeq(Stream, 1, received)))
    /\ ended' = "closed"
    /\ stage' = "answered"
    /\ UNCHANGED <<caseVars, reply, record, line, cut, received, size, head>>

\* No connection, an error on it, or no end of the answer within the timeout.
SubmissionFails ==
    /\ stage = "submitting"
    /\ anchor' = Tsa!Degraded(Submitted(size), Now)
    /\ ended' = "failed"
    /\ stage' = "answered"
    /\ UNCHANGED <<caseVars, reply, record, line, cut, received, size, head>>

------------------------------------------------------------------------------
(* Afterwards.                                                               *)

\* TsaRecord::to_wire.
AnchorRecordView(a) ==
    [status |-> a.status, tree_size |-> a.tree_size, digest |-> a.digest,
     submitted_at |-> a.submitted_at, retry_at |-> a.retry_at,
     response |-> IF a.response = None THEN None ELSE Tsa!Base64(a.response)]

\* external_anchor_view for the current head.
AnchorView ==
    IF anchor = None THEN [status |-> "not-configured"]
    ELSE IF anchor.tree_size # size
    THEN [status |-> "stale", anchored_tree_size |-> anchor.tree_size]
    ELSE [method |-> "rfc3161", digest |-> anchor.digest, submission |-> AnchorRecordView(anchor)]

\* The body of GET /tree/head.
HeadBody ==
    IF size = 0 THEN Wire!EmptyHeadView(Published)
    ELSE Wire!HeadView(HeadNow, AnchorView, Published)

\* GET /tree/head.
ReadHead ==
    /\ stage = "answered"
    /\ head' = HeadBody
    /\ UNCHANGED <<caseVars, stage, reply, record, line, cut, received, ended, anchor, size>>

\* GET /receipt/{seq}, for the number the request had or would have had.
GetReceipt ==
    /\ stage = "answered"
    /\ reply' = IF record # None
                THEN Answer(200, Wire!ReceiptView(ReceiptOf(record), Published))
                ELSE Answer(404, None)
    /\ UNCHANGED <<caseVars, stage, record, line, cut, received, ended, anchor, size, head>>

\* An append of someone else, whose own submission is still under way.  (Behind a
\* cut line it is LogStore that has what becomes of it.)
AppendAfter ==
    /\ stage = "answered" /\ record # None /\ size = earlier + 1 /\ ~cut
    /\ size' = size + 1
    /\ head' = None
    /\ UNCHANGED <<caseVars, stage, reply, record, line, cut, received, ended, anchor>>

\* The process starts again with what its journal holds, a line without a newline
\* included; without a journal it starts empty.  The record of the TSA is gone.
Restart ==
    /\ stage = "answered"
    /\ record' = IF line = None THEN None ELSE Wire!RecordFrom(line)
    /\ line # None => record' # None
    /\ size' = IF ~Journaled THEN 0 ELSE IF cut THEN earlier + 1 ELSE size
    /\ reply' = None
    /\ anchor' = None
    /\ head' = None
    /\ UNCHANGED <<caseVars, stage, line, cut, received, ended>>

Init ==
    /\ \E c \in Cases :
          /\ Usable(c.env)
          /\ env = c.env /\ request = c.request
          /\ earlier = c.earlier /\ plan = c.plan
    /\ stage = "request"
    /\ reply = None
    /\ record = None
    /\ line = None
    /\ cut = FALSE
    /\ received = 0
    /\ ended = "no"
    /\ anchor = None
    /\ size = earlier
    /\ head = None

Next ==
    \/ Reject \/ Sequence \/ AppendFails
    \/ Receive \/ EndOfAnswer \/ SubmissionFails
    \/ ReadHead \/ GetReceipt \/ AppendAfter \/ Restart

Spec == Init /\ [][Next]_vars

------------------------------------------------------------------------------
(* Properties.                                                               *)

\* The state has its types, stage by stage.
TypeOK ==
    /\ stage \in {"request", "submitting", "answered"}
    /\ stage = "request" => reply = None /\ size = earlier
    /\ reply # None => reply.code \in {200, 201, 400, 401, 404, 500}
    /\ record # None => record.seq = earlier /\ size > earlier /\ (Journaled => line # None)
    /\ cut => line # None
    /\ anchor # None => anchor.status \in {"anchored", "unreachable"}
    /\ (anchor # None /\ anchor.status = "unreachable") => anchor.response = None
    /\ received \in 0..Len(Stream)

\* README.md: `{subject, commitment (64-hex), salt_ref?}'.  The subject has at most 512
\* bytes: the error text of commit says characters, which is another limit (README.md).
WellFormed(body) ==
    /\ body.json = "object"
    /\ {"subject", "commitment"} \subseteq DOMAIN body.fields
    /\ LET f == body.fields
       IN  /\ f["subject"].json = "string" /\ f["subject"].text.bytes \in 1..512
           /\ f["commitment"].json = "string" /\ f["commitment"].text.kind = "hex"
           /\ "salt_ref" \in DOMAIN f =>
                 \/ f["salt_ref"].json = "null"
                 \/ f["salt_ref"].json = "number" /\ f["salt_ref"].n >= 0

\* The submitter may append, and the body is what the endpoint asks for.
Due == Authorised /\ request.body # None /\ WellFormed(request.body)

\* Whatever becomes of the write, of the process and of the submission: only a due
\* request is ever served or in the journal; it is never refused; and where it was
\* answered with a receipt it is in memory and, with a journal, on its line.  A
\* failed write is a 500, never a receipt (api.rs commit: validation, the append and
\* its Err path, with the anchor attempt in between).
AnswersMatchTheLog ==
    stage # "request" =>
        /\ record # None \/ line # None => Due
        /\ reply # None =>
              /\ reply.code \in {200, 201, 500} => Due
              /\ reply.code \in {400, 401} => ~Due
              /\ reply.code = 201 => record # None /\ (Journaled => line # None /\ ~cut)

\* What append writes, replay reads, for every body that is accepted: the record
\* of the line is the one the receipt was derived from (model.rs to_json and
\* from_json are two lists of fields, of which only tests keep step).
JournalReadsBack == record # None /\ Journaled => Wire!RecordFrom(line) = record

\* The receipt on the wire is enough for a verifier: the head and the inclusion
\* proof it rebuilds are those that were signed, over the record it names, also
\* when the receipt is served again after a restart.
ReceiptRebuilds ==
    (reply # None /\ reply.code \in {200, 201}) =>
        LET view == reply.body.fields
        IN  /\ Wire!SthFrom(view["tree_head"]) = ReceiptOf(record).sth
            /\ Wire!ProofFrom(view["inclusion"]) = ReceiptOf(record).inclusion
            /\ Wire!RecordFrom(reply.body) = record

\* tree_head spells the head out a second time: a verifier rebuilds from it the
\* very head that receipts of that size hold, and no head from an empty log.
HeadRebuilds ==
    head # None =>
        IF size = 0 THEN Wire!SthFrom(head) = None
        ELSE Wire!SthFrom(head) = HeadNow

\* Wherever the TSA's answer is cut, and however it is framed: a submission is
\* recorded as anchored only with the whole response the TSA sent, for the very
\* digest that was submitted (the checks of the length in der_tlv are all there
\* is against a body that ends early).
CutAnswerNeverAnchored ==
    (anchor # None /\ anchor.status = "anchored") =>
        plan.status = 200 /\ plan.digest = Digest /\ anchor.response = Body

\* The TSA granted the digest, all of its answer has arrived, and it closed the
\* connection.
HonestAnswer ==
    /\ anchor # None /\ ended = "closed" /\ received = Len(Stream)
    /\ plan.status = 200 /\ plan.digest = Digest

\* An honest answer is always recorded as anchored: in every form of length, and in
\* every framing whose header is spelled as http_post_binary searches for it.
HonestAnswerAnchored ==
    HonestAnswer /\ (plan.framing = "chunked" => plan.spelling = "usual")
        => anchor.status = "anchored"

\* The bytes of base64 text.
Decoded(text) ==
    LET pads == Cardinality({i \in 1..Len(text) : text[i] = 64})
        At(i) == IF text[i] = 64 THEN 0 ELSE text[i]
    IN  [j \in 1..((3 * Len(text)) \div 4 - pads) |->
            LET c == (j - 1) \div 3
                triple == 262144 * At(4 * c + 1) + 4096 * At(4 * c + 2)
                          + 64 * At(4 * c + 3) + At(4 * c + 4)
            IN  (triple \div 256^(2 - ((j - 1) % 3))) % 256]

\* A head that shows an anchor shows it for its own size, and shows the response
\* that the TSA sent: the text decodes to its bytes, whatever their number.
ShownAnchorDecodes ==
    (head # None /\ size > 0 /\ anchor # None /\ anchor.tree_size = size) =>
        LET shown == head.fields["external_anchor"].submission
        IN  /\ shown.tree_size = head.fields["tree_size"].n
            /\ (shown.status = "anchored") <=> (shown.response # None)
            /\ shown.status = "anchored" => Decoded(shown.response) = Body
==============================================================================
