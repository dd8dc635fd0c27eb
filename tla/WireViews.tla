------------------------------- MODULE WireViews -------------------------------
(***************************************************************************)
(* src/model.rs, src/api.rs: what goes out as JSON and what is read back   *)
(* from it: request bodies, journal lines, receipts and tree heads.        *)
(*                                                                         *)
(* A JSON value is a record whose `json' tells its type.  A text is what   *)
(* it reads as: `of' under the notation `kind' (plain words, a hash in     *)
(* hex, a timestamp), with its length in bytes and whether it has          *)
(* whitespace around it.  A number that is no u64 (negative, fractional or *)
(* too large) is NotU64.                                                   *)
(***************************************************************************)
EXTENDS Integers, Sequences

CONSTANT None  \* Rust's None, and the Err of a parser

NotU64 == -1

Missing  == [json |-> "missing"]
Null     == [json |-> "null"]
Num(n)   == [json |-> "number", n |-> n]
Str(t)   == [json |-> "string", text |-> t]
Arr(s)   == [json |-> "array", items |-> s]
Obj(f)   == [json |-> "object", fields |-> f]

Plain(name, bytes, padded) == [kind |-> "plain", of |-> name, bytes |-> bytes, padded |-> padded]
HexText(h)  == [kind |-> "hex", of |-> h, bytes |-> 64, padded |-> FALSE]
TimeText(t) == [kind |-> "time", of |-> t, bytes |-> 20, padded |-> FALSE]

\* Value::get and the accessors, each None on any other type.
Get(v, key) ==
    IF v.json = "object" /\ key \in DOMAIN v.fields THEN v.fields[key] ELSE Missing
AsU64(v)  == IF v.json = "number" /\ v.n # NotU64 THEN v.n ELSE None
AsText(v) == IF v.json = "string" THEN v.text ELSE None

\* One of the parsed fields is None.
Lacking(parsed) == \E i \in 1..Len(parsed) : parsed[i] = None

\* Hash::from_hex and Timestamp::parse of a text, which take no whitespace.
Reads(t, kind) ==
    IF t # None /\ t.kind = kind /\ ~t.padded THEN [value |-> t.of] ELSE None

------------------------------------------------------------------------------
(* Request bodies.                                                           *)

Trimmed(t) == [t EXCEPT !.padded = FALSE]

\* req_str: trimmed, and not empty.
ReqStr(v, key) ==
    LET t == AsText(Get(v, key))
    IN  IF t # None /\ t.bytes > 0 THEN Trimmed(t) ELSE None

\* opt_u64: absent and null are no value, anything but a u64 is an error.
OptU64(v, key) ==
    LET x == Get(v, key)
    IN  IF x.json \in {"missing", "null"} THEN [value |-> None]
        ELSE IF AsU64(x) # None THEN [value |-> AsU64(x)] ELSE None

ReqCommitment(v) == Reads(ReqStr(v, "commitment"), "hex")

\* Fault: a subject of spaces is not taken for an empty one.
PostOfUntrimmed(v) ==
    LET subject    == AsText(Get(v, "subject"))
        commitment == ReqCommitment(v)
        salt_ref   == OptU64(v, "salt_ref")
    IN  IF \/ subject = None \/ subject.bytes > 512
           \/ commitment = None \/ salt_ref = None
        THEN None
        ELSE [subject |-> Trimmed(subject), commitment |-> commitment.value,
              salt_ref |-> salt_ref.value]

\* commit's validation: what it sequences of a body, or None (400).
PostOf(v) ==
    LET subject    == ReqStr(v, "subject")
        commitment == ReqCommitment(v)
        salt_ref   == OptU64(v, "salt_ref")
    IN  IF \/ subject = None \/ subject.bytes > 512
           \/ commitment = None \/ salt_ref = None
        THEN None
        ELSE [subject |-> subject, commitment |-> commitment.value,
              salt_ref |-> salt_ref.value]

------------------------------------------------------------------------------
(* Journal lines.                                                            *)

OptionalNum(n) == IF n = None THEN Null ELSE Num(n)

\* CommitRecord::to_json.
RecordView(r) ==
    Obj([seq        |-> Num(r.seq),
         logged_at  |-> Str(TimeText(r.logged_at)),
         subject    |-> Str(r.subject),
         commitment |-> Str(HexText(r.commitment)),
         salt_ref   |-> OptionalNum(r.salt_ref)])

\* Fault: a salt reference must be a number where there is one at all.
RecordFromStrict(v) ==
    LET seq        == AsU64(Get(v, "seq"))
        logged_at  == Reads(AsText(Get(v, "logged_at")), "time")
        subject    == AsText(Get(v, "subject"))
        commitment == Reads(AsText(Get(v, "commitment")), "hex")
        salt_ref   == AsU64(Get(v, "salt_ref"))
    IN  IF Lacking(<<seq, logged_at, subject, commitment>>)
           \/ (salt_ref = None /\ Get(v, "salt_ref") # Missing)
        THEN None
        ELSE [seq |-> seq, logged_at |-> logged_at.value, subject |-> subject,
              commitment |-> commitment.value, salt_ref |-> salt_ref]

\* CommitRecord::from_json.
RecordFrom(v) ==
    LET seq        == AsU64(Get(v, "seq"))
        logged_at  == Reads(AsText(Get(v, "logged_at")), "time")
        subject    == AsText(Get(v, "subject"))
        commitment == Reads(AsText(Get(v, "commitment")), "hex")
        salt_ref   == OptU64(v, "salt_ref")
    IN  IF Lacking(<<seq, logged_at, subject, commitment, salt_ref>>)
        THEN None
        ELSE [seq |-> seq, logged_at |-> logged_at.value, subject |-> subject,
              commitment |-> commitment.value, salt_ref |-> salt_ref.value]

------------------------------------------------------------------------------
(* Signatures, in hex digits.                                                *)

\* hex_encode: two digits per byte, the higher one first.
HexEncode(bytes) ==
    [j \in 1..(2 * Len(bytes)) |->
        LET b == bytes[(j + 1) \div 2] IN IF j % 2 = 1 THEN b \div 16 ELSE b % 16]

\* hex_decode.
HexDecode(digits) ==
    IF Len(digits) % 2 # 0 THEN None
    ELSE [i \in 1..(Len(digits) \div 2) |-> 16 * digits[2 * i - 1] + digits[2 * i]]

Digits(d) == [kind |-> "digits", of |-> d, bytes |-> Len(d), padded |-> FALSE]

\* Words of fixed spelling: identities, suites, key identifiers, sides.
Word(w) == Plain(w, 1, FALSE)

SignatureView(s) ==
    Obj([suite  |-> Str(Word(s.suite)),
         key_id |-> Str(Word(s.key_id)),
         value  |-> IF s.value = None THEN Null ELSE Str(Digits(HexEncode(s.value)))])

\* The signature of a tree head, or None.
SignatureFrom(v) ==
    LET suite  == AsText(Get(v, "suite"))
        key_id == AsText(Get(v, "key_id"))
        value  == Reads(AsText(Get(v, "value")), "digits")
    IN  IF Lacking(<<suite, key_id, value>>) \/ HexDecode(value.value) = None THEN None
        ELSE [suite |-> suite.of, key_id |-> key_id.of, value |-> HexDecode(value.value)]

------------------------------------------------------------------------------
(* Tree heads.                                                               *)

\* sth_json: the head in a receipt.
SthView(sth) ==
    Obj([log_id    |-> Str(Word(sth.log_id)),
         tree_size |-> Num(sth.tree_size),
         timestamp |-> Str(TimeText(sth.timestamp)),
         root      |-> Str(HexText(sth.root)),
         signature |-> SignatureView(sth.signature)])

\* Operator::info.
OperatorView(operator) ==
    Obj([log_id         |-> Str(Word(operator.log_id)),
         suite          |-> Str(Word(operator.suite)),
         key_id         |-> Str(Word(operator.key_id)),
         public_key_hex |-> Str(Digits(HexEncode(operator.public))),
         fingerprint    |-> Str(Word(operator.key_id))])

\* The signature as GET /tree/head spells it: a value there is none of is empty.
HeadSignatureView(s) ==
    Obj([suite  |-> Str(Word(s.suite)),
         key_id |-> Str(Word(s.key_id)),
         value  |-> Str(Digits(IF s.value = None THEN <<>> ELSE HexEncode(s.value)))])

\* Fault: the signature's value is left out, as it is when there is none.
HeadViewUnsigned(sth, anchor, operator) ==
    Obj([log_id          |-> Str(Word(sth.log_id)),
         tree_size       |-> Num(sth.tree_size),
         timestamp       |-> Str(TimeText(sth.timestamp)),
         root            |-> Str(HexText(sth.root)),
         signature       |-> HeadSignatureView([sth.signature EXCEPT !.value = None]),
         external_anchor |-> anchor,
         operator        |-> OperatorView(operator)])

\* The body of GET /tree/head, which spells the head out again.
HeadView(sth, anchor, operator) ==
    Obj([log_id          |-> Str(Word(sth.log_id)),
         tree_size       |-> Num(sth.tree_size),
         timestamp       |-> Str(TimeText(sth.timestamp)),
         root            |-> Str(HexText(sth.root)),
         signature       |-> HeadSignatureView(sth.signature),
         external_anchor |-> anchor,
         operator        |-> OperatorView(operator)])

\* The body of GET /tree/head while the log is empty.
EmptyHeadView(operator) ==
    Obj([log_id    |-> Str(Word(operator.log_id)),
         tree_size |-> Num(0),
         timestamp |-> Null,
         root      |-> Null,
         signature |-> Null,
         operator  |-> OperatorView(operator)])

\* sth_from_json.
SthFrom(v) ==
    LET log_id    == AsText(Get(v, "log_id"))
        tree_size == AsU64(Get(v, "tree_size"))
        timestamp == Reads(AsText(Get(v, "timestamp")), "time")
        root      == Reads(AsText(Get(v, "root")), "hex")
        signature == SignatureFrom(Get(v, "signature"))
    IN  IF Lacking(<<log_id, tree_size, timestamp, root, signature>>) THEN None
        ELSE [log_id |-> log_id.of, tree_size |-> tree_size,
              timestamp |-> timestamp.value, root |-> root.value, signature |-> signature]

------------------------------------------------------------------------------
(* Receipts.                                                                 *)

\* Fault: the two sides are taken for each other.
NodeViewSwapped(n) ==
    Obj([sibling |-> Str(HexText(n.sibling)),
         side    |-> Str(Word(IF n.side = "left" THEN "right" ELSE "left"))])

NodeView(n) == Obj([sibling |-> Str(HexText(n.sibling)), side |-> Str(Word(n.side))])

\* proof_json; the hash of the leaf is a function of the commitment.
ProofView(proof, commitment) ==
    Obj([leaf_index |-> Num(proof.leaf_index),
         tree_size  |-> Num(proof.tree_size),
         leaf_hash  |-> Str(HexText(<<1, commitment>>)),
         commitment |-> Str(HexText(commitment)),
         path       |-> Arr([i \in 1..Len(proof.path) |-> NodeView(proof.path[i])])])

NodeFrom(v) ==
    LET sibling == Reads(AsText(Get(v, "sibling")), "hex")
        side    == AsText(Get(v, "side"))
    IN  IF sibling = None \/ side = None \/ side.of \notin {"left", "right"} THEN None
        ELSE [sibling |-> sibling.value, side |-> side.of]

\* proof_from_json.
ProofFrom(v) ==
    LET leaf_index == AsU64(Get(v, "leaf_index"))
        tree_size  == AsU64(Get(v, "tree_size"))
        path       == Get(v, "path")
    IN  IF Lacking(<<leaf_index, tree_size>>) \/ path.json # "array" THEN None
        ELSE IF \E i \in 1..Len(path.items) : NodeFrom(path.items[i]) = None THEN None
        ELSE [leaf_index |-> leaf_index, tree_size |-> tree_size,
              path |-> [i \in 1..Len(path.items) |-> NodeFrom(path.items[i])]]

\* Receipt::to_json.
ReceiptView(receipt, operator) ==
    Obj([receipt_id |-> Str(Plain(receipt.record.seq, 1, FALSE)),
         log_id     |-> Str(Word(receipt.sth.log_id)),
         seq        |-> Num(receipt.record.seq),
         subject    |-> Str(receipt.record.subject),
         commitment |-> Str(HexText(receipt.record.commitment)),
         salt_ref   |-> OptionalNum(receipt.record.salt_ref),
         logged_at  |-> Str(TimeText(receipt.record.logged_at)),
         inclusion  |-> ProofView(receipt.inclusion, receipt.record.commitment),
         tree_head  |-> SthView(receipt.sth),
         operator   |-> OperatorView(operator)])
==============================================================================
