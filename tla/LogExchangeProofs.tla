-------------------------- MODULE LogExchangeProofs ---------------------------
(***************************************************************************)
(* Proofs about LogExchange: for any request, what is written as JSON      *)
(* reads back, and for any authority, only its whole answer is an anchor.  *)
(***************************************************************************)
EXTENDS LogExchange, FiniteSetTheorems, TLAPS

------------------------------------------------------------------------------
(* Reading what was written.                                                 *)

CommitRecord ==
    [seq : Nat, logged_at : Nat, subject : Text, commitment : Commitment,
     salt_ref : Nat \cup {None}]

\* Field key of object v is x.
Has(v, key, x) == v.json = "object" /\ key \in DOMAIN v.fields /\ v.fields[key] = x

\* A field that is there is what Get returns.
LEMMA GetIs == ASSUME NEW v, NEW key, NEW x, Has(v, key, x) PROVE Wire!Get(v, key) = x
BY DEF Has, Wire!Get

\* A number reads as itself,
LEMMA NumReads == ASSUME NEW n \in Nat PROVE Wire!AsU64(Wire!Num(n)) = n /\ n # None
BY NoneAssumption DEF Wire!AsU64, Wire!Num, Wire!NotU64

\* a text as its text,
LEMMA TextReads == ASSUME NEW t \in Text PROVE Wire!AsText(Wire!Str(t)) = t /\ t # None
BY NoneAssumption DEF Wire!AsText, Wire!Str

\* a hash or a time as what it is of.
LEMMA HexReads ==
    ASSUME NEW h \in Hash
    PROVE  /\ Wire!HexText(h) \in Text
           /\ Wire!Reads(Wire!HexText(h), "hex") = [value |-> h]
           /\ [value |-> h] # None
<1>1. h \in Content
  BY DEF Content
<1>2. Wire!HexText(h) \in Text
  BY <1>1 DEF Wire!HexText, Text
<1>3. Wire!HexText(h) # None
  BY <1>2, NoneAssumption
<1>4. [value |-> h] \in [value : Content \cup {None}]
  BY <1>1
<1> QED
  BY <1>2, <1>3, <1>4, NoneAssumption DEF Wire!HexText, Wire!Reads

\* a hash or a time as what it is of.
LEMMA TimeReads ==
    ASSUME NEW t \in Nat
    PROVE  /\ Wire!TimeText(t) \in Text
           /\ Wire!Reads(Wire!TimeText(t), "time") = [value |-> t]
           /\ [value |-> t] # None
<1>1. t \in Content
  BY DEF Content
<1>2. Wire!TimeText(t) \in Text
  BY <1>1 DEF Wire!TimeText, Text
<1>3. Wire!TimeText(t) # None
  BY <1>2, NoneAssumption
<1>4. [value |-> t] \in [value : Content \cup {None}]
  BY <1>1
<1> QED
  BY <1>2, <1>3, <1>4, NoneAssumption DEF Wire!TimeText, Wire!Reads

\* An optional number reads as itself, or as none.
LEMMA SaltReads ==
    ASSUME NEW n \in Nat \cup {None}, NEW v, Has(v, "salt_ref", Wire!OptionalNum(n))
    PROVE  /\ Wire!OptU64(v, "salt_ref") = [value |-> n]
           /\ [value |-> n] # None
<1>1. Wire!Get(v, "salt_ref") = Wire!OptionalNum(n)
  BY GetIs
<1>2. [value |-> n] # None
  <2>1. n \in Content \cup {None}
    BY DEF Content
  <2>2. [value |-> n] \in [value : Content \cup {None}]
    BY <2>1
  <2> QED
    BY <2>2, NoneAssumption
<1>3. CASE n = None
  BY <1>1, <1>2, <1>3 DEF Wire!OptU64, Wire!OptionalNum, Wire!Null
<1>4. CASE n # None
  <2>1. Wire!OptionalNum(n) = Wire!Num(n) /\ Wire!AsU64(Wire!Num(n)) = n
    BY <1>4, NumReads DEF Wire!OptionalNum
  <2>2. Wire!Num(n).json = "number"
    BY DEF Wire!Num
  <2> QED
    BY <1>1, <1>2, <1>4, <2>1, <2>2 DEF Wire!OptU64
<1> QED
  BY <1>3, <1>4

\* from_json of an object with the fields of to_json, among others.
LEMMA RecordReads ==
    ASSUME NEW r \in CommitRecord, NEW v,
           Has(v, "seq", Wire!Num(r.seq)),
           Has(v, "logged_at", Wire!Str(Wire!TimeText(r.logged_at))),
           Has(v, "subject", Wire!Str(r.subject)),
           Has(v, "commitment", Wire!Str(Wire!HexText(r.commitment))),
           Has(v, "salt_ref", Wire!OptionalNum(r.salt_ref))
    PROVE  Wire!RecordFrom(v) = r
<1>1. /\ r.seq \in Nat /\ r.logged_at \in Nat /\ r.subject \in Text
      /\ r.commitment \in Hash /\ r.salt_ref \in Nat \cup {None}
      /\ r = [seq |-> r.seq, logged_at |-> r.logged_at, subject |-> r.subject,
              commitment |-> r.commitment, salt_ref |-> r.salt_ref]
  BY DEF CommitRecord, Hash
<1>2. Wire!AsU64(Wire!Get(v, "seq")) = r.seq /\ r.seq # None
  BY <1>1, GetIs, NumReads
<1>3. /\ Wire!Reads(Wire!AsText(Wire!Get(v, "logged_at")), "time") = [value |-> r.logged_at]
      /\ [value |-> r.logged_at] # None
  BY <1>1, GetIs, TimeReads, TextReads
<1>4. Wire!AsText(Wire!Get(v, "subject")) = r.subject /\ r.subject # None
  BY <1>1, GetIs, TextReads
<1>5. /\ Wire!Reads(Wire!AsText(Wire!Get(v, "commitment")), "hex") = [value |-> r.commitment]
      /\ [value |-> r.commitment] # None
  BY <1>1, GetIs, HexReads, TextReads
<1>6. /\ Wire!OptU64(v, "salt_ref") = [value |-> r.salt_ref]
      /\ [value |-> r.salt_ref] # None
  BY <1>1, SaltReads
<1>7. ~Wire!Lacking(<<r.seq, [value |-> r.logged_at], r.subject,
                      [value |-> r.commitment], [value |-> r.salt_ref]>>)
  BY <1>2, <1>3, <1>4, <1>5, <1>6 DEF Wire!Lacking
<1> QED
  BY <1>1, <1>2, <1>3, <1>4, <1>5, <1>6, <1>7 DEF Wire!RecordFrom

\* What append writes, replay reads.
LEMMA LineReads ==
    ASSUME NEW r \in CommitRecord
    PROVE  Wire!RecordFrom(Wire!RecordView(r)) = r
<1> DEFINE v == Wire!RecordView(r)
<1>1. /\ Has(v, "seq", Wire!Num(r.seq))
      /\ Has(v, "logged_at", Wire!Str(Wire!TimeText(r.logged_at)))
      /\ Has(v, "subject", Wire!Str(r.subject))
      /\ Has(v, "commitment", Wire!Str(Wire!HexText(r.commitment)))
      /\ Has(v, "salt_ref", Wire!OptionalNum(r.salt_ref))
  BY DEF Has, Wire!RecordView, Wire!Obj
<1> QED
  BY <1>1, RecordReads

\* Bytes are some bytes.
LEMMA BytesAreSome == ASSUME NEW b \in Seq(Byte) PROVE b # None
BY NoneAssumption, Zenon DEF Byte

\* Two digits per byte decode to the bytes.
LEMMA HexDecodes ==
    ASSUME NEW b \in Seq(Byte)
    PROVE  /\ Wire!HexEncode(b) \in Seq(0..15)
           /\ Wire!HexDecode(Wire!HexEncode(b)) = b
           /\ b # None
<1> DEFINE n == Len(b)
           d == Wire!HexEncode(b)
<1>1. n \in Nat /\ \A i \in 1..n : b[i] \in 0..255
  <2> HIDE DEF d
  <2>1. Len(b) \in Nat /\ b \in [1..Len(b) -> Byte]
    OBVIOUS
  <2> QED
    BY <2>1 DEF Byte
<1>2. d = [j \in 1..(2 * n) |-> LET x == b[(j + 1) \div 2]
                                IN  IF j % 2 = 1 THEN x \div 16 ELSE x % 16]
  BY DEF Wire!HexEncode
<1> HIDE DEF n, d
<1>3. ASSUME NEW j \in 1..(2 * n) PROVE d[j] \in 0..15
  <2>1. (j + 1) \div 2 \in 1..n
    BY <1>1
  <2>2. \A x \in 0..255 : x \div 16 \in 0..15 /\ x % 16 \in 0..15
    OBVIOUS
  <2>3. /\ b[(j + 1) \div 2] \div 16 \in 0..15
        /\ b[(j + 1) \div 2] % 16 \in 0..15
    BY <1>1, <2>1, <2>2
  <2>4. d[j] = IF j % 2 = 1 THEN b[(j + 1) \div 2] \div 16 ELSE b[(j + 1) \div 2] % 16
    BY <1>2
  <2>5. CASE j % 2 = 1
    BY <2>3, <2>4, <2>5
  <2>6. CASE j % 2 # 1
    BY <2>3, <2>4, <2>6
  <2> QED
    BY <2>5, <2>6
<1>4. d \in Seq(0..15) /\ Len(d) = 2 * n
  <2>1. d = [j \in 1..(2 * n) |-> d[j]]
    BY <1>2
  <2>2. 2 * n \in Nat
    BY <1>1
  <2>3. d \in [1..(2 * n) -> 0..15]
    BY ONLY <1>3, <2>1
  <2> QED
    BY ONLY <2>2, <2>3
<1>5. ASSUME NEW i \in 1..n PROVE 16 * d[2 * i - 1] + d[2 * i] = b[i]
  <2>1. /\ 2 * i - 1 \in 1..(2 * n) /\ 2 * i \in 1..(2 * n)
        /\ ((2 * i - 1) + 1) \div 2 = i /\ (2 * i + 1) \div 2 = i
        /\ (2 * i - 1) % 2 = 1 /\ (2 * i) % 2 = 0
    BY <1>1
  <2>2. d[2 * i - 1] = b[i] \div 16 /\ d[2 * i] = b[i] % 16
    BY <1>2, <2>1
  <2>3. \A x \in 0..255 : 16 * (x \div 16) + (x % 16) = x
    OBVIOUS
  <2> QED
    BY <1>1, <2>2, <2>3
<1>6. Wire!HexDecode(d) = [i \in 1..n |-> 16 * d[2 * i - 1] + d[2 * i]]
  <2>1. (2 * n) % 2 = 0 /\ (2 * n) \div 2 = n
    BY <1>1
  <2> QED
    BY <1>4, <2>1 DEF Wire!HexDecode
<1>7. b = [i \in 1..n |-> b[i]]
  BY DEF n
<1>8. b # None
  BY BytesAreSome
<1> QED
  BY <1>4, <1>5, <1>6, <1>7, <1>8 DEF d

\* A word of fixed spelling reads as itself,
LEMMA WordReads ==
    ASSUME NEW w \in FixedWord
    PROVE  /\ Wire!AsText(Wire!Str(Wire!Word(w))) = Wire!Word(w)
           /\ Wire!Word(w) # None /\ Wire!Word(w).of = w
<1>1. Wire!Word(w) \in Text
  BY DEF Wire!Word, Wire!Plain, Text, Content
<1> QED
  BY <1>1, TextReads DEF Wire!Word, Wire!Plain

\* and hex digits as theirs.
LEMMA DigitsRead ==
    ASSUME NEW d \in Seq(0..15)
    PROVE  /\ Wire!Reads(Wire!AsText(Wire!Str(Wire!Digits(d))), "digits") = [value |-> d]
           /\ [value |-> d] # None
<1>1. d \in Content /\ Len(d) \in Nat
  BY DEF Content
<1>2. Wire!Digits(d) \in Text
  BY <1>1 DEF Wire!Digits, Text
<1>3. [value |-> d] \in [value : Content \cup {None}]
  BY <1>1
<1> QED
  BY <1>2, <1>3, TextReads, NoneAssumption DEF Wire!Digits, Wire!Reads

\* The signature of a head, from either spelling of it.
LEMMA SignatureReads ==
    ASSUME NEW s \in SignatureRecord, NEW v,
           Has(v, "suite", Wire!Str(Wire!Word(s.suite))),
           Has(v, "key_id", Wire!Str(Wire!Word(s.key_id))),
           Has(v, "value", Wire!Str(Wire!Digits(Wire!HexEncode(s.value))))
    PROVE  Wire!SignatureFrom(v) = s /\ s # None
<1> DEFINE d == Wire!HexEncode(s.value)
<1>1. /\ s.suite \in FixedWord /\ s.key_id \in FixedWord /\ s.value \in Seq(Byte)
      /\ s = [suite |-> s.suite, key_id |-> s.key_id, value |-> s.value]
  BY DEF SignatureRecord
<1>2. d \in Seq(0..15) /\ Wire!HexDecode(d) = s.value /\ s.value # None
  BY <1>1, HexDecodes
<1> HIDE DEF d
<1>3. Wire!AsText(Wire!Get(v, "suite")) = Wire!Word(s.suite)
  BY <1>1, GetIs, WordReads
<1>4. Wire!AsText(Wire!Get(v, "key_id")) = Wire!Word(s.key_id)
  BY <1>1, GetIs, WordReads
<1>5. Wire!Reads(Wire!AsText(Wire!Get(v, "value")), "digits") = [value |-> d]
  BY <1>2, GetIs, DigitsRead DEF d
<1>6. ~Wire!Lacking(<<Wire!Word(s.suite), Wire!Word(s.key_id), [value |-> d]>>)
  BY <1>1, <1>2, WordReads, DigitsRead DEF Wire!Lacking
<1>7. Wire!Word(s.suite).of = s.suite /\ Wire!Word(s.key_id).of = s.key_id
  BY <1>1, WordReads
<1>8. [value |-> d].value = d
  OBVIOUS
<1>9. Wire!SignatureFrom(v) = [suite |-> s.suite, key_id |-> s.key_id, value |-> s.value]
  BY <1>2, <1>3, <1>4, <1>5, <1>6, <1>7, <1>8 DEF Wire!SignatureFrom
<1>10. s # None
  BY NoneAssumption
<1> QED
  BY <1>1, <1>9, <1>10

SthRecord ==
    [log_id : FixedWord, tree_size : Nat, timestamp : Nat, root : Hash,
     signature : SignatureRecord]

\* sth_from_json of an object with the fields of a head, among others.
LEMMA SthReads ==
    ASSUME NEW s \in SthRecord, NEW v, NEW signed,
           Has(v, "log_id", Wire!Str(Wire!Word(s.log_id))),
           Has(v, "tree_size", Wire!Num(s.tree_size)),
           Has(v, "timestamp", Wire!Str(Wire!TimeText(s.timestamp))),
           Has(v, "root", Wire!Str(Wire!HexText(s.root))),
           Has(v, "signature", signed), Wire!SignatureFrom(signed) = s.signature
    PROVE  Wire!SthFrom(v) = s
<1>1. /\ s.log_id \in FixedWord /\ s.tree_size \in Nat /\ s.timestamp \in Nat
      /\ s.root \in Hash /\ s.signature \in SignatureRecord
      /\ s = [log_id |-> s.log_id, tree_size |-> s.tree_size, timestamp |-> s.timestamp,
              root |-> s.root, signature |-> s.signature]
  BY DEF SthRecord
<1>2. /\ Wire!AsText(Wire!Get(v, "log_id")) = Wire!Word(s.log_id)
      /\ Wire!Word(s.log_id) # None /\ Wire!Word(s.log_id).of = s.log_id
  BY <1>1, GetIs, WordReads
<1>3. Wire!AsU64(Wire!Get(v, "tree_size")) = s.tree_size /\ s.tree_size # None
  BY <1>1, GetIs, NumReads
<1>4. /\ Wire!Reads(Wire!AsText(Wire!Get(v, "timestamp")), "time") = [value |-> s.timestamp]
      /\ [value |-> s.timestamp] # None
  BY <1>1, GetIs, TimeReads, TextReads
<1>5. /\ Wire!Reads(Wire!AsText(Wire!Get(v, "root")), "hex") = [value |-> s.root]
      /\ [value |-> s.root] # None
  BY <1>1, GetIs, HexReads, TextReads
<1>6. Wire!SignatureFrom(Wire!Get(v, "signature")) = s.signature /\ s.signature # None
  BY <1>1, GetIs, NoneAssumption
<1>7. ~Wire!Lacking(<<Wire!Word(s.log_id), s.tree_size, [value |-> s.timestamp],
                      [value |-> s.root], s.signature>>)
  BY <1>2, <1>3, <1>4, <1>5, <1>6 DEF Wire!Lacking
<1> QED
  BY <1>1, <1>2, <1>3, <1>4, <1>5, <1>6, <1>7 DEF Wire!SthFrom

\* What a receipt and GET /tree/head write of a head, sth_from_json reads.
LEMMA HeadReads ==
    ASSUME NEW s \in SthRecord, NEW shown, NEW operator
    PROVE  /\ Wire!SthFrom(Wire!SthView(s)) = s
           /\ Wire!SthFrom(Wire!HeadView(s, shown, operator)) = s
<1> DEFINE v == Wire!SthView(s)
           w == Wire!HeadView(s, shown, operator)
           sv == Wire!SignatureView(s.signature)
           sw == Wire!HeadSignatureView(s.signature)
<1>1. s.signature \in SignatureRecord /\ s.signature.value # None
  BY HexDecodes DEF SthRecord, SignatureRecord
<1>2. /\ Has(sv, "suite", Wire!Str(Wire!Word(s.signature.suite)))
      /\ Has(sv, "key_id", Wire!Str(Wire!Word(s.signature.key_id)))
      /\ Has(sv, "value", Wire!Str(Wire!Digits(Wire!HexEncode(s.signature.value))))
  BY <1>1 DEF Has, Wire!SignatureView, Wire!Obj
<1>3. /\ Has(sw, "suite", Wire!Str(Wire!Word(s.signature.suite)))
      /\ Has(sw, "key_id", Wire!Str(Wire!Word(s.signature.key_id)))
      /\ Has(sw, "value", Wire!Str(Wire!Digits(Wire!HexEncode(s.signature.value))))
  BY <1>1 DEF Has, Wire!HeadSignatureView, Wire!Obj
<1>4. Wire!SignatureFrom(sv) = s.signature /\ Wire!SignatureFrom(sw) = s.signature
  BY <1>1, <1>2, <1>3, SignatureReads
<1>5. /\ Has(v, "log_id", Wire!Str(Wire!Word(s.log_id)))
      /\ Has(v, "tree_size", Wire!Num(s.tree_size))
      /\ Has(v, "timestamp", Wire!Str(Wire!TimeText(s.timestamp)))
      /\ Has(v, "root", Wire!Str(Wire!HexText(s.root)))
      /\ Has(v, "signature", sv)
  BY DEF Has, Wire!SthView, Wire!Obj
<1>6. /\ Has(w, "log_id", Wire!Str(Wire!Word(s.log_id)))
      /\ Has(w, "tree_size", Wire!Num(s.tree_size))
      /\ Has(w, "timestamp", Wire!Str(Wire!TimeText(s.timestamp)))
      /\ Has(w, "root", Wire!Str(Wire!HexText(s.root)))
      /\ Has(w, "signature", sw)
  BY DEF Has, Wire!HeadView, Wire!Obj
<1> HIDE DEF v, w, sv, sw
<1>7. Wire!SthFrom(v) = s
  BY <1>4, <1>5, SthReads
<1>8. Wire!SthFrom(w) = s
  BY <1>4, <1>6, SthReads
<1> QED
  BY <1>7, <1>8 DEF v, w

Node == [sibling : Hash, side : {"left"}]
Inclusion == [leaf_index : Nat, tree_size : Nat, path : Seq(Node)]

\* A node of a path reads as itself.
LEMMA NodeReads ==
    ASSUME NEW n \in Node
    PROVE  Wire!NodeFrom(Wire!NodeView(n)) = n /\ n # None
<1> DEFINE v == Wire!NodeView(n)
<1>1. n.sibling \in Hash /\ n.side = "left" /\ n = [sibling |-> n.sibling, side |-> n.side]
  BY DEF Node
<1>2. n.side \in FixedWord
  BY <1>1 DEF FixedWord
<1>3. /\ Has(v, "sibling", Wire!Str(Wire!HexText(n.sibling)))
      /\ Has(v, "side", Wire!Str(Wire!Word(n.side)))
  BY DEF Has, Wire!NodeView, Wire!Obj
<1> HIDE DEF v
<1>4. /\ Wire!Reads(Wire!AsText(Wire!Get(v, "sibling")), "hex") = [value |-> n.sibling]
      /\ [value |-> n.sibling] # None
  BY <1>1, <1>3, GetIs, HexReads, TextReads
<1>5. /\ Wire!AsText(Wire!Get(v, "side")) = Wire!Word(n.side)
      /\ Wire!Word(n.side) # None /\ Wire!Word(n.side).of = n.side
  BY <1>2, <1>3, GetIs, WordReads
<1>6. Wire!NodeFrom(v) = n
  BY <1>1, <1>4, <1>5 DEF Wire!NodeFrom
<1>7. n # None
  <2>1. n \in [sibling : Hash, side : FixedWord]
    BY <1>1, <1>2
  <2> QED
    BY <2>1, NoneAssumption
<1> QED
  BY <1>6, <1>7 DEF v

\* proof_from_json of proof_json.
LEMMA ProofReads ==
    ASSUME NEW p \in Inclusion, NEW commitment
    PROVE  Wire!ProofFrom(Wire!ProofView(p, commitment)) = p
<1> DEFINE v == Wire!ProofView(p, commitment)
           n == Len(p.path)
           items == [i \in 1..n |-> Wire!NodeView(p.path[i])]
<1>1. /\ p.leaf_index \in Nat /\ p.tree_size \in Nat /\ p.path \in Seq(Node)
      /\ p = [leaf_index |-> p.leaf_index, tree_size |-> p.tree_size, path |-> p.path]
  BY DEF Inclusion
<1>2. n \in Nat /\ p.path = [i \in 1..n |-> p.path[i]] /\ \A i \in 1..n : p.path[i] \in Node
  BY <1>1
<1>3. /\ Has(v, "leaf_index", Wire!Num(p.leaf_index))
      /\ Has(v, "tree_size", Wire!Num(p.tree_size))
      /\ Has(v, "path", Wire!Arr(items))
  BY DEF Has, Wire!ProofView, Wire!Obj
<1> HIDE DEF v, n
<1>4. /\ Wire!AsU64(Wire!Get(v, "leaf_index")) = p.leaf_index /\ p.leaf_index # None
      /\ Wire!AsU64(Wire!Get(v, "tree_size")) = p.tree_size /\ p.tree_size # None
  BY <1>1, <1>3, GetIs, NumReads
<1>5. /\ Wire!Get(v, "path").json = "array"
      /\ Wire!Get(v, "path").items = items
  <2> HIDE DEF items
  <2>1. Wire!Get(v, "path") = Wire!Arr(items)
    BY <1>3, GetIs
  <2> QED
    BY <2>1 DEF Wire!Arr
<1>6. Len(items) = n
  BY <1>2
<1>7. \A i \in 1..n : Wire!NodeFrom(items[i]) = p.path[i] /\ p.path[i] # None
  BY <1>2, NodeReads
<1>8. [i \in 1..n |-> Wire!NodeFrom(items[i])] = p.path
  BY <1>2, <1>7
<1>9. ~Wire!Lacking(<<p.leaf_index, p.tree_size>>)
  BY <1>4 DEF Wire!Lacking
<1> HIDE DEF items
<1>10. Wire!ProofFrom(v) = p
  BY <1>1, <1>4, <1>5, <1>6, <1>7, <1>8, <1>9 DEF Wire!ProofFrom
<1> QED
  BY <1>10 DEF v

------------------------------------------------------------------------------
(* What the store derives.                                                   *)

\* The case is one of those that may happen.
CaseHolds ==
    \E c \in Cases : env = c.env /\ request = c.request /\ earlier = c.earlier /\ plan = c.plan

\* The signed heads of this case.
LEMMA SthIs ==
    ASSUME CaseHolds, NEW n \in Nat, NEW last \in Commitment \cup {None}
    PROVE  SthOver(n, last) \in SthRecord
<1>1. PICK c \in Cases : env = c.env
  BY DEF CaseHolds
<1>2. Operator.log_id \in FixedWord /\ Operator.suite \in FixedWord /\ Operator.key_id \in FixedWord
  <2> DEFINE Words(e) == {OperatorOf(ConfigOf(e)).log_id, OperatorOf(ConfigOf(e)).suite,
                          OperatorOf(ConfigOf(e)).key_id}
  <2>1. Words(c.env) \subseteq UNION {Words(d.env) : d \in Cases}
    OBVIOUS
  <2>2. Operator = OperatorOf(ConfigOf(c.env))
    BY <1>1 DEF Operator, config
  <2> QED
    BY <2>1, <2>2 DEF FixedWord
<1>3. [size |-> n, last |-> last] \in Hash
  BY DEF Hash
<1>4. [suite |-> Operator.suite, key_id |-> Operator.key_id, value |-> Signature] \in SignatureRecord
  BY <1>2, CasesAssumption DEF SignatureRecord
<1> HIDE DEF Operator
<1> QED
  BY <1>2, <1>3, <1>4 DEF SthOver, SthRecord, Now

\* The path of the last entry has a node for every one bit of its number.
LEMMA ReceiptIs ==
    ASSUME CaseHolds, NEW r \in CommitRecord
    PROVE  ReceiptOf(r).sth \in SthRecord /\ ReceiptOf(r).inclusion \in Inclusion
<1> DEFINE S == {z \in 0..r.seq : (r.seq \div 2^z) % 2 = 1}
           n == Cardinality(S)
           path == [i \in 1..n |-> [sibling |-> [size |-> i, last |-> None], side |-> "left"]]
<1>1. r.seq \in Nat /\ r.commitment \in Commitment
  BY DEF CommitRecord
<1>2. ReceiptOf(r).sth \in SthRecord
  BY <1>1, SthIs DEF ReceiptOf
<1>3. n \in Nat
  <2>1. IsFiniteSet(0..r.seq) /\ S \subseteq 0..r.seq
    BY <1>1, FS_Interval
  <2> QED
    BY <2>1, FS_Subset, FS_CardinalityType
<1>4. ReceiptOf(r).inclusion = [leaf_index |-> r.seq, tree_size |-> r.seq + 1, path |-> path]
  BY DEF ReceiptOf
<1> HIDE DEF n
<1>5. \A i \in 1..n : [sibling |-> [size |-> i, last |-> None], side |-> "left"] \in Node
  BY <1>3 DEF Node, Hash
<1>6. path \in Seq(Node)
  BY <1>3, <1>5
<1> HIDE DEF path
<1> QED
  BY <1>1, <1>2, <1>4, <1>6 DEF Inclusion

\* What a receipt shows of the record, the head and the path.
LEMMA ReceiptReads ==
    ASSUME CaseHolds, NEW r \in CommitRecord
    PROVE  LET body == Wire!ReceiptView(ReceiptOf(r), Published)
           IN  /\ Wire!SthFrom(body.fields["tree_head"]) = ReceiptOf(r).sth
               /\ Wire!ProofFrom(body.fields["inclusion"]) = ReceiptOf(r).inclusion
               /\ Wire!RecordFrom(body) = r
<1> DEFINE q == ReceiptOf(r)
           v == Wire!ReceiptView(q, Published)
<1>1. q.record = r /\ q.sth \in SthRecord /\ q.inclusion \in Inclusion
  BY ReceiptIs DEF ReceiptOf
<1> HIDE DEF q
<1>2. /\ v.fields["tree_head"] = Wire!SthView(q.sth)
      /\ v.fields["inclusion"] = Wire!ProofView(q.inclusion, q.record.commitment)
  BY DEF Wire!ReceiptView, Wire!Obj
<1>3. /\ Has(v, "seq", Wire!Num(r.seq))
      /\ Has(v, "logged_at", Wire!Str(Wire!TimeText(r.logged_at)))
      /\ Has(v, "subject", Wire!Str(r.subject))
      /\ Has(v, "commitment", Wire!Str(Wire!HexText(r.commitment)))
      /\ Has(v, "salt_ref", Wire!OptionalNum(r.salt_ref))
  BY <1>1 DEF Has, Wire!ReceiptView, Wire!Obj
<1> HIDE DEF v
<1>4. Wire!RecordFrom(v) = r
  BY <1>3, RecordReads
<1>5. Wire!SthFrom(v.fields["tree_head"]) = q.sth
  BY <1>1, <1>2, HeadReads
<1>6. Wire!ProofFrom(v.fields["inclusion"]) = q.inclusion
  BY <1>1, <1>2, ProofReads
<1> QED
  BY <1>4, <1>5, <1>6 DEF v, q

------------------------------------------------------------------------------
(* Which bodies are sequenced.                                               *)

\* A field that is not there is Missing, which is no value.
LEMMA FieldIs ==
    ASSUME NEW b, IsBody(b), NEW key
    PROVE  LET v == Wire!Get(b, key)
           IN  IF b.json = "object" /\ key \in DOMAIN b.fields
               THEN v = b.fields[key] /\ IsValue(v) ELSE v.json = "missing"
BY DEF IsBody, Wire!Get, Wire!Missing

\* req_str takes the texts that are not empty, without the whitespace around them.
LEMMA ReqStrIs ==
    ASSUME NEW b, IsBody(b), NEW key
    PROVE  LET v == Wire!Get(b, key)
               t == Wire!ReqStr(b, key)
           IN  /\ t # None <=> v.json = "string" /\ v.text.bytes > 0
               /\ t # None => /\ t \in RequestText /\ v.text \in RequestText
                              /\ t.bytes = v.text.bytes /\ t.kind = v.text.kind
                              /\ t.of = v.text.of /\ ~t.padded
<1> DEFINE v == Wire!Get(b, key)
<1>1. v.json = "string" => v.text \in RequestText
  BY FieldIs DEF IsValue
<1>2. RequestText \subseteq Text
  BY DEF RequestText, Text, Content, Hash
<1>3. ASSUME NEW t \in RequestText
      PROVE  LET u == Wire!Trimmed(t)
             IN  /\ u \in RequestText /\ u.bytes = t.bytes /\ u.kind = t.kind
                 /\ u.of = t.of /\ ~u.padded
  BY DEF Wire!Trimmed, RequestText
<1>4. \A t \in RequestText : t # None
  BY <1>2, NoneAssumption
<1> HIDE DEF v
<1>5. CASE v.json = "string"
  <2>1. Wire!AsText(v) = v.text /\ v.text # None
    BY <1>1, <1>4, <1>5 DEF Wire!AsText
  <2>2. Wire!ReqStr(b, key) = IF v.text.bytes > 0 THEN Wire!Trimmed(v.text) ELSE None
    BY <2>1 DEF Wire!ReqStr, v
  <2> QED
    BY <1>1, <1>3, <1>4, <1>5, <2>2 DEF v
<1>6. CASE v.json # "string"
  <2>1. Wire!ReqStr(b, key) = None
    BY <1>6 DEF Wire!ReqStr, Wire!AsText, v
  <2> QED
    BY <1>6, <2>1 DEF v
<1> QED
  BY <1>5, <1>6

\* req_commitment takes hashes in hex.
LEMMA ReqCommitmentIs ==
    ASSUME NEW b, IsBody(b)
    PROVE  LET v == Wire!Get(b, "commitment")
               h == Wire!ReqCommitment(b)
           IN  /\ h # None <=> v.json = "string" /\ v.text.kind = "hex"
               /\ h # None => h.value \in Commitment
<1> DEFINE v == Wire!Get(b, "commitment")
           t == Wire!ReqStr(b, "commitment")
<1>1. v.json = "string" => v.text \in RequestText
  BY FieldIs DEF IsValue
<1>2. /\ t # None <=> v.json = "string" /\ v.text.bytes > 0
      /\ t # None => t \in RequestText /\ t.kind = v.text.kind /\ ~t.padded
  BY ReqStrIs
<1>3. \A u \in RequestText : u.kind = "hex" => u.bytes = 64 /\ u.of \in Commitment
  BY DEF RequestText
<1>4. \A h \in Commitment : [value |-> h] # None
  BY HexReads DEF Hash
<1> HIDE DEF v, t
<1>5. Wire!ReqCommitment(b) = IF t # None /\ t.kind = "hex" THEN [value |-> t.of] ELSE None
  BY <1>2 DEF Wire!ReqCommitment, Wire!Reads, t
<1> QED
  BY <1>1, <1>2, <1>3, <1>4, <1>5 DEF v

\* opt_u64 takes nothing, null, and numbers that are u64s.
LEMMA OptU64Is ==
    ASSUME NEW b, IsBody(b), NEW key
    PROVE  LET v == Wire!Get(b, key)
               n == Wire!OptU64(b, key)
           IN  /\ n # None <=> \/ v.json \in {"missing", "null"}
                               \/ v.json = "number" /\ v.n >= 0
               /\ n # None => n.value \in Nat \cup {None}
<1> DEFINE v == Wire!Get(b, key)
<1>1. v.json = "number" => v.n \in Nat \cup {-1}
  BY FieldIs DEF IsValue, Wire!NotU64
<1>2. ASSUME NEW n \in Nat \cup {None} PROVE [value |-> n] # None
  <2>1. [value |-> n] \in [value : Content \cup {None}]
    BY DEF Content
  <2> QED
    BY <2>1, NoneAssumption
<1> HIDE DEF v
<1>3. CASE v.json \in {"missing", "null"}
  BY <1>2, <1>3 DEF Wire!OptU64, v
<1>4. CASE v.json = "number" /\ v.n \in Nat
  <2>1. Wire!AsU64(v) = v.n /\ v.n # None
    BY <1>4, NoneAssumption DEF Wire!AsU64, Wire!NotU64
  <2>2. Wire!OptU64(b, key) = [value |-> v.n]
    BY <1>4, <2>1 DEF Wire!OptU64, v
  <2> QED
    BY <1>2, <1>4, <2>2 DEF v
<1>5. CASE v.json \notin {"missing", "null"} /\ ~(v.json = "number" /\ v.n \in Nat)
  <2>1. Wire!AsU64(v) = None
    BY <1>1, <1>5 DEF Wire!AsU64, Wire!NotU64
  <2>2. Wire!OptU64(b, key) = None
    BY <1>5, <2>1 DEF Wire!OptU64, v
  <2> QED
    BY <1>1, <1>5, <2>2 DEF v
<1> QED
  BY <1>3, <1>4, <1>5

\* commit sequences the well-formed bodies, and no others.
LEMMA PostIs ==
    ASSUME NEW b, IsBody(b)
    PROVE  LET p == Wire!PostOf(b)
           IN  /\ p # None <=> WellFormed(b)
               /\ p # None => /\ p.subject \in Text /\ p.commitment \in Commitment
                              /\ p.salt_ref \in Nat \cup {None}
<1> DEFINE s == Wire!Get(b, "subject")
           h == Wire!Get(b, "commitment")
           n == Wire!Get(b, "salt_ref")
           subject == Wire!ReqStr(b, "subject")
           commitment == Wire!ReqCommitment(b)
           salt_ref == Wire!OptU64(b, "salt_ref")
           p == [subject |-> subject, commitment |-> commitment.value, salt_ref |-> salt_ref.value]
           Refused == subject = None \/ subject.bytes > 512 \/ commitment = None \/ salt_ref = None
<1>1. /\ subject # None <=> s.json = "string" /\ s.text.bytes > 0
      /\ subject # None => subject \in RequestText /\ subject.bytes = s.text.bytes
  BY ReqStrIs
<1>2. /\ commitment # None <=> h.json = "string" /\ h.text.kind = "hex"
      /\ commitment # None => commitment.value \in Commitment
  BY ReqCommitmentIs
<1>3. /\ salt_ref # None <=> n.json \in {"missing", "null"} \/ (n.json = "number" /\ n.n >= 0)
      /\ salt_ref # None => salt_ref.value \in Nat \cup {None}
  BY OptU64Is
<1>4. /\ IF b.json = "object" /\ "subject" \in DOMAIN b.fields
         THEN s = b.fields["subject"] /\ IsValue(s) ELSE s.json = "missing"
      /\ IF b.json = "object" /\ "commitment" \in DOMAIN b.fields
         THEN h = b.fields["commitment"] /\ IsValue(h) ELSE h.json = "missing"
      /\ IF b.json = "object" /\ "salt_ref" \in DOMAIN b.fields
         THEN n = b.fields["salt_ref"] /\ IsValue(n) ELSE n.json = "missing"
  BY FieldIs
<1>5. \A t \in RequestText : t \in Text /\ t.bytes \in Nat
  BY DEF RequestText, Text, Content, Hash
<1>6. Wire!PostOf(b) = IF Refused THEN None ELSE p
  BY DEF Wire!PostOf
<1> HIDE DEF s, h, n, subject, commitment, salt_ref
<1>7. ~Refused => p \in [subject : Text, commitment : Commitment, salt_ref : Nat \cup {None}]
  BY <1>1, <1>2, <1>3, <1>5
<1>8. ~Refused => p # None
  BY <1>7, NoneAssumption
<1>9. s.json = "string" => s.text.bytes \in Nat
  BY <1>4, <1>5 DEF IsValue
<1>10. ~Refused <=> /\ s.json = "string" /\ s.text.bytes \in 1..512
                    /\ h.json = "string" /\ h.text.kind = "hex"
                    /\ n.json \in {"missing", "null"} \/ (n.json = "number" /\ n.n >= 0)
  <2>1. s.json = "string" =>
            (s.text.bytes \in 1..512 <=> s.text.bytes > 0 /\ ~(s.text.bytes > 512))
    <3> DEFINE limit == 512
    <3>1. limit \in Nat
      OBVIOUS
    <3> HIDE DEF limit
    <3>2. s.json = "string" =>
              (s.text.bytes \in 1..limit <=> s.text.bytes > 0 /\ ~(s.text.bytes > limit))
      BY <1>9, <3>1
    <3> QED
      BY <3>2, Zenon DEF limit
  <2>2. ~Refused <=> /\ subject # None /\ ~(subject.bytes > 512)
                     /\ commitment # None /\ salt_ref # None
    OBVIOUS
  <2>3. (subject # None /\ ~(subject.bytes > 512))
            <=> (s.json = "string" /\ s.text.bytes \in 1..512)
    BY <1>1, <2>1
  <2> HIDE DEF Refused
  <2> QED
    BY <1>2, <1>3, <2>2, <2>3
<1>11. ~Refused <=> WellFormed(b)
  <2> DEFINE given(key) == b.json = "object" /\ key \in DOMAIN b.fields
  <2>1. s.json = "string" => given("subject")
    BY <1>4
  <2>2. h.json = "string" => given("commitment")
    BY <1>4
  <2>3. given("subject") => s = b.fields["subject"]
    BY <1>4
  <2>4. given("commitment") => h = b.fields["commitment"]
    BY <1>4
  <2>5. given("salt_ref") => n = b.fields["salt_ref"] /\ n.json # "missing"
    BY <1>4 DEF IsValue
  <2>6. ~given("salt_ref") => n.json = "missing"
    BY <1>4
  <2> DEFINE short(v) == v.text.bytes \in 1..512
  <2>7. ~Refused <=> /\ s.json = "string" /\ short(s)
                     /\ h.json = "string" /\ h.text.kind = "hex"
                     /\ n.json \in {"missing", "null"} \/ (n.json = "number" /\ n.n >= 0)
    BY <1>10, Zenon
  <2>8. WellFormed(b) <=>
            /\ given("subject") /\ given("commitment")
            /\ b.fields["subject"].json = "string" /\ short(b.fields["subject"])
            /\ b.fields["commitment"].json = "string" /\ b.fields["commitment"].text.kind = "hex"
            /\ given("salt_ref") =>
                  \/ b.fields["salt_ref"].json = "null"
                  \/ b.fields["salt_ref"].json = "number" /\ b.fields["salt_ref"].n >= 0
    BY Zenon DEF WellFormed
  <2> HIDE DEF Refused, short, given
  <2> QED
    BY <2>1, <2>2, <2>3, <2>4, <2>5, <2>6, <2>7, <2>8
<1> QED
  BY <1>6, <1>7, <1>8, <1>11

------------------------------------------------------------------------------
(* The authority's bytes.                                                    *)

\* Sequences that follow one another.
LEMMA ConcatIs ==
    ASSUME NEW S, NEW s \in Seq(S), NEW t \in Seq(S)
    PROVE  /\ s \o t \in Seq(S) /\ Len(s \o t) = Len(s) + Len(t)
           /\ \A i \in 1..Len(s) : (s \o t)[i] = s[i]
           /\ \A i \in 1..Len(t) : (s \o t)[Len(s) + i] = t[i]
OBVIOUS

\* A function on the first n numbers is a sequence.
LEMMA SequenceIs ==
    ASSUME NEW S, NEW n \in Nat, NEW f \in [1..n -> S]
    PROVE  f \in Seq(S) /\ Len(f) = n
OBVIOUS

\* The token, and what the outer SEQUENCE holds: a status, and the token.
TokenOf(p) == <<2, 1, 1, 4, 32>> \o p.digest \o [i \in 1..p.filler |-> 65]
ContentOf(p) ==
    <<48, 3, 2, 1, 0>> \o <<48>> \o Tsa!LengthBytes(Len(TokenOf(p)), 2) \o TokenOf(p)
ResponseOf(p) == Tsa!TimeStampResp(p.digest, p.filler, p.form)

\* A length takes one byte, or one more than its form says.
LEMMA LengthBytesAre ==
    ASSUME NEW n \in Nat, NEW form \in 0..4, form = 0 => n < 128
    PROVE  /\ Tsa!LengthBytes(n, form) \in Seq(Byte)
           /\ Len(Tsa!LengthBytes(n, form)) = 1 + form
<1> DEFINE s == [i \in 1..form |-> (n \div 256^(form - i)) % 256]
           b == <<128 + form>>
<1>1. CASE form = 0
  <2>1. Tsa!LengthBytes(n, form) = <<n>> /\ n \in Byte
    BY <1>1 DEF Tsa!LengthBytes, Byte
  <2>2. <<n>> \in Seq(Byte) /\ Len(<<n>>) = 1
    BY <2>1
  <2>3. 1 + form = 1
    BY <1>1
  <2> QED
    BY <2>1, <2>2, <2>3
<1>2. CASE form # 0
  <2>1. \A d \in {1, 256, 256^2, 256^3} : (n \div d) % 256 \in Byte
    BY DEF Byte
  <2>2. ASSUME NEW i \in 1..form PROVE 256^(form - i) \in {1, 256, 256^2, 256^3}
    <3>1. 256^0 = 1 /\ 256^1 = 256
      OBVIOUS
    <3> DEFINE d == form - i
               B == 256
    <3>2. d = 0 \/ d = 1 \/ d = 2 \/ d = 3
      OBVIOUS
    <3>3. B^0 = 1 /\ B^1 = B
      BY ONLY <3>1
    <3> HIDE DEF s, b, d, B
    <3>4. B^d \in {1, B, B^2, B^3}
      BY ONLY <3>2, <3>3, Zenon
    <3> QED
      BY ONLY <3>4 DEF d, B
  <2>3. s \in Seq(Byte) /\ Len(s) = form
    BY <2>1, <2>2
  <2>4. b \in Seq(Byte)
    BY DEF Byte
  <2>5. Len(b) = 1
    OBVIOUS
  <2>6. Tsa!LengthBytes(n, form) = b \o s
    BY <1>2 DEF Tsa!LengthBytes
  <2> HIDE DEF s, b
  <2>7. b \o s \in Seq(Byte) /\ Len(b \o s) = Len(b) + Len(s)
    BY <2>3, <2>4, ConcatIs
  <2> QED
    BY <2>3, <2>5, <2>6, <2>7
<1> QED
  BY <1>1, <1>2

\* The token is five bytes, the digest, and the filler.
LEMMA TokenIs ==
    ASSUME NEW p, IsPlan(p)
    PROVE  /\ TokenOf(p) \in Seq(Byte) /\ Len(TokenOf(p)) = 37 + p.filler
           /\ TokenOf(p)[4] = 4 /\ TokenOf(p)[5] = 32
           /\ \A i \in 1..32 : TokenOf(p)[5 + i] = p.digest[i]
<1> DEFINE a == <<2, 1, 1, 4, 32>>
           n == p.filler
           z == [i \in 1..n |-> 65]
           d == p.digest
           e == a \o d
<1>1. a \in Seq(Byte)
  BY DEF Byte
<1>2. Len(a) = 5 /\ a[4] = 4 /\ a[5] = 32
  OBVIOUS
<1>3. n \in Nat /\ d \in [1..32 -> Byte]
  BY DEF IsPlan
<1>4. TokenOf(p) = e \o z
  BY DEF TokenOf
<1> HIDE DEF a, n, d
<1>5. z \in Seq(Byte) /\ Len(z) = n
  <2>1. z \in [1..n -> Byte]
    BY DEF Byte
  <2> QED
    BY <1>3, <2>1, SequenceIs
<1>6. d \in Seq(Byte) /\ Len(d) = 32
  BY <1>3, SequenceIs
<1>7. /\ e \in Seq(Byte) /\ Len(e) = Len(a) + Len(d)
      /\ \A i \in 1..Len(a) : e[i] = a[i]
      /\ \A i \in 1..Len(d) : e[Len(a) + i] = d[i]
  <2>1. d \in Seq(Byte)
    BY <1>6
  <2> QED
    BY <1>1, <2>1, ConcatIs
<1> HIDE DEF z, e
<1>8. /\ Len(e) = 37 /\ e[4] = 4 /\ e[5] = 32
      /\ \A i \in 1..32 : e[5 + i] = d[i]
  BY <1>2, <1>6, <1>7
<1>9. /\ e \o z \in Seq(Byte) /\ Len(e \o z) = Len(e) + Len(z)
      /\ \A i \in 1..Len(e) : (e \o z)[i] = e[i]
  <2>1. e \in Seq(Byte) /\ z \in Seq(Byte)
    BY <1>5, <1>7
  <2> QED
    BY <2>1, ConcatIs
<1> DEFINE f == e \o z
<1> HIDE DEF f
<1>10. Len(f) = 37 + n /\ \A i \in 1..37 : f[i] = e[i]
  BY <1>3, <1>5, <1>8, <1>9 DEF f
<1>11. f[4] = 4 /\ f[5] = 32
  BY <1>8, <1>10
<1>12. ASSUME NEW i \in 1..32 PROVE f[5 + i] = d[i]
  <2>1. 5 + i \in 1..37
    OBVIOUS
  <2> QED
    BY <1>8, <1>10, <2>1
<1> QED
  BY <1>4, <1>9, <1>10, <1>11, <1>12 DEF f, d, n

\* A status and the token are nine bytes more.
LEMMA ContentIs ==
    ASSUME NEW p, IsPlan(p)
    PROVE  /\ ContentOf(p) \in Seq(Byte) /\ Len(ContentOf(p)) = 46 + p.filler
           /\ ContentOf(p)[1] = 48 /\ ContentOf(p)[2] = 3
           /\ \A i \in 1..(37 + p.filler) : ContentOf(p)[9 + i] = TokenOf(p)[i]
<1> DEFINE a == <<48, 3, 2, 1, 0>>
           b == <<48>>
           t == TokenOf(p)
           l == Tsa!LengthBytes(Len(t), 2)
           n == p.filler
           e == a \o b
           f == e \o l
           g == f \o t
<1>1. a \in Seq(Byte) /\ b \in Seq(Byte)
  BY DEF Byte
<1>2. Len(a) = 5 /\ a[1] = 48 /\ a[2] = 3 /\ Len(b) = 1
  OBVIOUS
<1>3. n \in Nat
  BY DEF IsPlan
<1>4. t \in Seq(Byte) /\ Len(t) = 37 + n
  BY TokenIs
<1> HIDE DEF t, n
<1>5. l \in Seq(Byte) /\ Len(l) = 3
  <2>1. Len(t) \in Nat /\ 2 \in 0..4
    BY <1>3, <1>4
  <2>2. l \in Seq(Byte) /\ Len(l) = 1 + 2
    BY <2>1, LengthBytesAre
  <2> QED
    BY <2>2
<1>6. ContentOf(p) = g
  BY DEF ContentOf, t
<1> HIDE DEF a, b, l
<1>7. e \in Seq(Byte) /\ Len(e) = Len(a) + Len(b) /\ \A i \in 1..Len(a) : e[i] = a[i]
  BY <1>1, ConcatIs
<1> HIDE DEF e
<1>8. Len(e) = 6 /\ e[1] = 48 /\ e[2] = 3
  BY <1>2, <1>7
<1>9. f \in Seq(Byte) /\ Len(f) = Len(e) + Len(l) /\ \A i \in 1..Len(e) : f[i] = e[i]
  <2>1. e \in Seq(Byte) /\ l \in Seq(Byte)
    BY <1>5, <1>7
  <2> QED
    BY <2>1, ConcatIs
<1> HIDE DEF f
<1>10. Len(f) = 9 /\ f[1] = 48 /\ f[2] = 3
  BY <1>5, <1>8, <1>9
<1>11. /\ g \in Seq(Byte) /\ Len(g) = Len(f) + Len(t)
       /\ \A i \in 1..Len(f) : g[i] = f[i]
       /\ \A i \in 1..Len(t) : g[Len(f) + i] = t[i]
  <2>1. f \in Seq(Byte) /\ t \in Seq(Byte)
    BY <1>4, <1>9
  <2> QED
    BY <2>1, ConcatIs
<1> HIDE DEF g
<1>12. Len(g) = 46 + n /\ g[1] = 48 /\ g[2] = 3
  BY <1>3, <1>4, <1>10, <1>11
<1>13. \A i \in 1..(37 + n) : g[9 + i] = t[i]
  BY <1>4, <1>10, <1>11
<1> QED
  BY <1>6, <1>11, <1>12, <1>13 DEF t, n

\* A response is its tag, the bytes of its length, and its content.
LEMMA ResponseIs ==
    ASSUME NEW p, IsPlan(p)
    PROVE  LET s == ResponseOf(p)
               l == Tsa!LengthBytes(46 + p.filler, p.form)
           IN  /\ s \in Seq(Byte) /\ Len(s) = 48 + p.filler + p.form
               /\ s[1] = 48
               /\ \A i \in 1..(1 + p.form) : s[1 + i] = l[i]
               /\ \A i \in 1..(46 + p.filler) : s[2 + p.form + i] = ContentOf(p)[i]
<1> DEFINE b == <<48>>
           n == 46 + p.filler
           k == p.form
           l == Tsa!LengthBytes(n, k)
           c == ContentOf(p)
           e == b \o l
           f == e \o c
<1>1. p.filler \in Nat /\ n \in Nat /\ k \in 0..4 /\ (k = 0 => n < 128)
  BY DEF IsPlan
<1>2. b \in Seq(Byte)
  BY DEF Byte
<1>3. Len(b) = 1 /\ b[1] = 48
  OBVIOUS
<1>4. c \in Seq(Byte) /\ Len(c) = n
  BY ContentIs
<1>5. ResponseOf(p) = f
  BY <1>4 DEF ResponseOf, Tsa!TimeStampResp, ContentOf, TokenOf
<1> HIDE DEF b, n, k, c
<1>6. l \in Seq(Byte) /\ Len(l) = 1 + k
  BY <1>1, LengthBytesAre
<1> HIDE DEF l
<1>7. /\ e \in Seq(Byte) /\ Len(e) = Len(b) + Len(l)
      /\ \A i \in 1..Len(b) : e[i] = b[i]
      /\ \A i \in 1..Len(l) : e[Len(b) + i] = l[i]
  <2>1. l \in Seq(Byte)
    BY <1>6
  <2> QED
    BY <1>2, <2>1, ConcatIs
<1> HIDE DEF e
<1>8. /\ Len(e) = 2 + k /\ e[1] = 48
      /\ \A i \in 1..(1 + k) : e[1 + i] = l[i]
  BY <1>1, <1>3, <1>6, <1>7
<1>9. /\ f \in Seq(Byte) /\ Len(f) = Len(e) + Len(c)
      /\ \A i \in 1..Len(e) : f[i] = e[i]
      /\ \A i \in 1..Len(c) : f[Len(e) + i] = c[i]
  <2>1. e \in Seq(Byte) /\ c \in Seq(Byte)
    BY <1>4, <1>7
  <2> QED
    BY <2>1, ConcatIs
<1> HIDE DEF f
<1>10. Len(f) = (2 + k) + n /\ \A i \in 1..(2 + k) : f[i] = e[i]
  BY <1>4, <1>8, <1>9
<1>11. \A i \in 1..n : f[2 + k + i] = c[i]
  BY <1>4, <1>8, <1>9
<1>12. f[1] = 48 /\ \A i \in 1..(1 + k) : f[1 + i] = l[i]
  BY <1>1, <1>8, <1>10
<1>13. Len(f) = 48 + p.filler + k
  BY <1>1, <1>10 DEF n
<1> QED
  BY <1>5, <1>9, <1>11, <1>12, <1>13 DEF f, l, n, k, c

\* What a stream is made of.
Item == Byte \cup {Headers, Eol} \cup {Tsa!ChunkSize(n) : n \in Nat}

\* A part of a sequence.
LEMMA PartIs ==
    ASSUME NEW S, NEW s \in Seq(S), NEW i \in Nat \ {0}, NEW j \in Nat, i <= j + 1, j <= Len(s)
    PROVE  /\ SubSeq(s, i, j) \in Seq(S) /\ Len(SubSeq(s, i, j)) = j + 1 - i
           /\ \A k \in 1..(j + 1 - i) : SubSeq(s, i, j)[k] = s[i + k - 1]
OBVIOUS

\* The part behind an offset.
LEMMA PartBehind ==
    ASSUME NEW S, NEW s \in Seq(S), NEW o \in Nat, NEW n \in Nat, o + n <= Len(s)
    PROVE  /\ SubSeq(s, o + 1, o + n) \in Seq(S) /\ Len(SubSeq(s, o + 1, o + n)) = n
           /\ \A i \in 1..n : SubSeq(s, o + 1, o + n)[i] = s[o + i]
<1> DEFINE a == o + 1
           b == o + n
<1>1. a \in Nat \ {0} /\ b \in Nat /\ a <= b + 1 /\ b <= Len(s) /\ b + 1 - a = n
  OBVIOUS
<1>2. \A i \in 1..n : a + i - 1 = o + i
  OBVIOUS
<1> HIDE DEF a, b
<1>3. /\ SubSeq(s, a, b) \in Seq(S) /\ Len(SubSeq(s, a, b)) = b + 1 - a
      /\ \A k \in 1..(b + 1 - a) : SubSeq(s, a, b)[k] = s[a + k - 1]
  BY <1>1, PartIs
<1>4. /\ SubSeq(s, a, b) \in Seq(S) /\ Len(SubSeq(s, a, b)) = n
      /\ \A i \in 1..n : SubSeq(s, a, b)[i] = s[o + i]
  BY <1>1, <1>2, <1>3
<1> QED
  BY <1>4 DEF a, b

\* A body that is not chunked follows the headers.
LEMMA PlainStreamIs ==
    ASSUME NEW body \in Seq(Byte), NEW framing, framing # "chunked", NEW first
    PROVE  LET s == Tsa!StreamOf(body, framing, first)
           IN  /\ s \in Seq(Item) /\ Len(s) = 1 + Len(body)
               /\ \A i \in 1..Len(body) : s[1 + i] = body[i]
<1> DEFINE h == <<Headers>>
           s == h \o body
<1>1. h \in Seq(Item) /\ body \in Seq(Item)
  BY DEF Item
<1>2. Len(h) = 1
  OBVIOUS
<1>3. Tsa!StreamOf(body, framing, first) = s
  BY DEF Tsa!StreamOf
<1> HIDE DEF h
<1>4. /\ s \in Seq(Item) /\ Len(s) = Len(h) + Len(body)
      /\ \A i \in 1..Len(body) : s[Len(h) + i] = body[i]
  BY <1>1, ConcatIs
<1> HIDE DEF s
<1> QED
  BY <1>2, <1>3, <1>4

\* A chunked one is cut in two, each part after its size and before its end.
LEMMA ChunkedStreamIs ==
    ASSUME NEW body \in Seq(Byte), NEW first \in 1..Len(body)
    PROVE  LET s == Tsa!StreamOf(body, "chunked", first)
               n == Len(body)
           IN  /\ s \in Seq(Item) /\ Len(s) = 6 + n
               /\ s[2] = Tsa!ChunkSize(first)
               /\ \A i \in 1..first : s[2 + i] = body[i]
               /\ s[3 + first] = Eol /\ s[4 + first] = Tsa!ChunkSize(n - first)
               /\ \A i \in (first + 1)..n : s[4 + i] = body[i]
               /\ s[5 + n] = Eol /\ s[6 + n] = Tsa!ChunkSize(0)
<1> DEFINE n == Len(body)
           a == <<Headers, Tsa!ChunkSize(first)>>
           b == SubSeq(body, 1, first)
           c == <<Eol, Tsa!ChunkSize(n - first)>>
           d == SubSeq(body, first + 1, n)
           e == <<Eol, Tsa!ChunkSize(0)>>
           ab == a \o b
           abc == ab \o c
           abcd == abc \o d
           s == abcd \o e
<1>1. n \in Nat /\ first \in Nat /\ 1 <= first /\ first <= n
  OBVIOUS
<1>2. Tsa!StreamOf(body, "chunked", first) = s
  BY DEF Tsa!StreamOf
<1>3. /\ Tsa!ChunkSize(first) \in Item /\ Tsa!ChunkSize(n - first) \in Item
      /\ Tsa!ChunkSize(0) \in Item /\ Headers \in Item /\ Eol \in Item
  BY <1>1 DEF Item
<1> HIDE DEF n
<1>4. a \in Seq(Item) /\ c \in Seq(Item) /\ e \in Seq(Item)
  BY <1>3
<1>5. Len(a) = 2 /\ Len(c) = 2 /\ Len(e) = 2
  OBVIOUS
<1>6. a[2] = Tsa!ChunkSize(first) /\ c[1] = Eol /\ c[2] = Tsa!ChunkSize(n - first)
      /\ e[1] = Eol /\ e[2] = Tsa!ChunkSize(0)
  OBVIOUS
<1>7. b \in Seq(Byte) /\ Len(b) = first /\ \A i \in 1..first : b[i] = body[i]
  BY <1>1, PartIs DEF n
<1>8. d \in Seq(Byte) /\ Len(d) = n - first /\ \A i \in 1..(n - first) : d[i] = body[first + i]
  BY <1>1, PartIs DEF n
<1> HIDE DEF a, b, c, d, e
<1>9. b \in Seq(Item) /\ d \in Seq(Item)
  <2>1. Byte \subseteq Item
    BY DEF Item
  <2> QED
    BY <1>7, <1>8, <2>1
<1>10. /\ ab \in Seq(Item) /\ Len(ab) = Len(a) + Len(b)
       /\ \A i \in 1..Len(a) : ab[i] = a[i]
       /\ \A i \in 1..Len(b) : ab[Len(a) + i] = b[i]
  BY <1>4, <1>9, ConcatIs
<1> HIDE DEF ab
<1>11. /\ Len(ab) = 2 + first /\ ab[2] = Tsa!ChunkSize(first)
       /\ \A i \in 1..first : ab[2 + i] = body[i]
  <2>1. Len(ab) = 2 + first /\ ab[2] = a[2] /\ \A i \in 1..first : ab[2 + i] = b[i]
    BY <1>5, <1>7, <1>10
  <2> QED
    BY <1>6, <1>7, <2>1
<1>12. /\ abc \in Seq(Item) /\ Len(abc) = Len(ab) + Len(c)
       /\ \A i \in 1..Len(ab) : abc[i] = ab[i]
       /\ \A i \in 1..Len(c) : abc[Len(ab) + i] = c[i]
  <2>1. ab \in Seq(Item) /\ c \in Seq(Item)
    BY <1>4, <1>10
  <2> QED
    BY <2>1, ConcatIs
<1> HIDE DEF abc
<1>13. Len(abc) = 4 + first
  BY <1>1, <1>5, <1>11, <1>12
<1>14. abc[2] = Tsa!ChunkSize(first) /\ \A i \in 1..first : abc[2 + i] = body[i]
  <2>1. 2 \in 1..(2 + first) /\ \A i \in 1..first : 2 + i \in 1..(2 + first)
    BY <1>1
  <2>2. \A i \in 1..(2 + first) : abc[i] = ab[i]
    BY <1>11, <1>12
  <2> QED
    BY <1>11, <2>1, <2>2
<1>15. abc[3 + first] = Eol /\ abc[4 + first] = Tsa!ChunkSize(n - first)
  <2>1. abc[2 + first + 1] = c[1] /\ abc[2 + first + 2] = c[2]
    BY <1>5, <1>11, <1>12
  <2>2. 2 + first + 1 = 3 + first /\ 2 + first + 2 = 4 + first
    BY <1>1
  <2> QED
    BY <1>6, <2>1, <2>2
<1>16. /\ abcd \in Seq(Item) /\ Len(abcd) = Len(abc) + Len(d)
       /\ \A i \in 1..Len(abc) : abcd[i] = abc[i]
       /\ \A i \in 1..Len(d) : abcd[Len(abc) + i] = d[i]
  <2>1. abc \in Seq(Item) /\ d \in Seq(Item)
    BY <1>9, <1>12
  <2> QED
    BY <2>1, ConcatIs
<1> HIDE DEF abcd
<1>17. Len(abcd) = 4 + n
  BY <1>1, <1>8, <1>13, <1>16
<1>18. /\ abcd[2] = Tsa!ChunkSize(first) /\ \A i \in 1..first : abcd[2 + i] = body[i]
       /\ abcd[3 + first] = Eol /\ abcd[4 + first] = Tsa!ChunkSize(n - first)
  <2>1. /\ 2 \in 1..(4 + first) /\ \A i \in 1..first : 2 + i \in 1..(4 + first)
        /\ 3 + first \in 1..(4 + first) /\ 4 + first \in 1..(4 + first)
    BY <1>1
  <2>2. \A i \in 1..(4 + first) : abcd[i] = abc[i]
    BY <1>13, <1>16
  <2> QED
    BY <1>14, <1>15, <2>1, <2>2
<1>19. ASSUME NEW i \in (first + 1)..n PROVE abcd[4 + i] = body[i]
  <2>1. i - first \in 1..(n - first) /\ 4 + first + (i - first) = 4 + i /\ first + (i - first) = i
    BY <1>1
  <2>2. abcd[4 + first + (i - first)] = d[i - first]
    BY <1>8, <1>13, <1>16, <2>1
  <2>3. d[i - first] = body[first + (i - first)]
    BY <1>8, <2>1
  <2> QED
    BY <2>1, <2>2, <2>3
<1>20. /\ s \in Seq(Item) /\ Len(s) = Len(abcd) + Len(e)
       /\ \A i \in 1..Len(abcd) : s[i] = abcd[i]
       /\ \A i \in 1..Len(e) : s[Len(abcd) + i] = e[i]
  <2>1. abcd \in Seq(Item) /\ e \in Seq(Item)
    BY <1>4, <1>16
  <2> QED
    BY <2>1, ConcatIs
<1> HIDE DEF s
<1>21. Len(s) = 6 + n
  BY <1>1, <1>5, <1>17, <1>20
<1>22. /\ s[2] = Tsa!ChunkSize(first) /\ \A i \in 1..first : s[2 + i] = body[i]
       /\ s[3 + first] = Eol /\ s[4 + first] = Tsa!ChunkSize(n - first)
  <2>1. /\ 2 \in 1..(4 + n) /\ \A i \in 1..first : 2 + i \in 1..(4 + n)
        /\ 3 + first \in 1..(4 + n) /\ 4 + first \in 1..(4 + n)
    BY <1>1
  <2>2. \A i \in 1..(4 + n) : s[i] = abcd[i]
    BY <1>17, <1>20
  <2> QED
    BY <1>18, <2>1, <2>2
<1>23. ASSUME NEW i \in (first + 1)..n PROVE s[4 + i] = body[i]
  <2>1. 4 + i \in 1..(4 + n)
    BY <1>1
  <2>2. s[4 + i] = abcd[4 + i]
    BY <1>17, <1>20, <2>1
  <2> QED
    BY <1>19, <2>2
<1>24. s[5 + n] = Eol /\ s[6 + n] = Tsa!ChunkSize(0)
  <2>1. s[4 + n + 1] = e[1] /\ s[4 + n + 2] = e[2]
    BY <1>5, <1>17, <1>20
  <2>2. 4 + n + 1 = 5 + n /\ 4 + n + 2 = 6 + n
    BY <1>1
  <2> QED
    BY <1>6, <2>1, <2>2
<1> QED
  BY <1>2, <1>20, <1>21, <1>22, <1>23, <1>24 DEF n

------------------------------------------------------------------------------
(* What submit_anchor makes of them.                                         *)

Itself(k) == k

\* The equation that defines the number that big-endian bytes are.
BigDef(bytes, q, f, n) == IF n = 0 THEN 0 ELSE 256 * f[n - 1] + bytes[n]
Big == INSTANCE Recursion WITH Domain <- Nat, Measure <- Itself, Def <- BigDef
Value(bytes) == CHOOSE f : f = [n \in Nat |-> BigDef(bytes, 0, f, n)]

\* The number of up to four bytes.
LEMMA BigEndianIs ==
    ASSUME NEW bytes
    PROVE  /\ Tsa!BigEndian(bytes) = Value(bytes)[Len(bytes)]
           /\ Value(bytes)[0] = 0
           /\ \A n \in Nat \ {0} : Value(bytes)[n] = 256 * Value(bytes)[n - 1] + bytes[n]
<1>1. Big!Descends(bytes, 0)
  BY DEF Big!Descends, BigDef, Itself
<1>2. \A n \in Nat : Value(bytes)[n] = BigDef(bytes, 0, Value(bytes), n)
  BY <1>1, Big!DefinedByEquation DEF Value
<1>3. Tsa!BigEndian(bytes) = Value(bytes)[Len(bytes)]
  BY DEF Tsa!BigEndian, Value, BigDef
<1> QED
  BY <1>2, <1>3 DEF BigDef

\* These are the bytes of n that follow the first one of its length.
Spells(bytes, n, form) ==
    /\ Len(bytes) = form
    /\ \A i \in 1..form : bytes[i] = Tsa!LengthBytes(n, form)[1 + i]

\* The bytes of a length are the number again.
LEMMA LengthReads ==
    ASSUME NEW n \in Nat, NEW form \in 1..4, n < (IF form = 1 THEN 256 ELSE 65536),
           NEW bytes, Spells(bytes, n, form)
    PROVE  Tsa!BigEndian(bytes) = n
<1> DEFINE s == [i \in 1..form |-> (n \div 256^(form - i)) % 256]
           b == <<128 + form>>
<1>1. ASSUME NEW i \in 1..form PROVE bytes[i] = (n \div 256^(form - i)) % 256
  <2>1. Tsa!LengthBytes(n, form) = b \o s
    BY DEF Tsa!LengthBytes
  <2>2. Len(b) = 1 /\ b \in Seq(Int) /\ Len(s) = form
    OBVIOUS
  <2>3. s[i] = (n \div 256^(form - i)) % 256
    OBVIOUS
  <2>4. (b \o s)[1 + i] = s[i]
    BY <2>2
  <2> QED
    BY <2>1, <2>3, <2>4 DEF Spells
<1>2. 256^0 = 1 /\ 256^1 = 256 /\ 256^2 = 65536 /\ 256^3 = 16777216
  OBVIOUS
<1> DEFINE V == Value(bytes)
<1>3. /\ Tsa!BigEndian(bytes) = V[form]
      /\ V[0] = 0
      /\ \A m \in Nat \ {0} : V[m] = 256 * V[m - 1] + bytes[m]
  <2>1. Len(bytes) = form
    BY DEF Spells
  <2> QED
    BY ONLY <2>1, BigEndianIs
<1> HIDE DEF V
<1>4. /\ V[1] = 256 * V[0] + bytes[1] /\ V[2] = 256 * V[1] + bytes[2]
      /\ V[3] = 256 * V[2] + bytes[3] /\ V[4] = 256 * V[3] + bytes[4]
  BY <1>3
<1>5. CASE form = 1
  <2>1. bytes[1] = n % 256
    BY <1>1, <1>2, <1>5
  <2>2. n % 256 = n
    BY <1>5
  <2>3. V[1] = n
    BY <1>3, <1>4, <2>1, <2>2
  <2> QED
    BY <1>3, <1>5, <2>3
<1>6. CASE form # 1
  <2> DEFINE a == (n \div 256) % 256
             c == n % 256
  <2>1. n < 65536 /\ form \in {2, 3, 4}
    BY <1>6
  <2>2. 256 * a + c = n /\ a \in Nat /\ c \in Nat
    BY <2>1
  <2>3. (n \div 65536) % 256 = 0 /\ (n \div 16777216) % 256 = 0
    BY <2>1
  <2>4. CASE form = 2
    <3>1. bytes[1] = a /\ bytes[2] = c
      BY <1>1, <1>2, <2>4
    <3> HIDE DEF a, c
    <3>2. V[1] = a
      BY <1>3, <1>4, <2>2, <3>1
    <3>3. V[2] = 256 * a + c
      BY <1>4, <2>2, <3>1, <3>2
    <3> QED
      BY <1>3, <2>2, <2>4, <3>3
  <2>5. CASE form = 3
    <3>1. bytes[1] = 0 /\ bytes[2] = a /\ bytes[3] = c
      BY <1>1, <1>2, <2>3, <2>5
    <3> HIDE DEF a, c
    <3>2. V[1] = 0
      BY <1>3, <1>4, <3>1
    <3>3. V[2] = a
      BY <1>4, <2>2, <3>1, <3>2
    <3>4. V[3] = 256 * a + c
      BY <1>4, <2>2, <3>1, <3>3
    <3> QED
      BY <1>3, <2>2, <2>5, <3>4
  <2>6. CASE form = 4
    <3>1. bytes[1] = 0 /\ bytes[2] = 0 /\ bytes[3] = a /\ bytes[4] = c
      BY <1>1, <1>2, <2>3, <2>6
    <3> HIDE DEF a, c
    <3>2. V[1] = 0
      BY <1>3, <1>4, <3>1
    <3>3. V[2] = 0
      BY <1>4, <3>1, <3>2
    <3>4. V[3] = a
      BY <1>4, <2>2, <3>1, <3>3
    <3>5. V[4] = 256 * a + c
      BY <1>4, <2>2, <3>1, <3>4
    <3> QED
      BY <1>3, <2>2, <2>6, <3>5
  <2> QED
    BY <2>1, <2>4, <2>5, <2>6
<1> QED
  BY <1>5, <1>6

\* The numbers of a plan.
LEMMA PlanIs ==
    ASSUME NEW p, IsPlan(p)
    PROVE  /\ p.filler \in Nat /\ 46 + p.filler \in Nat /\ p.form \in 0..4
           /\ 46 + p.filler < (IF p.form = 0 THEN 128 ELSE IF p.form = 1 THEN 256 ELSE 65536)
BY DEF IsPlan

\* The header of a response says how long it is, also where it is cut behind it.
LEMMA HeaderReads ==
    ASSUME NEW p, IsPlan(p), NEW k \in Nat, k <= Len(ResponseOf(p)), k >= 2
    PROVE  LET s     == SubSeq(ResponseOf(p), 1, k)
               extra == IF s[2] < 128 THEN 0 ELSE s[2] - 128
           IN  /\ Len(s) = k /\ s[1] = 48 /\ s[2] # 128 /\ extra = p.form
               /\ k >= 2 + p.form =>
                     46 + p.filler = (IF extra = 0 THEN s[2]
                                      ELSE Tsa!BigEndian(SubSeq(s, 3, 2 + extra)))
<1> DEFINE r == ResponseOf(p)
           s == SubSeq(r, 1, k)
           n == 46 + p.filler
           form == p.form
           l == Tsa!LengthBytes(n, form)
           extra == IF s[2] < 128 THEN 0 ELSE s[2] - 128
<1>1. /\ p.filler \in Nat /\ n \in Nat /\ form \in 0..4
      /\ n < (IF form = 0 THEN 128 ELSE IF form = 1 THEN 256 ELSE 65536)
  BY PlanIs
<1>2. /\ r \in Seq(Byte) /\ Len(r) = 2 + form + n
      /\ r[1] = 48 /\ \A i \in 1..(1 + form) : r[1 + i] = l[i]
  <2>1. 48 + p.filler + form = 2 + form + n
    <3>1. \A x, y \in Nat : 48 + x + y = 2 + y + (46 + x)
      OBVIOUS
    <3>2. form \in Nat
      BY <1>1
    <3> QED
      BY ONLY <1>1, <3>1, <3>2
  <2> HIDE DEF r, n, form
  <2> QED
    BY <2>1, ResponseIs DEF r, n, form
<1> HIDE DEF r
<1>3. s \in Seq(Byte) /\ Len(s) = k /\ \A i \in 1..k : s[i] = r[i]
  BY <1>2, PartIs DEF r
<1> HIDE DEF s, n, form
<1>4. l[1] = (IF form = 0 THEN n ELSE 128 + form)
  <2>1. CASE form = 0
    BY <2>1 DEF Tsa!LengthBytes
  <2>2. CASE form # 0
    <3> DEFINE b == <<128 + form>>
               t == [i \in 1..form |-> (n \div 256^(form - i)) % 256]
    <3>1. Len(b) = 1 /\ b \in Seq(Nat) /\ Len(t) = form /\ b[1] = 128 + form
      BY <1>1
    <3>2. (b \o t)[1] = b[1]
      BY <3>1
    <3> QED
      BY <2>2, <3>1, <3>2 DEF Tsa!LengthBytes
  <2> QED
    BY <2>1, <2>2
<1> HIDE DEF l
<1>5. s[1] = 48 /\ s[2] = l[1]
  <2>1. s[1] = r[1] /\ s[2] = r[2]
    BY <1>3
  <2>2. 1 \in 1..(1 + form) /\ 1 + 1 = 2
    BY <1>1
  <2> QED
    BY <1>2, <2>1, <2>2
<1>6. s[2] # 128 /\ extra = form /\ (form = 0 => s[2] = n)
  BY <1>1, <1>4, <1>5
<1>7. ASSUME k >= 2 + form, form # 0
      PROVE  Tsa!BigEndian(SubSeq(s, 3, 2 + form)) = n
  <2> DEFINE bytes == SubSeq(s, 3, 2 + form)
  <2>1. Len(bytes) = form /\ \A i \in 1..form : bytes[i] = s[2 + i]
    BY <1>1, <1>3, <1>7, PartIs
  <2>2. \A i \in 1..form : s[2 + i] = l[1 + i]
    BY <1>1, <1>2, <1>3, <1>7
  <2>3. form \in 1..4 /\ n < (IF form = 1 THEN 256 ELSE 65536)
    BY <1>1, <1>7
  <2> HIDE DEF bytes
  <2>4. Spells(bytes, n, form)
    BY <2>1, <2>2 DEF l, Spells
  <2>5. Tsa!BigEndian(bytes) = n
    <3>1. n \in Nat
      BY <1>1
    <3> QED
      BY <3>1, <2>3, <2>4, LengthReads
  <2> QED
    BY <2>5 DEF bytes
<1> HIDE DEF extra
<1>8. k >= 2 + form =>
          n = (IF extra = 0 THEN s[2] ELSE Tsa!BigEndian(SubSeq(s, 3, 2 + extra)))
  BY <1>6, <1>7
<1> QED
  BY <1>3, <1>5, <1>6, <1>8 DEF s, r, n, form, extra

\* A record of der_tlv is not its None.
LEMMA TlvIs ==
    ASSUME NEW tag \in Byte, NEW value \in Seq(Byte), NEW raw_len \in Nat
    PROVE  [tag |-> tag, value |-> value, raw_len |-> raw_len] # None
BY NoneAssumption

\* A response that is cut anywhere is none; a whole one is, and so is its status.
LEMMA ResponseReads ==
    ASSUME NEW p, IsPlan(p), NEW k \in 0..Len(ResponseOf(p))
    PROVE  LET top == Tsa!DerTlv(SubSeq(ResponseOf(p), 1, k))
           IN  IF k < Len(ResponseOf(p)) THEN top = None
               ELSE Tsa!IsSequence(top) /\ Tsa!IsSequence(Tsa!DerTlv(top.value))
<1> DEFINE r == ResponseOf(p)
           s == SubSeq(r, 1, k)
           n == 46 + p.filler
           form == p.form
           extra == IF s[2] < 128 THEN 0 ELSE s[2] - 128
           content == IF extra = 0 THEN s[2] ELSE Tsa!BigEndian(SubSeq(s, 3, 2 + extra))
           top == Tsa!DerTlv(s)
<1>1. p.filler \in Nat /\ n \in Nat /\ form \in 0..4
  BY PlanIs
<1>2. /\ r \in Seq(Byte) /\ Len(r) = 2 + form + n /\ r[1] = 48
      /\ \A i \in 1..n : r[2 + form + i] = ContentOf(p)[i]
  <2>1. 48 + p.filler + form = 2 + form + n
    <3>1. \A x, y \in Nat : 48 + x + y = 2 + y + (46 + x)
      OBVIOUS
    <3>2. form \in Nat
      BY <1>1
    <3> QED
      BY ONLY <1>1, <3>1, <3>2
  <2> HIDE DEF r, n, form
  <2> QED
    BY <2>1, ResponseIs DEF r, n, form
<1>3. k \in Nat /\ k <= Len(r)
  BY <1>1, <1>2
<1>4. s \in Seq(Byte) /\ Len(s) = k /\ \A i \in 1..k : s[i] = r[i]
  BY <1>2, <1>3, PartIs
<1>5. ASSUME k >= 2
      PROVE  /\ s[1] = 48 /\ s[2] # 128 /\ extra = form
             /\ k >= 2 + form => content = n
  <2> HIDE DEF r, n, form
  <2> QED
    BY <1>3, <1>5, HeaderReads DEF r, n, form
<1>6. top = IF Len(s) < 2 \/ extra \notin 0..4 THEN None
            ELSE IF s[2] = 128 \/ Len(s) < 2 + extra \/ Len(s) < 2 + extra + content THEN None
            ELSE [tag |-> s[1], value |-> SubSeq(s, 2 + extra + 1, 2 + extra + content),
                  raw_len |-> 2 + extra + content]
  BY DEF Tsa!DerTlv
<1> HIDE DEF r, s, n, form, extra, content
<1>7. CASE k < Len(r)
  <2>1. top = None
    BY <1>1, <1>2, <1>3, <1>4, <1>5, <1>6, <1>7
  <2> QED
    BY <1>7, <2>1 DEF r, s
<1>8. CASE k = Len(r)
  <2> DEFINE value == SubSeq(s, 3 + form, 2 + form + n)
  <2>1. s[1] = 48 /\ s[2] # 128 /\ extra = form /\ content = n
    BY <1>1, <1>2, <1>5, <1>8
  <2>2. top = [tag |-> s[1], value |-> SubSeq(s, 2 + form + 1, 2 + form + n),
               raw_len |-> 2 + form + n]
    BY <1>1, <1>2, <1>4, <1>6, <1>8, <2>1
  <2>3. 2 + form + 1 = 3 + form
    BY <1>1
  <2>4. top = [tag |-> 48, value |-> value, raw_len |-> 2 + form + n]
    BY <2>1, <2>2, <2>3
  <2>5. /\ value \in Seq(Byte) /\ Len(value) = n
        /\ \A i \in 1..n : value[i] = s[2 + form + i]
    <3>1. 3 + form \in Nat \ {0} /\ 2 + form + n \in Nat /\ 3 + form <= 2 + form + n + 1
          /\ 2 + form + n <= Len(s) /\ 2 + form + n + 1 - (3 + form) = n
      BY <1>1, <1>2, <1>4, <1>8
    <3>2. /\ value \in Seq(Byte) /\ Len(value) = n
          /\ \A i \in 1..n : value[i] = s[3 + form + i - 1]
      <4> DEFINE a == 3 + form
                 b == 2 + form + n
      <4>1. s \in Seq(Byte) /\ value = SubSeq(s, a, b)
        BY <1>4
      <4> HIDE DEF value, a, b
      <4>2. a \in Nat \ {0} /\ b \in Nat /\ a <= b + 1 /\ b <= Len(s) /\ b + 1 - a = n
        BY ONLY <3>1 DEF a, b
      <4>3. /\ value \in Seq(Byte) /\ Len(value) = n
            /\ \A i \in 1..n : value[i] = s[a + i - 1]
        BY ONLY <4>1, <4>2, PartIs
      <4> QED
        BY ONLY <4>3 DEF a
    <3>3. \A i \in 1..n : 3 + form + i - 1 = 2 + form + i
      BY <1>1
    <3> HIDE DEF value
    <3> QED
      BY ONLY <3>2, <3>3
  <2> HIDE DEF value
  <2>6. value[1] = 48 /\ value[2] = 3
    <3>1. 1 \in 1..n /\ 2 \in 1..n
      BY <1>1 DEF n
    <3>2. \A i \in 1..n : value[i] = ContentOf(p)[i]
      BY <1>1, <1>2, <1>4, <1>8, <2>5
    <3> QED
      BY <3>1, <3>2, ContentIs
  <2>7. Tsa!IsSequence(top)
    <3>1. top # None
      <4>1. 48 \in Byte /\ 2 + form + n \in Nat
        BY <1>1 DEF Byte
      <4> QED
        BY <2>4, <2>5, <4>1, TlvIs
    <3> QED
      BY <2>4, <3>1 DEF Tsa!IsSequence
  <2>8. Tsa!IsSequence(Tsa!DerTlv(value))
    <3>1. Tsa!DerTlv(value) = [tag |-> 48, value |-> SubSeq(value, 3, 5), raw_len |-> 5]
      <4>1. n >= 46
        BY <1>1 DEF n
      <4> QED
        BY <2>5, <2>6, <4>1 DEF Tsa!DerTlv
    <3>2. SubSeq(value, 3, 5) \in Seq(Byte) /\ 48 \in Byte
      <4>1. 5 <= Len(value)
        BY <1>1, <2>5 DEF n
      <4> QED
        BY <2>5, <4>1, PartIs DEF Byte
    <3>3. Tsa!DerTlv(value) # None
      BY <3>1, <3>2, TlvIs
    <3> QED
      BY <3>1, <3>3 DEF Tsa!IsSequence
  <2>9. top.value = value
    BY <2>4
  <2> QED
    BY <1>8, <2>7, <2>8, <2>9 DEF r, s
<1> QED
  BY <1>3, <1>7, <1>8 DEF r

\* An octet string of 32 bytes starts with its tag and its length.
LEMMA OctetsAre ==
    ASSUME NEW d \in [1..32 -> Byte]
    PROVE  LET s == <<4, 32>> \o d
           IN  /\ s \in Seq(Byte) /\ Len(s) = 34
               /\ s[1] = 4 /\ s[2] = 32 /\ \A i \in 1..32 : s[2 + i] = d[i]
<1> DEFINE a == <<4, 32>>
           s == a \o d
<1>1. a \in Seq(Byte)
  BY DEF Byte
<1>2. Len(a) = 2 /\ a[1] = 4 /\ a[2] = 32
  OBVIOUS
<1>3. d \in Seq(Byte)
  BY SequenceIs
<1>4. Len(d) = 32
  BY SequenceIs
<1> HIDE DEF a
<1>5. /\ s \in Seq(Byte) /\ Len(s) = Len(a) + Len(d)
      /\ \A i \in 1..Len(a) : s[i] = a[i]
      /\ \A i \in 1..Len(d) : s[Len(a) + i] = d[i]
  BY ONLY <1>1, <1>3, ConcatIs
<1> HIDE DEF s
<1>6. Len(s) = 34 /\ s[1] = a[1] /\ s[2] = a[2] /\ \A i \in 1..32 : s[2 + i] = d[i]
  BY <1>2, <1>4, <1>5
<1>7. s \in Seq(Byte) /\ Len(s) = 34 /\ s[1] = 4 /\ s[2] = 32 /\ \A i \in 1..32 : s[2 + i] = d[i]
  BY <1>2, <1>5, <1>6
<1> QED
  BY <1>7 DEF s, a

\* Behind offset o of r are the tag, the length, and the bytes of d.
OctetsAt(r, d, o) ==
    r[o + 1] = 4 /\ r[o + 2] = 32 /\ \A i \in 1..32 : r[o + (2 + i)] = d[i]

\* What is behind the tag and the length.
LEMMA BehindTwo ==
    ASSUME NEW m \in Nat, NEW i \in 1..(2 + m)
    PROVE  i = 1 \/ i = 2 \/ \E j \in 1..m : i = 2 + j
<1>1. i > 2 => i - 2 \in 1..m /\ i = 2 + (i - 2)
  OBVIOUS
<1>2. i = 1 \/ i = 2 \/ i > 2
  OBVIOUS
<1> QED
  BY <1>1, <1>2

\* What is found at an offset is carried.
LEMMA CarriedAt ==
    ASSUME NEW r \in Seq(Byte), NEW d \in [1..32 -> Byte], NEW o \in Nat, o + 34 <= Len(r),
           OctetsAt(r, d, o)
    PROVE  Tsa!Carries(r, d)
<1> DEFINE part == SubSeq(r, o + 1, o + 34)
           want == <<4, 32>> \o d
<1>1. part \in Seq(Byte) /\ Len(part) = 34 /\ \A i \in 1..34 : part[i] = r[o + i]
  <2>1. r \in Seq(Byte) /\ o \in Nat /\ 34 \in Nat /\ o + 34 <= Len(r)
    OBVIOUS
  <2> QED
    BY ONLY <2>1, PartBehind DEF part
<1>2. want \in Seq(Byte) /\ Len(want) = 34
      /\ want[1] = 4 /\ want[2] = 32 /\ \A i \in 1..32 : want[2 + i] = d[i]
  BY OctetsAre
<1>3. o \in 0..(Len(r) - 34)
  OBVIOUS
<1> HIDE DEF part, want
<1>4. ASSUME NEW i \in 1..34 PROVE part[i] = want[i]
  <2>1. part[i] = r[o + i]
    BY <1>1
  <2>2. CASE i = 1
    <3>1. r[o + 1] = 4
      BY DEF OctetsAt
    <3> QED
      BY <1>2, <2>1, <2>2, <3>1
  <2>3. CASE i = 2
    <3>1. r[o + 2] = 32
      BY DEF OctetsAt
    <3> QED
      BY <1>2, <2>1, <2>3, <3>1
  <2>4. CASE \E j \in 1..32 : i = 2 + j
    <3>1. PICK j \in 1..32 : i = 2 + j
      BY <2>4
    <3>2. r[o + (2 + j)] = d[j]
      BY DEF OctetsAt
    <3>3. want[2 + j] = d[j]
      BY <1>2
    <3> QED
      BY <2>1, <3>1, <3>2, <3>3
  <2>5. i = 1 \/ i = 2 \/ \E j \in 1..32 : i = 2 + j
    <3>1. 32 \in Nat /\ i \in 1..(2 + 32)
      OBVIOUS
    <3> QED
      BY ONLY <3>1, BehindTwo
  <2> QED
    BY <2>2, <2>3, <2>4, <2>5
<1>5. part = want
  <2>1. part = [i \in 1..34 |-> part[i]]
    BY <1>1
  <2>2. want = [i \in 1..34 |-> want[i]]
    BY <1>2
  <2>3. [i \in 1..34 |-> part[i]] = [i \in 1..34 |-> want[i]]
    <3>1. \A i \in 1..34 : part[i] = want[i]
      BY <1>4
    <3> QED
      BY ONLY <3>1
  <2> QED
    BY ONLY <2>1, <2>2, <2>3, Zenon
<1> QED
  BY <1>3, <1>5 DEF part, want, Tsa!Carries

\* A whole response carries the digest that it was made for.
LEMMA ResponseCarries ==
    ASSUME NEW p, IsPlan(p)
    PROVE  Tsa!Carries(ResponseOf(p), Digest) <=> p.digest = Digest
<1> DEFINE r == ResponseOf(p)
           n == p.filler
           k == p.form
           d == p.digest
           o == 14 + k
<1>1. n \in Nat /\ k \in 0..4 /\ o \in Nat
  BY PlanIs
<1>2. d \in [1..32 -> Byte] /\ (d # Digest => ~Tsa!Carries(ResponseOf(p), Digest))
  BY DEF IsPlan, ResponseOf
<1>3. /\ r \in Seq(Byte) /\ Len(r) = 48 + n + k
      /\ \A i \in 1..(46 + n) : r[2 + k + i] = ContentOf(p)[i]
  BY ResponseIs
<1>4. \A i \in 1..(37 + n) : ContentOf(p)[9 + i] = TokenOf(p)[i]
  BY ContentIs
<1>5. TokenOf(p)[4] = 4 /\ TokenOf(p)[5] = 32 /\ \A i \in 1..32 : TokenOf(p)[5 + i] = d[i]
  BY TokenIs
<1> HIDE DEF r, n, k, d
<1>6. ASSUME NEW i \in 1..34 PROVE r[o + i] = TokenOf(p)[3 + i]
  <2>1. 3 + i \in 1..(37 + n) /\ 9 + (3 + i) \in 1..(46 + n)
        /\ 2 + k + (9 + (3 + i)) = o + i
    BY <1>1
  <2> QED
    BY <1>3, <1>4, <2>1
<1> HIDE DEF o
<1>7. r[o + 1] = 4 /\ r[o + 2] = 32
  <2>1. r[o + 1] = TokenOf(p)[3 + 1] /\ r[o + 2] = TokenOf(p)[3 + 2]
    BY <1>6
  <2>2. 3 + 1 = 4 /\ 3 + 2 = 5
    OBVIOUS
  <2> QED
    BY <1>5, <2>1, <2>2
<1>8. ASSUME NEW i \in 1..32 PROVE r[o + (2 + i)] = d[i]
  <2>1. 2 + i \in 1..34 /\ 3 + (2 + i) = 5 + i
    OBVIOUS
  <2> QED
    BY <1>5, <1>6, <2>1
<1>9. o + 34 <= Len(r)
  BY <1>1, <1>3 DEF o
<1>10. OctetsAt(r, d, o)
  BY <1>7, <1>8 DEF OctetsAt
<1>11. Tsa!Carries(r, d)
  BY <1>1, <1>2, <1>3, <1>9, <1>10, CarriedAt
<1> QED
  BY <1>2, <1>11 DEF r, d

\* Of a response and of what is left of it where it is cut, the whole one is taken
\* for the digest that was submitted, if it is for that.
LEMMA Verifies ==
    ASSUME NEW p, IsPlan(p), NEW k \in 0..Len(ResponseOf(p))
    PROVE  Tsa!VerifyTimestampResponse(SubSeq(ResponseOf(p), 1, k), Digest)
               <=> k = Len(ResponseOf(p)) /\ p.digest = Digest
<1> DEFINE r == ResponseOf(p)
           s == SubSeq(r, 1, k)
           top == Tsa!DerTlv(s)
<1>1. r \in Seq(Byte) /\ Len(r) \in Nat
  BY ResponseIs
<1>2. /\ k < Len(r) => top = None
      /\ k = Len(r) => Tsa!IsSequence(top) /\ Tsa!IsSequence(Tsa!DerTlv(top.value))
  BY ResponseReads
<1>3. k = Len(r) => s = r
  BY <1>1
<1>4. Tsa!Carries(r, Digest) <=> p.digest = Digest
  BY ResponseCarries
<1>5. Tsa!VerifyTimestampResponse(s, Digest)
          <=> Tsa!IsSequence(top) /\ Tsa!IsSequence(Tsa!DerTlv(top.value)) /\ Tsa!Carries(s, Digest)
  BY DEF Tsa!VerifyTimestampResponse
<1>6. top = None => ~Tsa!IsSequence(top)
  BY DEF Tsa!IsSequence
<1> HIDE DEF r, s, top
<1>7. k \in 0..Len(r)
  BY DEF r
<1>8. k < Len(r) \/ k = Len(r)
  BY <1>1, <1>7
<1>9. ~(k < Len(r) /\ k = Len(r))
  BY <1>1, <1>7
<1>10. Tsa!VerifyTimestampResponse(s, Digest) <=> k = Len(r) /\ p.digest = Digest
  BY <1>2, <1>3, <1>4, <1>5, <1>6, <1>8, <1>9
<1> QED
  BY <1>10 DEF r, s

\* The equation that defines what the last `left' items of chunks give.
JoinDef(rest, q, f, left) ==
    LET at   == Len(rest) - left
        item == rest[at + 1]
        end  == at + 1 + item.chunk
        next == IF end < Len(rest) /\ rest[end + 1] = Eol THEN end + 1 ELSE end
        more == f[Len(rest) - next]
    IN  IF left = 0 THEN <<>>
        ELSE IF item \notin [chunk : Nat] THEN None
        ELSE IF item.chunk = 0 THEN <<>>
        ELSE IF end > Len(rest) \/ more = None THEN None
        ELSE SubSeq(rest, at + 2, end) \o more
Join == INSTANCE Recursion WITH Domain <- Nat, Measure <- Itself, Def <- JoinDef
Joined(rest) == CHOOSE f : f = [left \in Nat |-> JoinDef(rest, 0, f, left)]

\* Chunks are joined as the definition says.
LEMMA JoinedIs ==
    ASSUME NEW rest \in Seq(Item)
    PROVE  /\ Tsa!Dechunk(rest) = Joined(rest)[Len(rest)]
           /\ \A left \in Nat : Joined(rest)[left] = JoinDef(rest, 0, Joined(rest), left)
<1>1. ASSUME NEW left \in Nat, NEW f, NEW g,
             \A y \in Nat : y < left => f[y] = g[y]
      PROVE  JoinDef(rest, 0, f, left) = JoinDef(rest, 0, g, left)
  <2> DEFINE n == Len(rest)
             at == n - left
             item == rest[at + 1]
             end == at + 1 + item.chunk
             next == IF end < n /\ rest[end + 1] = Eol THEN end + 1 ELSE end
  <2>1. n \in Nat
    OBVIOUS
  <2>2. item \in [chunk : Nat] => item.chunk \in Nat
    OBVIOUS
  <2> DEFINE Then(more) == IF more = None THEN None ELSE SubSeq(rest, at + 2, end) \o more
             With(h) == IF left = 0 THEN <<>>
                        ELSE IF item \notin [chunk : Nat] THEN None
                        ELSE IF item.chunk = 0 THEN <<>>
                        ELSE IF end > n THEN None
                        ELSE Then(h[n - next])
  <2>3. JoinDef(rest, 0, f, left) = With(f) /\ JoinDef(rest, 0, g, left) = With(g)
    BY DEF JoinDef
  <2> HIDE DEF item
  <2>4. ASSUME item \in [chunk : Nat], item.chunk # 0, end <= n
        PROVE  f[n - next] = g[n - next]
    <3>1. at \in Int /\ end \in Int /\ end > at
      BY <2>1, <2>2, <2>4
    <3> HIDE DEF at, end
    <3>2. next \in {end, end + 1} /\ next <= n
      BY <2>1, <2>4, <3>1
    <3> HIDE DEF next
    <3>3. n - next \in Nat /\ n - next < left
      BY <2>1, <3>1, <3>2 DEF at
    <3> HIDE DEF n
    <3> QED
      BY <1>1, <3>3
  <2>5. item \in [chunk : Nat] => (end <= n <=> ~(end > n))
    BY <2>1, <2>2
  <2> HIDE DEF end, next, Then, n
  <2>6. With(f) = With(g)
    BY <2>4, <2>5
  <2> QED
    BY <2>3, <2>6
<1>2. Join!Descends(rest, 0)
  BY <1>1 DEF Join!Descends, Itself
<1>3. \A left \in Nat : Joined(rest)[left] = JoinDef(rest, 0, Joined(rest), left)
  BY <1>2, Join!DefinedByEquation DEF Joined
<1>4. Tsa!Dechunk(rest) = Joined(rest)[Len(rest)]
  BY DEF Tsa!Dechunk, Joined, JoinDef
<1> QED
  BY <1>3, <1>4

\* What the items behind the first `at' give, and where the items behind a chunk
\* that ends with item `end' start.
From(rest, at)   == Joined(rest)[Len(rest) - at]
After(rest, end) == IF end < Len(rest) /\ rest[end + 1] = Eol THEN end + 1 ELSE end

\* All of the items, and none.
LEMMA EndsAre ==
    ASSUME NEW rest \in Seq(Item)
    PROVE  Tsa!Dechunk(rest) = From(rest, 0) /\ From(rest, Len(rest)) = <<>>
<1> DEFINE n == Len(rest)
           J == Joined(rest)
<1>1. n \in Nat
  OBVIOUS
<1>2. Tsa!Dechunk(rest) = J[n] /\ J[0] = JoinDef(rest, 0, J, 0)
  BY JoinedIs
<1>3. JoinDef(rest, 0, J, 0) = <<>>
  BY DEF JoinDef
<1>4. From(rest, 0) = J[n - 0] /\ From(rest, n) = J[n - n]
  BY DEF From
<1> HIDE DEF n, J
<1>5. n - 0 = n /\ n - n = 0
  BY <1>1
<1>6. Tsa!Dechunk(rest) = From(rest, 0) /\ From(rest, n) = <<>>
  BY <1>2, <1>3, <1>4, <1>5
<1> QED
  BY <1>6 DEF n

\* A chunk of so many bytes starts behind the first `at' items, and ends with `end'.
ChunkAt(rest, at, many, end) ==
    at < Len(rest) /\ rest[at + 1] = Tsa!ChunkSize(many) /\ end = at + 1 + many

\* What it and the items behind it give.
ChunkGives(rest, at, many, end) ==
    IF many = 0 THEN <<>>
    ELSE IF end > Len(rest) \/ From(rest, After(rest, end)) = None THEN None
    ELSE SubSeq(rest, at + 2, end) \o From(rest, After(rest, end))

\* Its bytes come before what follows it.
LEMMA ChunkIs ==
    ASSUME NEW rest \in Seq(Item), NEW at \in Nat, NEW many \in Nat, NEW end,
           ChunkAt(rest, at, many, end)
    PROVE  From(rest, at) = ChunkGives(rest, at, many, end)
<1> DEFINE n == Len(rest)
           J == Joined(rest)
           left == n - at
<1>1. n \in Nat /\ left \in Nat /\ left # 0 /\ n - left = at
  <2>1. n \in Nat /\ at < n
    BY DEF ChunkAt
  <2> HIDE DEF n
  <2> QED
    BY <2>1
<1>2. J[left] = JoinDef(rest, 0, J, left)
  BY <1>1, JoinedIs
<1>3. Tsa!ChunkSize(many) \in [chunk : Nat] /\ Tsa!ChunkSize(many).chunk = many
  BY DEF Tsa!ChunkSize
<1>4. /\ Len(rest) = n /\ From(rest, at) = J[left]
      /\ From(rest, After(rest, end)) = J[n - After(rest, end)]
  BY DEF From
<1> HIDE DEF J, left, n
<1> QED
  BY <1>1, <1>2, <1>3, <1>4 DEF JoinDef, After, ChunkAt, ChunkGives

\* Two sequences of one length with the same elements are one.
LEMMA SameSequence ==
    ASSUME NEW S, NEW s \in Seq(S), NEW t \in Seq(S), Len(s) = Len(t),
           \A i \in 1..Len(s) : s[i] = t[i]
    PROVE  s = t
OBVIOUS

\* Two sequences agree on n elements, behind the first i and j.
Agree(s, i, t, j, n) == \A k \in 1..n : s[i + k] = t[j + k]

\* Where two sequences agree, their parts do.
LEMMA SamePart ==
    ASSUME NEW S, NEW s \in Seq(S), NEW T, NEW t \in Seq(T), NEW i \in Nat, NEW j \in Nat,
           NEW n \in Nat, i + n <= Len(s), j + n <= Len(t),
           Agree(s, i, t, j, n)
    PROVE  SubSeq(s, i + 1, i + n) = SubSeq(t, j + 1, j + n)
<1> DEFINE a == SubSeq(s, i + 1, i + n)
           b == SubSeq(t, j + 1, j + n)
<1>1. a = [k \in 1..n |-> s[i + k]]
  OBVIOUS
<1>2. b = [k \in 1..n |-> t[j + k]]
  OBVIOUS
<1>3. [k \in 1..n |-> s[i + k]] = [k \in 1..n |-> t[j + k]]
  BY DEF Agree
<1> HIDE DEF a, b
<1>4. a = b
  BY <1>1, <1>2, <1>3
<1> QED
  BY <1>4 DEF a, b

\* The two parts of a sequence are the whole of it, and nothing added is nothing new.
LEMMA PartsJoin ==
    ASSUME NEW S, NEW s \in Seq(S), NEW k \in 0..Len(s)
    PROVE  /\ SubSeq(s, 1, k) \o SubSeq(s, k + 1, Len(s)) = s
           /\ SubSeq(s, 1, k) \o <<>> = SubSeq(s, 1, k)
           /\ SubSeq(s, 1, 0) = <<>> /\ SubSeq(s, 1, Len(s)) = s
<1> DEFINE n == Len(s)
           a == SubSeq(s, 1, k)
           b == SubSeq(s, k + 1, n)
<1>1. n \in Nat /\ k \in Nat /\ k <= n
  OBVIOUS
<1>2. SubSeq(s, 1, 0) = <<>> /\ SubSeq(s, 1, n) = s
  OBVIOUS
<1> HIDE DEF n
<1>3. a \in Seq(S) /\ Len(a) = k /\ \A i \in 1..k : a[i] = s[i]
  BY <1>1, PartIs DEF n
<1>4. b \in Seq(S) /\ Len(b) = n - k /\ \A i \in 1..(n - k) : b[i] = s[k + i]
  BY <1>1, PartIs DEF n
<1> HIDE DEF a, b
<1>5. a \o <<>> = a
  BY <1>3
<1>6. /\ a \o b \in Seq(S) /\ Len(a \o b) = Len(a) + Len(b)
      /\ \A i \in 1..Len(a) : (a \o b)[i] = a[i]
      /\ \A i \in 1..Len(b) : (a \o b)[Len(a) + i] = b[i]
  <2>1. a \in Seq(S) /\ b \in Seq(S)
    BY <1>3, <1>4
  <2> QED
    BY <2>1, ConcatIs
<1> DEFINE c == a \o b
<1> HIDE DEF c
<1>7. Len(c) = n
  BY <1>1, <1>3, <1>4, <1>6 DEF c
<1>8. ASSUME NEW i \in 1..n PROVE c[i] = s[i]
  <2>1. CASE i <= k
    BY <1>1, <1>3, <1>6, <2>1 DEF c
  <2>2. CASE i > k
    <3>1. i - k \in 1..(n - k) /\ k + (i - k) = i
      BY <1>1, <2>2
    <3>2. c[k + (i - k)] = b[i - k]
      BY <1>3, <1>4, <1>6, <3>1 DEF c
    <3> QED
      BY <1>4, <3>1, <3>2
  <2> QED
    BY <1>1, <2>1, <2>2
<1>9. c = s
  <2>1. c \in Seq(S) /\ Len(c) = Len(s)
    BY <1>6, <1>7 DEF c, n
  <2> QED
    BY <1>7, <1>8, <2>1, SameSequence
<1> QED
  BY <1>2, <1>5, <1>9 DEF a, b, c, n

\* The chunks of a response that have arrived are a part of it, or an error; all of
\* them are the response.
LEMMA ChunksJoin ==
    ASSUME NEW body \in Seq(Byte), NEW first \in 1..Len(body),
           NEW rest \in Seq(Item), NEW m \in Nat, Len(rest) = m, m <= 5 + Len(body),
           Agree(rest, 0, Tsa!StreamOf(body, "chunked", first), 1, m)
    PROVE  /\ \/ Tsa!Dechunk(rest) = None
              \/ \E k \in 0..Len(body) : Tsa!Dechunk(rest) = SubSeq(body, 1, k)
           /\ m = 5 + Len(body) => Tsa!Dechunk(rest) = body
<1> DEFINE n == Len(body)
           f == first
           s == Tsa!StreamOf(body, "chunked", f)
           a == SubSeq(body, 1, f)
           b == SubSeq(body, f + 1, n)
<1>0. rest \in Seq(Item) /\ body \in Seq(Byte)
  OBVIOUS
<1>1. n \in Nat /\ f \in Nat /\ 1 <= f /\ f <= n
  OBVIOUS
<1>2. /\ s[2] = Tsa!ChunkSize(f)
      /\ \A i \in 1..f : s[2 + i] = body[i]
      /\ s[3 + f] = Eol /\ s[4 + f] = Tsa!ChunkSize(n - f)
      /\ \A i \in (f + 1)..n : s[4 + i] = body[i]
      /\ s[5 + n] = Eol /\ s[6 + n] = Tsa!ChunkSize(0)
  BY ChunkedStreamIs
<1>3. Tsa!Dechunk(rest) = From(rest, 0) /\ From(rest, m) = <<>>
  BY EndsAre
<1>4. \A i \in 1..m : rest[i] = s[1 + i]
  BY DEF Agree
<1>5. a \in Seq(Byte) /\ b \in Seq(Byte)
  BY <1>1, PartIs
<1>6. a \o b = body /\ a \o <<>> = a /\ b \o <<>> = b
      /\ SubSeq(body, 1, 0) = <<>> /\ SubSeq(body, 1, n) = body
  <2>1. f \in 0..Len(body)
    BY <1>1
  <2>2. b \o <<>> = b
    BY <1>5
  <2> QED
    BY <2>1, <2>2, PartsJoin
<1>7. <<>> # None /\ a # None /\ b # None /\ body # None
  <2>1. <<>> \in Seq(Byte) /\ body \in Seq(Byte)
    OBVIOUS
  <2> HIDE DEF a, b
  <2> QED
    BY <1>5, <2>1, BytesAreSome
<1>8. rest \in Seq(Item) /\ body \in Seq(Byte) /\ m \in Nat /\ Len(rest) = m /\ m <= 5 + n
      /\ Len(body) = n
  OBVIOUS
<1> HIDE DEF n, f, s
<1>9. ASSUME m >= 1 + f PROVE SubSeq(rest, 2, 1 + f) = a
  <2>1. ASSUME NEW k \in 1..f PROVE rest[1 + k] = body[0 + k]
    <3>1. 1 + k \in 1..m /\ 1 + (1 + k) = 2 + k /\ 0 + k = k
      BY <1>1, <1>8, <1>9
    <3> QED
      BY <1>2, <1>4, <3>1
  <2>2. 1 \in Nat /\ 0 \in Nat /\ f \in Nat /\ 1 + f <= Len(rest) /\ 0 + f <= Len(body)
    BY <1>1, <1>8, <1>9
  <2>3. SubSeq(rest, 1 + 1, 1 + f) = SubSeq(body, 0 + 1, 0 + f)
    <3>1. Agree(rest, 1, body, 0, f)
      BY <2>1 DEF Agree
    <3> QED
      BY ONLY <1>0, <2>2, <3>1, SamePart
  <2>4. 1 + 1 = 2 /\ 0 + 1 = 1 /\ 0 + f = f
    BY <1>1
  <2> QED
    BY <2>3, <2>4
<1>10. ASSUME m >= 3 + n, n > f PROVE SubSeq(rest, 4 + f, 3 + n) = b
  <2> DEFINE d == n - f
  <2>1. d \in Nat /\ (3 + f) + d = 3 + n /\ f + d = n /\ (3 + f) + 1 = 4 + f
    BY <1>1
  <2>2. ASSUME NEW k \in 1..d PROVE rest[(3 + f) + k] = body[f + k]
    <3>1. /\ (3 + f) + k \in 1..m /\ 1 + ((3 + f) + k) = 4 + (f + k)
          /\ f + k \in (f + 1)..n
      BY <1>1, <1>8, <1>10
    <3> QED
      BY <1>2, <1>4, <3>1
  <2> HIDE DEF d
  <2> DEFINE c == 3 + f
  <2>0. f \in Nat /\ d \in Nat
    BY <1>1, <2>1
  <2>3. c \in Nat /\ c + d <= Len(rest) /\ f + d <= Len(body)
    BY <1>1, <1>8, <1>10, <2>1
  <2>4. Agree(rest, c, body, f, d)
    BY <2>2 DEF Agree
  <2> HIDE DEF c
  <2>5. SubSeq(rest, c + 1, c + d) = SubSeq(body, f + 1, f + d)
    BY ONLY <1>0, <2>0, <2>3, <2>4, SamePart
  <2> QED
    BY <2>1, <2>5 DEF c
<1> HIDE DEF a, b
<1>11. ASSUME m >= 1
       PROVE  From(rest, 0) =
                  IF 1 + f > m \/ From(rest, After(rest, 1 + f)) = None THEN None
                  ELSE SubSeq(rest, 2, 1 + f) \o From(rest, After(rest, 1 + f))
  <2> DEFINE at == 0
             end == 1 + f
  <2>1. at \in Nat /\ at < m /\ end = at + 1 + f /\ at + 2 = 2 /\ at + 1 = 1 /\ f # 0
    BY <1>1, <1>8, <1>11
  <2>0. at \in Nat /\ f \in Nat
    BY <1>1, <2>1
  <2>2. ChunkAt(rest, at, f, end)
    <3>1. 1 \in 1..m /\ 1 + 1 = 2
      BY <1>8, <1>11
    <3>2. rest[at + 1] = Tsa!ChunkSize(f)
      BY <1>2, <1>4, <2>1, <3>1
    <3> QED
      BY <1>8, <2>1, <3>2 DEF ChunkAt
  <2> HIDE DEF at, end
  <2>3. From(rest, at) = ChunkGives(rest, at, f, end)
    BY <1>0, <2>0, <2>2, ChunkIs
  <2>4. From(rest, at) =
            IF end > m \/ From(rest, After(rest, end)) = None THEN None
            ELSE SubSeq(rest, 2, end) \o From(rest, After(rest, end))
    BY <1>8, <2>1, <2>3 DEF ChunkGives
  <2> QED
    BY <2>4 DEF at, end
<1>12. ASSUME m >= 3 + f
       PROVE  From(rest, 2 + f) =
                  IF n - f = 0 THEN <<>>
                  ELSE IF 3 + n > m \/ From(rest, After(rest, 3 + n)) = None THEN None
                  ELSE SubSeq(rest, 4 + f, 3 + n) \o From(rest, After(rest, 3 + n))
  <2> DEFINE at == 2 + f
             many == n - f
  <2>1. /\ at \in Nat /\ at < m /\ many \in Nat /\ 3 + n = at + 1 + many /\ at + 2 = 4 + f
        /\ at + 1 = 3 + f
    BY <1>1, <1>8, <1>12
  <2>2. ChunkAt(rest, at, many, 3 + n)
    <3>1. 3 + f \in 1..m /\ 1 + (3 + f) = 4 + f
      BY <1>1, <1>8, <1>12
    <3>2. rest[at + 1] = Tsa!ChunkSize(many)
      BY <1>2, <1>4, <2>1, <3>1
    <3> QED
      BY <1>8, <2>1, <3>2 DEF ChunkAt
  <2> HIDE DEF at, many
  <2>3. From(rest, at) = ChunkGives(rest, at, many, 3 + n)
    BY <1>8, <2>1, <2>2, ChunkIs
  <2>4. From(rest, at) =
            IF many = 0 THEN <<>>
            ELSE IF 3 + n > m \/ From(rest, After(rest, 3 + n)) = None THEN None
            ELSE SubSeq(rest, 4 + f, 3 + n) \o From(rest, After(rest, 3 + n))
    BY <1>8, <2>1, <2>3 DEF ChunkGives
  <2> QED
    BY <2>4 DEF at, many
\* What follows a chunk when no more than its end has arrived.
<1>13. m \in {1 + f, 2 + f} => After(rest, 1 + f) = m
  <2>1. m = 2 + f => rest[(1 + f) + 1] = Eol /\ (1 + f) + 1 = m
    <3>1. ASSUME m = 2 + f PROVE 2 + f \in 1..m /\ 1 + (2 + f) = 3 + f /\ (1 + f) + 1 = 2 + f
      BY <1>1, <1>8, <3>1
    <3> QED
      BY <1>2, <1>4, <3>1
  <2> QED
    BY <1>1, <1>8, <2>1 DEF After
<1>14. m >= 3 + f => After(rest, 1 + f) = 2 + f
  <2>1. ASSUME m >= 3 + f
        PROVE 2 + f \in 1..m /\ 1 + (2 + f) = 3 + f /\ (1 + f) + 1 = 2 + f /\ 1 + f < m
    BY <1>1, <1>8, <2>1
  <2> QED
    BY <1>2, <1>4, <1>8, <2>1 DEF After
<1>15. m \in {3 + n, 4 + n} => After(rest, 3 + n) = m
  <2>1. m = 4 + n => rest[(3 + n) + 1] = Eol /\ (3 + n) + 1 = m
    <3>1. ASSUME m = 4 + n PROVE 4 + n \in 1..m /\ 1 + (4 + n) = 5 + n /\ (3 + n) + 1 = 4 + n
      BY <1>1, <1>8, <3>1
    <3> QED
      BY <1>2, <1>4, <3>1
  <2> QED
    BY <1>1, <1>8, <2>1 DEF After
<1>16. m = 5 + n => From(rest, After(rest, 3 + n)) = <<>>
  <2> SUFFICES ASSUME m = 5 + n PROVE From(rest, After(rest, 3 + n)) = <<>>
    OBVIOUS
  <2>1. /\ 4 + n \in 1..m /\ 1 + (4 + n) = 5 + n /\ (3 + n) + 1 = 4 + n /\ 3 + n < m
        /\ 5 + n \in 1..m /\ 1 + (5 + n) = 6 + n /\ (4 + n) + 1 = 5 + n
        /\ 4 + n \in Nat /\ 4 + n < m
    BY <1>1, <1>8
  <2>2. rest[4 + n] = Eol /\ rest[5 + n] = Tsa!ChunkSize(0)
    BY <1>2, <1>4, <2>1
  <2>3. After(rest, 3 + n) = 4 + n
    BY <1>8, <2>1, <2>2 DEF After
  <2>4. From(rest, 4 + n) = <<>>
    <3>1. ChunkAt(rest, 4 + n, 0, 5 + n)
      BY <1>8, <2>1, <2>2 DEF ChunkAt
    <3>2. 0 \in Nat
      OBVIOUS
    <3> QED
      BY <1>0, <2>1, <3>1, <3>2, ChunkIs DEF ChunkGives
  <2> QED
    BY <2>3, <2>4
<1>17. CASE m = 0
  <2>1. m # 5 + n /\ 0 \in 0..n
    BY <1>1, <1>17
  <2>2. Tsa!Dechunk(rest) = SubSeq(body, 1, 0)
    BY <1>3, <1>6, <1>17
  <2> QED
    BY <2>1, <2>2 DEF n
<1>18. CASE m >= 1 /\ m < 1 + f
  <2>1. Tsa!Dechunk(rest) = None /\ m # 5 + n
    BY <1>1, <1>3, <1>8, <1>11, <1>18
  <2> QED
    BY <2>1 DEF n
<1>19. CASE m \in {1 + f, 2 + f}
  <2>1. m >= 1 /\ ~(1 + f > m) /\ m >= 1 + f /\ m # 5 + n /\ f \in 0..n
    BY <1>1, <1>8, <1>19
  <2>2. From(rest, After(rest, 1 + f)) = <<>>
    BY <1>3, <1>13, <1>19
  <2>3. From(rest, 0) = a
    BY <1>6, <1>7, <1>9, <1>11, <2>1, <2>2
  <2> QED
    BY <1>3, <2>1, <2>3 DEF a, n
<1>20. CASE m >= 3 + f
  <2>1. m >= 1 /\ ~(1 + f > m) /\ m >= 1 + f
    BY <1>1, <1>8, <1>20
  <2>2. From(rest, 0) = IF From(rest, 2 + f) = None THEN None ELSE a \o From(rest, 2 + f)
    BY <1>9, <1>11, <1>14, <1>20, <2>1
  <2>3. CASE n = f
    <3>1. n - f = 0
      BY <1>1, <2>3
    <3>2. From(rest, 2 + f) = <<>>
      BY <1>12, <1>20, <3>1
    <3>3. From(rest, 0) = body
      BY <1>6, <1>7, <2>2, <2>3, <3>2 DEF a
    <3>4. Tsa!Dechunk(rest) = SubSeq(body, 1, n) /\ n \in 0..n
      BY <1>1, <1>3, <1>6, <3>3
    <3> QED
      BY <1>3, <3>3, <3>4 DEF n
  <2>4. CASE n > f /\ m < 3 + n
    <3>1. n - f # 0 /\ 3 + n > m /\ m # 5 + n
      BY <1>1, <1>8, <2>4
    <3>2. From(rest, 2 + f) = None
      BY <1>12, <1>20, <3>1
    <3> QED
      BY <1>3, <2>2, <3>1, <3>2 DEF n
  <2>5. CASE n > f /\ m >= 3 + n
    <3>1. n - f # 0 /\ ~(3 + n > m) /\ m \in {3 + n, 4 + n, 5 + n}
      BY <1>1, <1>8, <2>5
    <3>2. From(rest, After(rest, 3 + n)) = <<>>
      BY <1>3, <1>15, <1>16, <3>1
    <3>3. From(rest, 2 + f) = b
      BY <1>6, <1>7, <1>10, <1>12, <1>20, <2>5, <3>1, <3>2
    <3>4. From(rest, 0) = body
      BY <1>6, <1>7, <2>2, <3>3
    <3>5. Tsa!Dechunk(rest) = SubSeq(body, 1, n) /\ n \in 0..n
      BY <1>1, <1>3, <1>6, <3>4
    <3> QED
      BY <1>3, <3>4, <3>5 DEF n
  <2> QED
    BY <1>1, <1>8, <2>3, <2>4, <2>5
<1> QED
  BY <1>1, <1>8, <1>17, <1>18, <1>19, <1>20

\* What has arrived behind the headers.
LEMMA RestIs ==
    ASSUME NEW S, NEW s \in Seq(S), NEW k \in 1..Len(s)
    PROVE  LET rest == Tail(SubSeq(s, 1, k))
           IN  /\ SubSeq(s, 1, k) # <<>>
               /\ rest \in Seq(S) /\ Len(rest) = k - 1 /\ Agree(rest, 0, s, 1, k - 1)
<1> DEFINE t == SubSeq(s, 1, k)
           rest == Tail(t)
<1>1. k \in Nat /\ k >= 1 /\ k <= Len(s)
  OBVIOUS
<1>2. t \in Seq(S) /\ Len(t) = k /\ \A i \in 1..k : t[i] = s[i]
  BY <1>1, PartIs
<1> HIDE DEF t
<1>3. t # <<>>
  BY <1>1, <1>2
<1>4. rest \in Seq(S) /\ Len(rest) = k - 1
  BY <1>1, <1>2, <1>3
<1>5. \A i \in 1..(k - 1) : rest[i] = t[i + 1]
  BY <1>1, <1>2, <1>3
<1> HIDE DEF rest
<1>6. ASSUME NEW i \in 1..(k - 1) PROVE rest[0 + i] = s[1 + i]
  <2>1. 0 + i = i /\ i + 1 = 1 + i /\ 1 + i \in 1..k
    BY <1>1
  <2> QED
    BY <1>2, <1>5, <2>1
<1>7. Agree(rest, 0, s, 1, k - 1)
  BY <1>6 DEF Agree
<1> QED
  BY <1>3, <1>4, <1>7 DEF rest, t

\* Of a plain answer what has arrived is a part of the response.
LEMMA PlainRestIs ==
    ASSUME NEW body \in Seq(Byte), NEW framing, framing # "chunked", NEW first,
           NEW rest \in Seq(Item), NEW m \in Nat, Len(rest) = m, m <= Len(body),
           Agree(rest, 0, Tsa!StreamOf(body, framing, first), 1, m)
    PROVE  rest = SubSeq(body, 1, m)
<1> DEFINE s == Tsa!StreamOf(body, framing, first)
           part == SubSeq(body, 1, m)
<1>1. \A i \in 1..Len(body) : s[1 + i] = body[i]
  BY PlainStreamIs
<1> HIDE DEF s
<1>2. part \in Seq(Byte) /\ Len(part) = m /\ \A i \in 1..m : part[i] = body[i]
  BY PartIs
<1> HIDE DEF part
<1>3. ASSUME NEW i \in 1..m PROVE rest[i] = part[i]
  <2>1. i \in 1..Len(body) /\ 0 + i = i
    OBVIOUS
  <2>2. rest[0 + i] = s[1 + i]
    BY DEF Agree, s
  <2> QED
    BY <1>1, <1>2, <2>1, <2>2
<1>4. part \in Seq(Item)
  <2>1. Byte \subseteq Item
    BY DEF Item
  <2> QED
    BY <1>2, <2>1
<1>5. rest = part
  BY <1>2, <1>3, <1>4, SameSequence
<1> QED
  BY <1>5 DEF part

------------------------------------------------------------------------------
(* Base64.                                                                   *)

OrZero(bytes, i) == IF i <= Len(bytes) THEN bytes[i] ELSE 0
Triple(bytes, c) ==
    65536 * OrZero(bytes, 3 * c + 1) + 256 * OrZero(bytes, 3 * c + 2) + OrZero(bytes, 3 * c + 3)
Six(t, k) == (t \div 64^(3 - k)) % 64
Eight(t, k) == (t \div 256^(2 - k)) % 256
Joined4(w, x, y, z) == 262144 * w + 4096 * x + 64 * y + z

\* Division with remainder.
LEMMA Division ==
    ASSUME NEW x \in Nat, NEW d \in Nat \ {0}
    PROVE  /\ x \div d \in Nat /\ x % d \in Nat
           /\ x % d < d /\ x = d * (x \div d) + (x % d)
OBVIOUS

\* A number is a multiple of any divisor and less than it.
LEMMA Splits ==
    ASSUME NEW x \in Nat, NEW d \in Nat \ {0}
    PROVE  \E q \in Nat, r \in Nat : r < d /\ x = d * q + r
BY Division

\* Quotient and remainder are the only ones.
LEMMA Divided ==
    ASSUME NEW d \in Nat \ {0}, NEW q \in Nat, NEW r \in Nat, r < d
    PROVE  (d * q + r) \div d = q /\ (d * q + r) % d = r
OBVIOUS

\* The digits of six and of eight bits of a number.
LEMMA SixAre ==
    ASSUME NEW t
    PROVE  /\ Six(t, 0) = (t \div 262144) % 64 /\ Six(t, 1) = (t \div 4096) % 64
           /\ Six(t, 2) = (t \div 64) % 64 /\ Six(t, 3) = (t \div 1) % 64
           /\ Eight(t, 0) = (t \div 65536) % 256 /\ Eight(t, 1) = (t \div 256) % 256
           /\ Eight(t, 2) = (t \div 1) % 256
<1>1. /\ 64^0 = 1 /\ 64^1 = 64 /\ 64^2 = 4096 /\ 64^3 = 262144
      /\ 256^0 = 1 /\ 256^1 = 256 /\ 256^2 = 65536
  OBVIOUS
<1>2. /\ 3 - 0 = 3 /\ 3 - 1 = 2 /\ 3 - 2 = 1 /\ 3 - 3 = 0
      /\ 2 - 0 = 2 /\ 2 - 1 = 1 /\ 2 - 2 = 0
  OBVIOUS
<1> QED
  BY <1>1, <1>2 DEF Six, Eight

\* A digit is what is left of the quotient.
IsDigit(t, d, m, p, q, r) ==
    /\ d \in Nat \ {0} /\ m \in Nat \ {0}
    /\ p \in Nat /\ q \in Nat /\ q < m /\ r \in Nat /\ r < d
    /\ t = d * (m * p + q) + r
LEMMA DigitIs ==
    ASSUME NEW t, NEW d, NEW m, NEW p, NEW q, NEW r, IsDigit(t, d, m, p, q, r)
    PROVE  (t \div d) % m = q
<1> USE DEF IsDigit
<1>1. m * p + q \in Nat 
  OBVIOUS
<1>2. t \div d = m * p + q
  BY <1>1, Divided
<1> QED
  BY <1>1, <1>2, Divided

\* The values of six bits of a number are those it is joined of.
LEMMA SixOf ==
    ASSUME NEW w \in Nat, w < 64, NEW x \in Nat, x < 64,
           NEW y \in Nat, y < 64, NEW z \in Nat, z < 64, NEW t, t = Joined4(w, x, y, z)
    PROVE  Six(t, 0) = w /\ Six(t, 1) = x /\ Six(t, 2) = y /\ Six(t, 3) = z
<1>1. 64 \in Nat \ {0}
  OBVIOUS
<1>2. (t \div 262144) % 64 = w
  <2> DEFINE r == 4096 * x + 64 * y + z
  <2>1. r \in Nat /\ r < 262144 /\ 0 \in Nat /\ 262144 \in Nat \ {0}
    OBVIOUS
  <2>2. t = 262144 * (64 * 0 + w) + r
    BY DEF Joined4
  <2>3. IsDigit(t, 262144, 64, 0, w, r)
    BY <2>1, <2>2 DEF IsDigit
  <2> QED
    BY ONLY <2>3, DigitIs
<1>3. (t \div 4096) % 64 = x
  <2> DEFINE r == 64 * y + z
  <2>1. r \in Nat /\ r < 4096 /\ w \in Nat /\ 4096 \in Nat \ {0}
    OBVIOUS
  <2>2. t = 4096 * (64 * w + x) + r
    BY DEF Joined4
  <2>3. IsDigit(t, 4096, 64, w, x, r)
    BY <2>1, <2>2 DEF IsDigit
  <2> QED
    BY ONLY <2>3, DigitIs
<1>4. (t \div 64) % 64 = y
  <2> DEFINE p == 64 * w + x
  <2>1. p \in Nat
    OBVIOUS
  <2>2. t = 64 * (64 * p + y) + z
    BY DEF Joined4
  <2>3. IsDigit(t, 64, 64, p, y, z)
    BY <2>1, <2>2 DEF IsDigit
  <2> QED
    BY ONLY <2>3, DigitIs
<1>5. (t \div 1) % 64 = z
  <2> DEFINE p == 4096 * w + 64 * x + y
  <2>1. p \in Nat /\ 1 \in Nat \ {0} /\ 0 < 1
    OBVIOUS
  <2>2. t = 1 * (64 * p + z) + 0
    BY DEF Joined4
  <2>3. IsDigit(t, 1, 64, p, z, 0)
    BY <2>1, <2>2 DEF IsDigit
  <2> QED
    BY ONLY <2>3, DigitIs
<1> QED
  BY <1>2, <1>3, <1>4, <1>5, SixAre

\* The bytes of a number are those it is joined of.
LEMMA EightOf ==
    ASSUME NEW a \in Byte, NEW b \in Byte, NEW c \in Byte,
           NEW t, t = 65536 * a + 256 * b + c
    PROVE  Eight(t, 0) = a /\ Eight(t, 1) = b /\ Eight(t, 2) = c
<1>1. /\ 256 \in Nat \ {0} /\ a \in Nat /\ b \in Nat /\ c \in Nat
      /\ a < 256 /\ b < 256 /\ c < 256
  BY DEF Byte
<1>2. (t \div 65536) % 256 = a
  <2> DEFINE r == 256 * b + c
  <2>1. r \in Nat /\ r < 65536 /\ 0 \in Nat /\ 65536 \in Nat \ {0}
    BY <1>1
  <2>2. t = 65536 * (256 * 0 + a) + r
    BY <1>1
  <2>3. IsDigit(t, 65536, 256, 0, a, r)
    BY <1>1, <2>1, <2>2 DEF IsDigit
  <2> QED
    BY ONLY <2>3, DigitIs
<1>3. (t \div 256) % 256 = b
  <2>1. t = 256 * (256 * a + b) + c /\ a \in Nat
    BY <1>1
  <2>2. IsDigit(t, 256, 256, a, b, c)
    BY <1>1, <2>1 DEF IsDigit
  <2> QED
    BY ONLY <2>2, DigitIs
<1>4. (t \div 1) % 256 = c
  <2> DEFINE p == 256 * a + b
  <2>1. p \in Nat /\ 1 \in Nat \ {0} /\ 0 < 1
    BY <1>1
  <2>2. t = 1 * (256 * p + c) + 0
    BY <1>1
  <2>3. IsDigit(t, 1, 256, p, c, 0)
    BY <1>1, <2>1, <2>2 DEF IsDigit
  <2> QED
    BY ONLY <2>3, DigitIs
<1> QED
  BY <1>2, <1>3, <1>4, SixAre

\* The bits of three bytes, as four values.
Regroups(a, b, c, w, x, y, z) ==
    /\ w \in Nat /\ x \in Nat /\ y \in Nat /\ z \in Nat
    /\ w < 64 /\ x < 64 /\ y < 64 /\ z < 64
    /\ 65536 * a + 256 * b + c = Joined4(w, x, y, z)
    /\ c = 0 => z = 0
    /\ b = 0 /\ c = 0 => y = 0
LEMMA Regrouped ==
    ASSUME NEW a \in Byte, NEW b \in Byte, NEW c \in Byte
    PROVE  \E w, x, y, z : Regroups(a, b, c, w, x, y, z)
<1>1. /\ a \in Nat /\ b \in Nat /\ c \in Nat
      /\ a < 256 /\ b < 256 /\ c < 256
      /\ 4 \in Nat \ {0} /\ 16 \in Nat \ {0} /\ 64 \in Nat \ {0}
  BY DEF Byte
<1>2. PICK a1 \in Nat, a0 \in Nat : a0 < 4 /\ a = 4 * a1 + a0
  <2> DEFINE d == 4
  <2>1. a \in Nat /\ d \in Nat \ {0}
    BY <1>1
  <2> HIDE DEF d
  <2>2. \E q \in Nat, r \in Nat : r < d /\ a = d * q + r
    BY ONLY <2>1, Splits, Zenon
  <2> QED
    BY ONLY <2>2 DEF d
<1>3. PICK b1 \in Nat, b0 \in Nat : b0 < 16 /\ b = 16 * b1 + b0
  <2> DEFINE d == 16
  <2>1. b \in Nat /\ d \in Nat \ {0}
    BY <1>1
  <2> HIDE DEF d
  <2>2. \E q \in Nat, r \in Nat : r < d /\ b = d * q + r
    BY ONLY <2>1, Splits, Zenon
  <2> QED
    BY ONLY <2>2 DEF d
<1>4. PICK c1 \in Nat, c0 \in Nat : c0 < 64 /\ c = 64 * c1 + c0
  <2> DEFINE d == 64
  <2>1. c \in Nat /\ d \in Nat \ {0}
    BY <1>1
  <2> HIDE DEF d
  <2>2. \E q \in Nat, r \in Nat : r < d /\ c = d * q + r
    BY ONLY <2>1, Splits, Zenon
  <2> QED
    BY ONLY <2>2 DEF d
<1>5. a1 < 64
  BY ONLY <1>1, <1>2
<1>6. b1 < 16 /\ (b = 0 => b0 = 0)
  BY ONLY <1>1, <1>3
<1>7. c1 < 4 /\ (c = 0 => c1 = 0 /\ c0 = 0)
  BY ONLY <1>1, <1>4
<1> DEFINE x == 16 * a0 + b1
           y == 4 * b0 + c1
<1>8. x \in Nat /\ y \in Nat /\ x < 64 /\ y < 64 /\ (b = 0 /\ c = 0 => y = 0)
  BY <1>2, <1>3, <1>6, <1>7
<1>9. 65536 * a + 256 * b + c = Joined4(a1, x, y, c0)
  BY <1>1, <1>2, <1>3, <1>4, <1>5, <1>6, <1>7 DEF Joined4
<1>10. Regroups(a, b, c, a1, x, y, c0)
  <2> HIDE DEF x, y
  <2> QED
    BY <1>2, <1>4, <1>5, <1>7, <1>8, <1>9 DEF Regroups
<1> QED
  BY ONLY <1>10

\* Three bytes are four values of six bits, of which those of missing bytes are zero.
Fits(t) == \A k \in 0..3 : Six(t, k) \in Nat /\ Six(t, k) < 64
LEMMA TripleSplits ==
    ASSUME NEW a \in Byte, NEW b \in Byte, NEW c \in Byte
    PROVE  LET t == 65536 * a + 256 * b + c
           IN  /\ Fits(t)
               /\ Joined4(Six(t, 0), Six(t, 1), Six(t, 2), Six(t, 3)) = t
               /\ Eight(t, 0) = a /\ Eight(t, 1) = b /\ Eight(t, 2) = c
               /\ c = 0 => Six(t, 3) = 0
               /\ b = 0 /\ c = 0 => Six(t, 2) = 0
<1> DEFINE t == 65536 * a + 256 * b + c
<1>1. PICK w, x, y, z : Regroups(a, b, c, w, x, y, z)
  BY Regrouped
<1>2. Eight(t, 0) = a /\ Eight(t, 1) = b /\ Eight(t, 2) = c
  BY EightOf
<1>3. /\ w \in Nat /\ x \in Nat /\ y \in Nat /\ z \in Nat
      /\ w < 64 /\ x < 64 /\ y < 64 /\ z < 64
      /\ t = Joined4(w, x, y, z)
      /\ c = 0 => z = 0
      /\ b = 0 /\ c = 0 => y = 0
  BY <1>1 DEF Regroups
<1> HIDE DEF t
<1>4. Six(t, 0) = w /\ Six(t, 1) = x /\ Six(t, 2) = y /\ Six(t, 3) = z
  BY ONLY <1>3, SixOf
<1>5. \A k \in 0..3 : k = 0 \/ k = 1 \/ k = 2 \/ k = 3
  OBVIOUS
<1>6. Fits(t)
  BY ONLY <1>3, <1>4, <1>5 DEF Fits
<1> QED
  BY ONLY <1>2, <1>3, <1>4, <1>6 DEF t
\* Numbers of groups, of bytes and of padding.
Groups(n) == (n + 2) \div 3
LEMMA GroupsAre ==
    ASSUME NEW n \in Nat
    PROVE  /\ Groups(n) \in Nat /\ 3 * Groups(n) - n \in 0..2
           /\ (3 * (4 * Groups(n))) \div 4 = 3 * Groups(n)
<1> DEFINE g == Groups(n)
<1>1. n + 2 \in Nat /\ 3 \in Nat \ {0} /\ 4 \in Nat \ {0}
  OBVIOUS
<1>2. g \in Nat /\ (n + 2) % 3 \in Nat /\ (n + 2) % 3 < 3 /\ n + 2 = 3 * g + ((n + 2) % 3)
  BY ONLY <1>1, Division DEF Groups
<1> HIDE DEF g
<1>3. 3 * g - n \in 0..2
  BY <1>2
<1>4. 3 * (4 * g) = 4 * (3 * g) + 0 /\ 3 * g \in Nat
  BY <1>2
<1>5. (3 * (4 * g)) \div 4 = 3 * g
  BY <1>1, <1>4, Divided
<1> QED
  BY <1>2, <1>3, <1>5 DEF g

\* Where a byte is in its group.
LEMMA ByteIsAt ==
    ASSUME NEW n \in Nat, NEW j \in 1..n
    PROVE  /\ (j - 1) \div 3 \in 0..(Groups(n) - 1) /\ (j - 1) % 3 \in 0..2
           /\ j = 3 * ((j - 1) \div 3) + ((j - 1) % 3) + 1
<1> DEFINE g == Groups(n)
           c == (j - 1) \div 3
           k == (j - 1) % 3
<1>1. j - 1 \in Nat /\ 3 \in Nat \ {0}
  OBVIOUS
<1>2. c \in Nat /\ k \in Nat /\ k < 3 /\ j - 1 = 3 * c + k
  BY ONLY <1>1, Division
<1>3. g \in Nat /\ 3 * g - n \in 0..2
  BY GroupsAre
<1> HIDE DEF g, c, k
<1>4. c \in 0..(g - 1) /\ k \in 0..2 /\ j = 3 * c + k + 1
  BY <1>2, <1>3
<1> QED
  BY <1>4 DEF g, c, k

\* The value k of group c of the text, padded where the byte is missing.
ValueOf(bytes, c, k) ==
    IF k >= 2 /\ 3 * c + k > Len(bytes) THEN 64 ELSE Six(Triple(bytes, c), k)

\* The text, group by group.
LEMMA TextIs ==
    ASSUME NEW bytes \in Seq(Byte)
    PROVE  LET groups == Groups(Len(bytes))
               text   == Tsa!Base64(bytes)
           IN  /\ text = [j \in 1..(4 * groups) |-> text[j]]
               /\ Len(text) = 4 * groups
               /\ \A c \in 0..(groups - 1) :
                      /\ text[4 * c + 1] = ValueOf(bytes, c, 0)
                      /\ text[4 * c + 2] = ValueOf(bytes, c, 1)
                      /\ text[4 * c + 3] = ValueOf(bytes, c, 2)
                      /\ text[4 * c + 4] = ValueOf(bytes, c, 3)
<1> DEFINE groups == Groups(Len(bytes))
           text   == Tsa!Base64(bytes)
<1>1. Len(bytes) \in Nat /\ groups \in Nat
  BY GroupsAre
<1>2. text = [j \in 1..(4 * groups) |-> ValueOf(bytes, (j - 1) \div 4, (j - 1) % 4)]
  BY DEF Tsa!Base64, Tsa!Pad, Groups, ValueOf, Six, Triple, OrZero
<1> HIDE DEF text, groups
<1>3. Len(text) = 4 * groups
  BY <1>1, <1>2
<1>4. ASSUME NEW c \in 0..(groups - 1)
      PROVE  /\ text[4 * c + 1] = ValueOf(bytes, c, 0)
             /\ text[4 * c + 2] = ValueOf(bytes, c, 1)
             /\ text[4 * c + 3] = ValueOf(bytes, c, 2)
             /\ text[4 * c + 4] = ValueOf(bytes, c, 3)
  <2>1. ASSUME NEW k \in 0..3 PROVE text[4 * c + (k + 1)] = ValueOf(bytes, c, k)
    <3>1. 4 * c + (k + 1) \in 1..(4 * groups)
      BY <1>1
    <3>2. ((4 * c + (k + 1)) - 1) \div 4 = c /\ ((4 * c + (k + 1)) - 1) % 4 = k
      BY <1>1
    <3> QED
      BY <1>2, <3>1, <3>2
  <2>2. 0 + 1 = 1 /\ 1 + 1 = 2 /\ 2 + 1 = 3 /\ 3 + 1 = 4
    OBVIOUS
  <2>3. 0 \in 0..3 /\ 1 \in 0..3 /\ 2 \in 0..3 /\ 3 \in 0..3
    OBVIOUS
  <2> QED
    BY <2>1, <2>2, <2>3
<1> QED
  BY <1>2, <1>3, <1>4 DEF text, groups

\* Values and bytes of the group c.
LEMMA GroupIs ==
    ASSUME NEW bytes \in Seq(Byte), NEW c \in Nat
    PROVE  LET t == Triple(bytes, c)
           IN  /\ Fits(t)
               /\ Joined4(Six(t, 0), Six(t, 1), Six(t, 2), Six(t, 3)) = t
               /\ Eight(t, 0) = OrZero(bytes, 3 * c + 1)
               /\ Eight(t, 1) = OrZero(bytes, 3 * c + 2)
               /\ Eight(t, 2) = OrZero(bytes, 3 * c + 3)
               /\ OrZero(bytes, 3 * c + 3) = 0 => Six(t, 3) = 0
               /\ OrZero(bytes, 3 * c + 2) = 0 /\ OrZero(bytes, 3 * c + 3) = 0 => Six(t, 2) = 0
<1>1. ASSUME NEW i \in Nat \ {0} PROVE OrZero(bytes, i) \in Byte
  <2>1. 0 \in Byte
    BY DEF Byte
  <2> QED
    BY <2>1 DEF OrZero
<1>2. 3 * c + 1 \in Nat \ {0} /\ 3 * c + 2 \in Nat \ {0} /\ 3 * c + 3 \in Nat \ {0}
  OBVIOUS
<1> QED
  BY <1>1, <1>2, TripleSplits DEF Triple

\* A value is never taken for padding.
LEMMA SixIs ==
    ASSUME NEW bytes \in Seq(Byte), NEW c \in Nat, NEW k \in 0..3
    PROVE  /\ Six(Triple(bytes, c), k) # 64
           /\ Six(Triple(bytes, c), k) \in Nat /\ Six(Triple(bytes, c), k) < 64
<1>1. Fits(Triple(bytes, c))
  BY GroupIs
<1>2. Six(Triple(bytes, c), k) \in Nat /\ Six(Triple(bytes, c), k) < 64
  BY <1>1 DEF Fits
<1> QED
  BY <1>2

\* The bytes of a group.
LEMMA EightIs ==
    ASSUME NEW bytes \in Seq(Byte), NEW c \in Nat, NEW k \in 0..2
    PROVE  Eight(Triple(bytes, c), k) = OrZero(bytes, 3 * c + k + 1)
<1>1. k = 0 \/ k = 1 \/ k = 2
  OBVIOUS
<1>2. 3 * c + 0 + 1 = 3 * c + 1 /\ 3 * c + 1 + 1 = 3 * c + 2 /\ 3 * c + 2 + 1 = 3 * c + 3
  OBVIOUS
<1> QED
  BY <1>1, <1>2, GroupIs

\* With zero for the padding the values of a group join to its bytes.
Unpadded(v) == IF v = 64 THEN 0 ELSE v
LEMMA GroupJoins ==
    ASSUME NEW bytes \in Seq(Byte), NEW c \in Nat, 3 * c + 1 <= Len(bytes)
    PROVE  Joined4(Unpadded(ValueOf(bytes, c, 0)), Unpadded(ValueOf(bytes, c, 1)),
                   Unpadded(ValueOf(bytes, c, 2)), Unpadded(ValueOf(bytes, c, 3)))
               = Triple(bytes, c)
<1> DEFINE t == Triple(bytes, c)
           n == Len(bytes)
<1>1. n \in Nat
  OBVIOUS
<1>2. Six(t, 0) # 64 /\ Six(t, 1) # 64 /\ Six(t, 2) # 64 /\ Six(t, 3) # 64
  <2>1. \A k \in 0..3 : Six(t, k) \in Nat /\ Six(t, k) < 64
    BY SixIs
  <2> QED
    BY <2>1
<1>3. /\ Joined4(Six(t, 0), Six(t, 1), Six(t, 2), Six(t, 3)) = t
      /\ OrZero(bytes, 3 * c + 3) = 0 => Six(t, 3) = 0
      /\ OrZero(bytes, 3 * c + 2) = 0 /\ OrZero(bytes, 3 * c + 3) = 0 => Six(t, 2) = 0
  BY GroupIs
<1>4. 3 * c + 3 > n => OrZero(bytes, 3 * c + 3) = 0
  BY DEF OrZero
<1>5. 3 * c + 2 > n => OrZero(bytes, 3 * c + 2) = 0 /\ OrZero(bytes, 3 * c + 3) = 0
  BY DEF OrZero
<1>6. ~(0 >= 2) /\ ~(1 >= 2) /\ 2 >= 2 /\ 3 >= 2
  OBVIOUS
<1> HIDE DEF t, n
<1>7. Unpadded(ValueOf(bytes, c, 0)) = Six(t, 0) /\ Unpadded(ValueOf(bytes, c, 1)) = Six(t, 1)
  BY <1>2, <1>6 DEF Unpadded, ValueOf, t
<1>8. Unpadded(ValueOf(bytes, c, 2)) = Six(t, 2)
  BY <1>2, <1>3, <1>5, <1>6 DEF Unpadded, ValueOf, t, n
<1>9. Unpadded(ValueOf(bytes, c, 3)) = Six(t, 3)
  BY <1>2, <1>3, <1>4, <1>6 DEF Unpadded, ValueOf, t, n
<1> QED
  BY <1>3, <1>7, <1>8, <1>9 DEF t

\* The padding is at the end of the text.
LEMMA PadsAre ==
    ASSUME NEW bytes \in Seq(Byte)
    PROVE  LET groups == Groups(Len(bytes))
               text   == Tsa!Base64(bytes)
           IN  \A i \in 1..(4 * groups) :
                   text[i] = 64 <=> i > 4 * groups - (3 * groups - Len(bytes))
<1> DEFINE n == Len(bytes)
           groups == Groups(n)
           text == Tsa!Base64(bytes)
<1>1. n \in Nat /\ groups \in Nat /\ 3 * groups - n \in 0..2
  BY GroupsAre
<1>2. \A c \in 0..(groups - 1) :
          /\ text[4 * c + 1] = ValueOf(bytes, c, 0)
          /\ text[4 * c + 2] = ValueOf(bytes, c, 1)
          /\ text[4 * c + 3] = ValueOf(bytes, c, 2)
          /\ text[4 * c + 4] = ValueOf(bytes, c, 3)
  BY TextIs
<1> HIDE DEF groups, text, n
<1>3. ASSUME NEW c \in 0..(groups - 1), NEW k \in 0..3
      PROVE  ValueOf(bytes, c, k) = 64 <=> k >= 2 /\ 3 * c + k > n
  <2>1. Six(Triple(bytes, c), k) # 64
    <3>1. bytes \in Seq(Byte) /\ c \in Nat /\ k \in 0..3
      BY <1>1
    <3> QED
      BY ONLY <3>1, SixIs
  <2> QED
    BY <2>1 DEF ValueOf, n
<1>4. ASSUME NEW i \in 1..(4 * groups)
      PROVE  text[i] = 64 <=> i > 4 * groups - (3 * groups - n)
  <2>1. PICK c \in 0..(groups - 1), k \in 0..3 : i = 4 * c + (k + 1)
    <3>1. /\ (i - 1) \div 4 \in 0..(groups - 1) /\ (i - 1) % 4 \in 0..3
          /\ i = 4 * ((i - 1) \div 4) + (((i - 1) % 4) + 1)
      BY <1>1
    <3> QED
      BY <3>1
  <2>2. text[i] = ValueOf(bytes, c, k)
    <3>1. k = 0 \/ k = 1 \/ k = 2 \/ k = 3
      OBVIOUS
    <3>2. 0 + 1 = 1 /\ 1 + 1 = 2 /\ 2 + 1 = 3 /\ 3 + 1 = 4
      OBVIOUS
    <3> QED
      BY ONLY <1>2, <2>1, <3>1, <3>2
  <2>3. (k >= 2 /\ 3 * c + k > n) <=> i > 4 * groups - (3 * groups - n)
    BY <1>1, <2>1
  <2> QED
    BY <1>3, <2>2, <2>3
<1> QED
  BY <1>4 DEF groups, text, n

\* The text of bytes decodes to them.
LEMMA TextDecodes == ASSUME NEW bytes \in Seq(Byte) PROVE Decoded(Tsa!Base64(bytes)) = bytes
<1> DEFINE n == Len(bytes)
           groups == Groups(n)
           text == Tsa!Base64(bytes)
           r == 3 * groups - n
           padded == {i \in 1..Len(text) : text[i] = 64}
           Whole(c) == Joined4(Unpadded(text[4 * c + 1]), Unpadded(text[4 * c + 2]),
                               Unpadded(text[4 * c + 3]), Unpadded(text[4 * c + 4]))
<1>1. n \in Nat /\ groups \in Nat /\ r \in 0..2 /\ (3 * (4 * groups)) \div 4 = 3 * groups
  BY GroupsAre
<1>2. Len(text) = 4 * groups
  BY TextIs
<1>3. \A c \in 0..(groups - 1) :
          /\ text[4 * c + 1] = ValueOf(bytes, c, 0)
          /\ text[4 * c + 2] = ValueOf(bytes, c, 1)
          /\ text[4 * c + 3] = ValueOf(bytes, c, 2)
          /\ text[4 * c + 4] = ValueOf(bytes, c, 3)
  BY TextIs
<1>4. \A i \in 1..(4 * groups) : text[i] = 64 <=> i > 4 * groups - r
  BY PadsAre
<1>5. \A j \in 1..n :
          /\ (j - 1) \div 3 \in 0..(groups - 1) /\ (j - 1) % 3 \in 0..2
          /\ j = 3 * ((j - 1) \div 3) + ((j - 1) % 3) + 1
  BY <1>1, ByteIsAt
<1>6. Decoded(text) = [j \in 1..((3 * Len(text)) \div 4 - Cardinality(padded)) |->
                          Eight(Whole((j - 1) \div 3), (j - 1) % 3)]
  BY DEF Decoded, Eight, Joined4, Unpadded
<1> HIDE DEF groups, text, n, r
<1>7. Cardinality(padded) = r
  <2>1. padded = {i \in 1..(4 * groups) : i > 4 * groups - r}
    BY <1>2, <1>4
  <2>2. CASE r = 0
    <3>1. padded = {}
      BY <1>1, <2>1, <2>2
    <3> QED
      BY <2>2, <3>1, FS_EmptySet
  <2>3. CASE r = 1
    <3>1. groups >= 1
      BY <1>1, <2>3 DEF r, n
    <3>2. padded = {4 * groups}
      BY <1>1, <2>1, <2>3, <3>1
    <3> QED
      BY <2>3, <3>2, FS_Singleton
  <2>4. CASE r = 2
    <3>1. groups >= 1
      BY <1>1, <2>4 DEF r, n
    <3>2. padded = {4 * groups - 1, 4 * groups} /\ 4 * groups - 1 # 4 * groups
      BY <1>1, <2>1, <2>4, <3>1
    <3>3. IsFiniteSet({4 * groups - 1}) /\ Cardinality({4 * groups - 1}) = 1
      BY FS_Singleton
    <3>4. /\ {4 * groups - 1} \cup {4 * groups} = padded
          /\ 4 * groups \notin {4 * groups - 1}
      BY <3>2
    <3>5. Cardinality(padded) = 1 + 1
      BY <3>3, <3>4, FS_AddElement
    <3> QED
      BY <2>4, <3>5
  <2> QED
    BY <1>1, <2>2, <2>3, <2>4
<1>8. ASSUME NEW c \in 0..(groups - 1) PROVE Whole(c) = Triple(bytes, c)
  <2>1. 3 * c + 1 <= n /\ c \in Nat
    BY <1>1 DEF r
  <2> QED
    BY <1>3, <2>1, GroupJoins DEF n
<1> HIDE DEF padded, Whole
<1>9. (3 * Len(text)) \div 4 - Cardinality(padded) = n
  BY <1>1, <1>2, <1>7 DEF r
<1>10. ASSUME NEW j \in 1..n
       PROVE  Eight(Whole((j - 1) \div 3), (j - 1) % 3) = bytes[j]
  <2> DEFINE c == (j - 1) \div 3
             k == (j - 1) % 3
  <2>1. c \in 0..(groups - 1) /\ k \in 0..2 /\ j = 3 * c + k + 1
    BY <1>5
  <2> HIDE DEF c, k
  <2>2. Eight(Triple(bytes, c), k) = OrZero(bytes, 3 * c + k + 1)
    <3>1. bytes \in Seq(Byte) /\ c \in Nat /\ k \in 0..2
      BY <1>1, <2>1
    <3> QED
      BY ONLY <3>1, EightIs
  <2>3. OrZero(bytes, j) = bytes[j]
    BY DEF OrZero, n
  <2>4. Whole(c) = Triple(bytes, c)
    BY <1>8, <2>1
  <2>5. Eight(Whole(c), k) = bytes[j]
    BY <2>1, <2>2, <2>3, <2>4
  <2> QED
    BY <2>5 DEF c, k
<1>11. bytes = [j \in 1..n |-> bytes[j]]
  BY DEF n
<1> QED
  BY <1>6, <1>9, <1>10, <1>11 DEF text

\* An encoded response is one.
LEMMA TextShows == ASSUME NEW bytes \in Seq(Byte) PROVE Tsa!Base64(bytes) # None
<1> DEFINE text == Tsa!Base64(bytes)
           m == 4 * Groups(Len(bytes))
<1>1. Len(bytes) \in Nat /\ m \in Nat
  <2>1. Len(bytes) \in Nat
    OBVIOUS
  <2>2. Groups(Len(bytes)) \in Nat
    BY ONLY <2>1, GroupsAre
  <2> QED
    BY <2>1, <2>2
<1>2. text = [j \in 1..m |-> ValueOf(bytes, (j - 1) \div 4, (j - 1) % 4)]
  BY DEF Tsa!Base64, Tsa!Pad, Groups, ValueOf, Six, Triple, OrZero
<1>3. ASSUME NEW j \in 1..m PROVE ValueOf(bytes, (j - 1) \div 4, (j - 1) % 4) \in Byte
  <2> DEFINE c == (j - 1) \div 4
             k == (j - 1) % 4
  <2>1. j - 1 \in Nat /\ 4 \in Nat \ {0}
    BY <1>1
  <2>2. c \in Nat /\ k \in Nat /\ k < 4
    BY ONLY <2>1, Division
  <2> HIDE DEF c, k
  <2>3. Six(Triple(bytes, c), k) \in Nat /\ Six(Triple(bytes, c), k) < 64
    <3>1. bytes \in Seq(Byte) /\ c \in Nat /\ k \in 0..3
      BY <2>2
    <3> QED
      BY ONLY <3>1, SixIs
  <2>4. ValueOf(bytes, c, k) \in Nat /\ ValueOf(bytes, c, k) <= 255
    BY <2>3 DEF ValueOf
  <2>5. ValueOf(bytes, c, k) \in Byte
    <3> DEFINE v == ValueOf(bytes, c, k)
    <3>1. v \in Nat /\ v <= 255
      BY ONLY <2>4
    <3> HIDE DEF v
    <3>2. v \in Byte
      BY <3>1 DEF Byte
    <3> QED
      BY <3>2 DEF v
  <2> QED
    BY <2>5 DEF c, k
<1> HIDE DEF m, text
<1>4. text \in Seq(Byte)
  BY <1>1, <1>2, <1>3
<1> QED
  BY <1>4, BytesAreSome DEF text

------------------------------------------------------------------------------
(* The inductive invariant.                                                  *)

\* Nothing has happened before the request is looked at.
NothingYet ==
    /\ reply = None /\ record = None /\ line = None /\ ~cut /\ received = 0
    /\ anchor = None /\ size = earlier /\ head = None

\* Memory and journal hold the record of the request or nothing, and nothing of one
\* that is not accepted; the log has the entry whenever they say it will.
LogHolds ==
    /\ record \in {None, NewRecord}
    /\ line \in {None, Wire!RecordView(NewRecord)}
    /\ cut => line # None
    /\ record # None \/ line # None => Accepted
    /\ line # None => Journaled
    /\ record # None /\ Journaled => line # None
    /\ size \in {0, earlier, earlier + 1, earlier + 2}
    /\ record # None \/ (line # None /\ ~cut) => size \in {earlier + 1, earlier + 2}

\* What was answered last: the receipt of the record in memory, a refusal, or the
\* error of a write that failed.
ReplyHolds ==
    \/ reply = None
    \/ /\ record # None
       /\ \E code \in {200, 201} :
             /\ reply = Answer(code, Wire!ReceiptView(ReceiptOf(NewRecord), Published))
             /\ code = 201 => ~cut
    \/ ~Accepted /\ \E code \in {400, 401} : reply = Answer(code, None)
    \/ Accepted /\ reply = Answer(500, None)
    \/ reply = Answer(404, None)

\* The record of the TSA is of a submission of some size, and of what had arrived.
AnchorHolds ==
    anchor # None =>
        /\ stage = "answered"
        /\ \E n \in Nat :
              \/ ended = "failed" /\ anchor = Tsa!Degraded(Submitted(n), Now)
              \/ /\ ended = "closed"
                 /\ anchor = Tsa!RecordOf(Submitted(n), Now,
                                 Tsa!BodyOf(AnswerHead, SubSeq(Stream, 1, received)))

\* The head that was read is the one there still is.
HeadHolds == head # None => stage = "answered" /\ head = HeadBody

IInv ==
    /\ CaseHolds
    /\ stage \in {"request", "submitting", "answered"}
    /\ stage = "request" => NothingYet
    /\ LogHolds /\ ReplyHolds
    /\ received \in 0..Len(Stream)
    /\ AnchorHolds /\ HeadHolds

\* What the assumption says of this case.
LEMMA CaseIs ==
    ASSUME CaseHolds
    PROVE  /\ earlier \in Nat /\ IsPlan(plan)
           /\ request.body # None => IsBody(request.body)
BY CasesAssumption DEF CaseHolds

\* The answer of this case is of some length.
LEMMA StreamIs ==
    ASSUME CaseHolds
    PROVE  Body \in Seq(Byte) /\ Len(Body) \in Nat /\ Len(Stream) \in Nat
<1>1. IsPlan(plan)
  BY CaseIs
<1>2. /\ Body \in Seq(Byte) /\ Len(Body) = 48 + plan.filler + plan.form
  BY <1>1, ResponseIs DEF Body, ResponseOf
<1>3. CASE plan.framing = "chunked"
  <2>1. plan.first \in 1..Len(Body)
    BY <1>1, <1>2, <1>3 DEF IsPlan
  <2>2. Len(Tsa!StreamOf(Body, "chunked", plan.first)) = 6 + Len(Body)
    BY <1>2, <2>1, ChunkedStreamIs
  <2> QED
    BY <1>2, <1>3, <2>2 DEF Stream
<1>4. CASE plan.framing # "chunked"
  <2>1. Len(Tsa!StreamOf(Body, plan.framing, plan.first)) = 1 + Len(Body)
    BY <1>2, <1>4, PlainStreamIs
  <2> QED
    BY <1>2, <2>1 DEF Stream
<1> QED
  BY <1>2, <1>3, <1>4

\* The record an accepted request asks for has the types of one.
LEMMA NewRecordIs ==
    ASSUME CaseHolds, Accepted
    PROVE  NewRecord \in CommitRecord
<1>1. request.body # None /\ Post = Wire!PostOf(request.body) /\ Post # None
  BY DEF Accepted, Post
<1>2. /\ Post.subject \in Text /\ Post.commitment \in Commitment /\ Post.salt_ref \in Nat \cup {None}
  BY <1>1, CaseIs, PostIs
<1>3. earlier \in Nat /\ Now \in Nat
  BY CaseIs DEF Now
<1> QED
  BY <1>2, <1>3 DEF NewRecord, CommitRecord

\* A record is not None: it has none of the fields of one.
LEMMA RecordIsSome == ASSUME NEW r \in CommitRecord PROVE r # None
BY NoneAssumption DEF CommitRecord

\* The line of a record is not None.
LEMMA LineIs ==
    ASSUME NEW r \in CommitRecord
    PROVE  Wire!RecordView(r) # None
<1>1. /\ r.seq \in Nat /\ r.logged_at \in Nat /\ r.subject \in Text
      /\ r.commitment \in Commitment /\ r.salt_ref \in Nat \cup {None}
  BY DEF CommitRecord
<1>2. Wire!Num(r.seq) \in NumValue
  BY <1>1 DEF NumValue, Wire!Num
<1>3. Wire!Str(Wire!TimeText(r.logged_at)) \in TextValue
  BY <1>1, TimeReads DEF TextValue, Wire!Str
<1>4. Wire!Str(r.subject) \in TextValue
  BY <1>1 DEF TextValue, Wire!Str
<1>5. Wire!Str(Wire!HexText(r.commitment)) \in TextValue
  BY <1>1, HexReads DEF TextValue, Wire!Str, Hash
<1>6. Wire!OptionalNum(r.salt_ref) \in NumValue \cup {Wire!Null}
  BY <1>1 DEF NumValue, Wire!OptionalNum, Wire!Num
<1>7. Wire!RecordView(r) \in
          [json : {"object"},
           fields : [seq : NumValue, logged_at : TextValue, subject : TextValue,
                     commitment : TextValue, salt_ref : NumValue \cup {Wire!Null}]]
  BY <1>2, <1>3, <1>4, <1>5, <1>6 DEF Wire!RecordView, Wire!Obj
<1> QED
  BY <1>7, NoneAssumption

\* It holds before the request is read.
LEMMA InvInit == Init => IInv
<1> SUFFICES ASSUME Init PROVE IInv
  OBVIOUS
<1>1. CaseHolds
  BY DEF Init, CaseHolds
<1>2. Len(Stream) \in Nat
  BY <1>1, StreamIs
<1>3. NothingYet /\ stage = "request"
  BY DEF Init, NothingYet
<1>4. LogHolds /\ ReplyHolds
  BY <1>3 DEF NothingYet, LogHolds, ReplyHolds
<1> QED
  BY <1>1, <1>2, <1>3, <1>4 DEF IInv, NothingYet, AnchorHolds, HeadHolds

\* What does not change with the case is the same in the next state.
LEMMA CaseStays ==
    ASSUME UNCHANGED caseVars
    PROVE  /\ earlier' = earlier
           /\ Stream' = Stream /\ AnswerHead' = AnswerHead
           /\ (Accepted' <=> Accepted) /\ (Journaled' <=> Journaled)
           /\ NewRecord' = NewRecord /\ Published' = Published
           /\ ReceiptOf(NewRecord)' = ReceiptOf(NewRecord)
           /\ CaseHolds => CaseHolds'
BY DEF caseVars, Stream, AnswerHead, Body, Accepted, Authorised, Post, Journaled, NewRecord,
       Published, ReceiptOf, SthOver, Operator, config, CaseHolds

\* Memory, journal and size stay what they may be while they do not change.
LEMMA LogStays ==
    ASSUME LogHolds, UNCHANGED caseVars, UNCHANGED <<record, line, cut, size>>
    PROVE  LogHolds'
BY CaseStays DEF LogHolds

\* The last answer stays what it may be while nothing it is of changes.
LEMMA ReplyStays ==
    ASSUME ReplyHolds, UNCHANGED caseVars, UNCHANGED <<reply, record, cut>>
    PROVE  ReplyHolds'
BY CaseStays DEF ReplyHolds, Answer

\* So does the record of the TSA,
LEMMA AnchorStays ==
    ASSUME AnchorHolds, UNCHANGED caseVars, UNCHANGED <<stage, received, ended, anchor>>
    PROVE  AnchorHolds'
BY CaseStays DEF AnchorHolds, Submitted, Now

\* and the body of GET /tree/head.
LEMMA HeadStays ==
    ASSUME UNCHANGED caseVars, UNCHANGED <<record, anchor, size>>
    PROVE  HeadBody' = HeadBody
BY DEF HeadBody, HeadNow, AnchorView, AnchorRecordView, Published, SthOver, Operator, config,
       caseVars

\* The request is refused.
LEMMA RejectKeeps == ASSUME IInv, Reject PROVE IInv'
<1>1. UNCHANGED caseVars /\ UNCHANGED <<record, line, cut, received, ended, anchor, size, head>>
  BY DEF Reject
<1>2. CaseHolds /\ NothingYet /\ LogHolds /\ received \in 0..Len(Stream)
  BY DEF IInv, Reject
<1>3. CaseHolds' /\ Stream' = Stream /\ ~Accepted'
  BY <1>1, <1>2, CaseStays DEF Reject
<1>4. stage' = "answered" /\ \E code \in {400, 401} : reply' = Answer(code, None)
  BY DEF Reject
<1>5. LogHolds' /\ ReplyHolds'
  BY <1>1, <1>2, <1>3, <1>4, LogStays DEF ReplyHolds, Answer
<1> QED
  BY <1>1, <1>2, <1>3, <1>4, <1>5 DEF IInv, NothingYet, AnchorHolds, HeadHolds

\* The request is sequenced.
LEMMA SequenceKeeps == ASSUME IInv, Sequence PROVE IInv'
<1>1. UNCHANGED caseVars /\ UNCHANGED <<cut, received, ended, anchor, head>>
  BY DEF Sequence
<1>2. CaseHolds /\ NothingYet /\ Accepted /\ received \in 0..Len(Stream)
  BY DEF IInv, Sequence
<1>3. CaseHolds' /\ Stream' = Stream
  BY <1>1, <1>2, CaseStays
<1>4. /\ record' = NewRecord
      /\ line' = IF Journaled THEN Wire!RecordView(NewRecord) ELSE None
      /\ reply' = Answer(201, Wire!ReceiptView(ReceiptOf(NewRecord), Published))
      /\ size' = earlier + 1 /\ stage' \in {"submitting", "answered"}
  BY DEF Sequence, AfterAppend
<1>5. NewRecord \in CommitRecord /\ NewRecord # None /\ Wire!RecordView(NewRecord) # None
  BY <1>2, NewRecordIs, LineIs, RecordIsSome
<1>6. LogHolds'
  BY <1>1, <1>2, <1>4, <1>5, CaseStays DEF LogHolds, NothingYet
<1>7. ReplyHolds'
  <2>1. record' # None /\ ~cut'
    BY <1>1, <1>2, <1>4, <1>5 DEF NothingYet
  <2>2. reply' = Answer(201, Wire!ReceiptView(ReceiptOf(NewRecord), Published))'
    BY <1>1, <1>4, CaseStays DEF Answer
  <2> QED
    BY <2>1, <2>2 DEF ReplyHolds
<1> QED
  BY <1>1, <1>2, <1>3, <1>4, <1>6, <1>7 DEF IInv, NothingYet, AnchorHolds, HeadHolds

\* The write of its line fails.
LEMMA AppendFailsKeeps == ASSUME IInv, AppendFails PROVE IInv'
<1>1. UNCHANGED caseVars /\ UNCHANGED <<record, received, ended, anchor, size, head>>
  BY DEF AppendFails
<1>2. CaseHolds /\ NothingYet /\ Accepted /\ Journaled /\ received \in 0..Len(Stream)
  BY DEF IInv, AppendFails
<1>3. CaseHolds' /\ Stream' = Stream
  BY <1>1, <1>2, CaseStays
<1>4. /\ line' \in {None, Wire!RecordView(NewRecord)} /\ (cut' <=> line' # None)
      /\ reply' = Answer(500, None) /\ stage' \in {"submitting", "answered"}
  BY DEF AppendFails, AfterAppend
<1>5. LogHolds'
  BY <1>1, <1>2, <1>4, CaseStays DEF LogHolds, NothingYet
<1>6. ReplyHolds'
  BY <1>1, <1>2, <1>4, CaseStays DEF ReplyHolds, Answer
<1> QED
  BY <1>1, <1>2, <1>3, <1>4, <1>5, <1>6 DEF IInv, NothingYet, AnchorHolds, HeadHolds

\* More of the answer arrives.
LEMMA ReceiveKeeps == ASSUME IInv, Receive PROVE IInv'
<1>1. UNCHANGED caseVars
      /\ UNCHANGED <<stage, reply, record, line, cut, ended, anchor, size, head>>
  BY DEF Receive
<1>2. /\ CaseHolds /\ LogHolds /\ ReplyHolds /\ received \in 0..Len(Stream)
      /\ stage = "submitting" /\ anchor = None /\ head = None
  BY DEF IInv, Receive, AnchorHolds, HeadHolds
<1>3. CaseHolds' /\ Stream' = Stream /\ LogHolds' /\ ReplyHolds'
  BY <1>1, <1>2, CaseStays, LogStays, ReplyStays
<1>4. received' \in 0..Len(Stream)
  BY <1>2, StreamIs DEF Receive
<1> QED
  BY <1>1, <1>2, <1>3, <1>4 DEF IInv, AnchorHolds, HeadHolds

\* The submission ends, with a record.
LEMMA SubmissionKeeps == ASSUME IInv, EndOfAnswer \/ SubmissionFails PROVE IInv'
<1>1. UNCHANGED caseVars /\ UNCHANGED <<reply, record, line, cut, received, size, head>>
  BY DEF EndOfAnswer, SubmissionFails
<1>2. /\ CaseHolds /\ LogHolds /\ ReplyHolds /\ received \in 0..Len(Stream)
      /\ head = None
  BY DEF IInv, EndOfAnswer, SubmissionFails, AnchorHolds, HeadHolds
<1>3. /\ CaseHolds' /\ Stream' = Stream /\ AnswerHead' = AnswerHead
      /\ LogHolds' /\ ReplyHolds'
  BY <1>1, <1>2, CaseStays, LogStays, ReplyStays
<1>4. stage' = "answered"
  BY DEF EndOfAnswer, SubmissionFails
<1>5. size \in Nat
  BY <1>2, CaseIs DEF LogHolds
<1>6. AnchorHolds'
  <2>1. CASE EndOfAnswer
    BY <1>1, <1>3, <1>4, <1>5, <2>1 DEF EndOfAnswer, AnchorHolds, Submitted, Now
  <2>2. CASE SubmissionFails
    BY <1>4, <1>5, <2>2 DEF SubmissionFails, AnchorHolds, Submitted, Now
  <2> QED
    BY <2>1, <2>2
<1> QED
  BY <1>1, <1>2, <1>3, <1>4, <1>6 DEF IInv, HeadHolds

\* A head is read.
LEMMA ReadHeadKeeps == ASSUME IInv, ReadHead PROVE IInv'
<1>1. UNCHANGED caseVars
      /\ UNCHANGED <<stage, reply, record, line, cut, received, ended, anchor, size>>
  BY DEF ReadHead
<1>2. /\ CaseHolds /\ LogHolds /\ ReplyHolds /\ AnchorHolds /\ received \in 0..Len(Stream)
      /\ stage = "answered" /\ head' = HeadBody
  BY DEF IInv, ReadHead
<1>3. /\ CaseHolds' /\ Stream' = Stream /\ LogHolds' /\ ReplyHolds' /\ AnchorHolds'
      /\ HeadBody' = HeadBody
  BY <1>1, <1>2, CaseStays, LogStays, ReplyStays, AnchorStays, HeadStays
<1> QED
  BY <1>1, <1>2, <1>3 DEF IInv, HeadHolds

\* A receipt is asked for.
LEMMA GetReceiptKeeps == ASSUME IInv, GetReceipt PROVE IInv'
<1>1. UNCHANGED caseVars
      /\ UNCHANGED <<stage, record, line, cut, received, ended, anchor, size, head>>
  BY DEF GetReceipt
<1>2. /\ CaseHolds /\ LogHolds /\ AnchorHolds /\ HeadHolds /\ received \in 0..Len(Stream)
      /\ stage = "answered"
  BY DEF IInv, GetReceipt
<1>3. /\ CaseHolds' /\ Stream' = Stream /\ LogHolds' /\ AnchorHolds'
      /\ HeadBody' = HeadBody
  BY <1>1, <1>2, CaseStays, LogStays, AnchorStays, HeadStays
<1>4. ReplyHolds'
  <2>1. CASE record = None
    BY <2>1 DEF GetReceipt, ReplyHolds, Answer
  <2>2. CASE record # None
    <3>1. record = NewRecord /\ record' # None
      BY <1>1, <1>2, <2>2 DEF LogHolds
    <3>2. reply' = Answer(200, Wire!ReceiptView(ReceiptOf(NewRecord), Published))
      BY <2>2, <3>1 DEF GetReceipt
    <3>3. reply' = Answer(200, Wire!ReceiptView(ReceiptOf(NewRecord), Published))'
      BY <1>1, <3>2, CaseStays DEF Answer
    <3> QED
      BY <3>1, <3>3 DEF ReplyHolds
  <2> QED
    BY <2>1, <2>2
<1> QED
  BY <1>1, <1>2, <1>3, <1>4 DEF IInv, HeadHolds

\* Somebody else appends.
LEMMA AppendAfterKeeps == ASSUME IInv, AppendAfter PROVE IInv'
<1>1. UNCHANGED caseVars /\ UNCHANGED <<stage, reply, record, line, cut, received, ended, anchor>>
  BY DEF AppendAfter
<1>2. /\ CaseHolds /\ LogHolds /\ ReplyHolds /\ AnchorHolds /\ received \in 0..Len(Stream)
      /\ stage = "answered" /\ size = earlier + 1 /\ size' = size + 1 /\ head' = None
  BY DEF IInv, AppendAfter
<1>3. CaseHolds' /\ Stream' = Stream /\ ReplyHolds' /\ AnchorHolds'
  BY <1>1, <1>2, CaseStays, ReplyStays, AnchorStays
<1>4. size' = earlier + 2
  BY <1>2, CaseIs
<1>5. LogHolds'
  BY <1>1, <1>2, <1>4, CaseStays DEF LogHolds
<1> QED
  BY <1>1, <1>2, <1>3, <1>5 DEF IInv, HeadHolds

\* A restart reads the line back, if there is one.
LEMMA RestartKeeps == ASSUME IInv, Restart PROVE IInv'
<1>1. UNCHANGED caseVars /\ UNCHANGED <<stage, line, cut, received, ended>>
  BY DEF Restart
<1>2. /\ CaseHolds /\ LogHolds /\ received \in 0..Len(Stream) /\ stage = "answered"
      /\ reply' = None /\ anchor' = None /\ head' = None
  BY DEF IInv, Restart
<1>3. CaseHolds' /\ Stream' = Stream /\ ReplyHolds'
  BY <1>1, <1>2, CaseStays DEF ReplyHolds
<1>4. LogHolds'
  <2>1. CASE line = None
    <3>1. record' = None /\ line' = None /\ ~cut' /\ size' \in {0, size}
      BY <1>1, <1>2, <2>1 DEF Restart, LogHolds
    <3> QED
      BY <1>1, <1>2, <3>1, CaseStays DEF LogHolds
  <2>2. CASE line # None
    <3>1. /\ Accepted /\ Journaled /\ line = Wire!RecordView(NewRecord)
          /\ ~cut => size \in {earlier + 1, earlier + 2}
      BY <1>2, <2>2 DEF LogHolds
    <3>2. Wire!RecordFrom(line) = NewRecord
      BY <1>2, <3>1, NewRecordIs, LineReads
    <3>3. record' = NewRecord /\ size' \in {earlier + 1, earlier + 2}
      BY <2>2, <3>1, <3>2 DEF Restart
    <3> QED
      BY <1>1, <1>2, <2>2, <3>1, <3>3, CaseStays DEF LogHolds
  <2> QED
    BY <2>1, <2>2
<1> QED
  BY <1>1, <1>2, <1>3, <1>4 DEF IInv, AnchorHolds, HeadHolds

\* A step that changes nothing keeps it.
LEMMA InvStutter == ASSUME IInv, UNCHANGED vars PROVE IInv'
<1>1. UNCHANGED caseVars
      /\ UNCHANGED <<stage, reply, record, line, cut, received, ended, anchor, size, head>>
  BY DEF vars
<1>2. /\ CaseHolds' /\ Stream' = Stream /\ LogHolds' /\ ReplyHolds' /\ AnchorHolds'
      /\ HeadBody' = HeadBody /\ earlier' = earlier
  BY <1>1, CaseStays, LogStays, ReplyStays, AnchorStays, HeadStays DEF IInv
<1> QED
  BY <1>1, <1>2 DEF IInv, NothingYet, HeadHolds

\* It holds in every reachable state (api.rs commit, tree_head and receipt).
LEMMA Invariant == Spec => []IInv
<1>1. IInv /\ [Next]_vars => IInv'
  BY RejectKeeps, SequenceKeeps, AppendFailsKeeps, ReceiveKeeps, SubmissionKeeps, ReadHeadKeeps,
     GetReceiptKeeps, AppendAfterKeeps, RestartKeeps, InvStutter
     DEF Next
<1> QED
  BY <1>1, InvInit, PTL DEF Spec

------------------------------------------------------------------------------
(* What the invariant gives.                                                 *)

\* In every reachable state the parts of the exchange fit its stage, and a record
\* without a response is one of a TSA that was not reached (api.rs commit, tsa.rs
\* submit_anchor).
THEOREM ExchangeTypeCorrect == Spec => []TypeOK
<1>1. ASSUME IInv PROVE TypeOK
  <2>1. CASE stage = "request"
    BY <1>1, <2>1, StreamIs DEF IInv, NothingYet, TypeOK
  <2>2. CASE stage # "request"
    <3>1. /\ CaseHolds /\ LogHolds /\ ReplyHolds /\ AnchorHolds /\ received \in 0..Len(Stream)
          /\ stage \in {"submitting", "answered"}
      BY <1>1, <2>2 DEF IInv
    <3>2. reply # None => reply.code \in {200, 201, 400, 401, 404, 500}
      BY <3>1 DEF ReplyHolds, Answer
    <3>3. record # None => record.seq = earlier /\ size > earlier /\ (Journaled => line # None)
      BY <3>1, CaseIs DEF LogHolds, NewRecord
    <3>4. cut => line # None
      BY <3>1 DEF LogHolds
    <3>5. anchor # None => /\ anchor.status \in {"anchored", "unreachable"}
                           /\ anchor.status = "unreachable" => anchor.response = None
      <4>1. \A n : /\ Tsa!Degraded(Submitted(n), Now).status = "unreachable"
                   /\ Tsa!Degraded(Submitted(n), Now).response = None
        BY DEF Tsa!Degraded
      <4>2. \A n, body :
               \/ Tsa!RecordOf(Submitted(n), Now, body) = Tsa!Degraded(Submitted(n), Now)
               \/ Tsa!RecordOf(Submitted(n), Now, body).status = "anchored"
        BY DEF Tsa!RecordOf
      <4> QED
        BY <3>1, <4>1, <4>2 DEF AnchorHolds
    <3> QED
      BY <2>2, <3>1, <3>2, <3>3, <3>4, <3>5 DEF TypeOK
  <2> QED
    BY <2>1, <2>2
<1> QED
  BY <1>1, Invariant, PTL

\* Only a due request is ever served or journaled, it is never refused, and one that
\* was answered with a receipt is in memory and on its line, whatever becomes of the
\* write, the process and the submission (api.rs commit, req_str, req_commitment,
\* opt_u64; store.rs append).
THEOREM AnswersAlwaysMatch == Spec => []AnswersMatchTheLog
<1>1. ASSUME IInv PROVE AnswersMatchTheLog
  <2>1. CaseHolds /\ LogHolds /\ ReplyHolds
    BY <1>1 DEF IInv
  <2>2. request.body # None => (Wire!PostOf(request.body) # None <=> WellFormed(request.body))
    BY <2>1, CaseIs, PostIs
  <2>3. Accepted <=> Due
    BY <2>2 DEF Accepted, Post, Due
  <2>4. record # None \/ line # None => Due
    BY <2>1, <2>3 DEF LogHolds
  <2>5. ASSUME reply # None
        PROVE  /\ reply.code \in {200, 201, 500} => Due
               /\ reply.code \in {400, 401} => ~Due
               /\ reply.code = 201 => record # None /\ ~cut
    BY <2>1, <2>3, <2>4, <2>5 DEF ReplyHolds, Answer
  <2>6. record # None /\ Journaled => line # None
    BY <2>1 DEF LogHolds
  <2> QED
    BY <2>4, <2>5, <2>6 DEF AnswersMatchTheLog
<1> QED
  BY <1>1, Invariant, PTL

\* What append writes, replay reads, for every body that is accepted (model.rs
\* to_json and from_json).
THEOREM LinesReadBack == Spec => []JournalReadsBack
<1>1. ASSUME IInv, record # None, Journaled PROVE Wire!RecordFrom(line) = record
  <2>1. CaseHolds /\ LogHolds
    BY <1>1 DEF IInv
  <2>2. Accepted /\ record = NewRecord /\ line = Wire!RecordView(NewRecord)
    BY <1>1, <2>1 DEF LogHolds
  <2> QED
    BY <2>1, <2>2, NewRecordIs, LineReads
<1> QED
  BY <1>1, Invariant, PTL DEF JournalReadsBack

\* A verifier rebuilds from a receipt the head and the path that were signed and
\* the record it names, also after a restart (model.rs Receipt::to_json,
\* sth_from_json, proof_from_json).
THEOREM ReceiptsRebuild == Spec => []ReceiptRebuilds
<1>1. ASSUME IInv, reply # None, reply.code \in {200, 201}
      PROVE  /\ Wire!SthFrom(reply.body.fields["tree_head"]) = ReceiptOf(record).sth
             /\ Wire!ProofFrom(reply.body.fields["inclusion"]) = ReceiptOf(record).inclusion
             /\ Wire!RecordFrom(reply.body) = record
  <2>1. CaseHolds /\ LogHolds /\ ReplyHolds
    BY <1>1 DEF IInv
  <2>2. record # None /\ reply.body = Wire!ReceiptView(ReceiptOf(NewRecord), Published)
    BY <1>1, <2>1 DEF ReplyHolds, Answer
  <2>3. Accepted /\ record = NewRecord
    BY <2>1, <2>2 DEF LogHolds
  <2> QED
    BY <2>1, <2>2, <2>3, NewRecordIs, ReceiptReads
<1> QED
  BY <1>1, Invariant, PTL DEF ReceiptRebuilds

\* A verifier rebuilds from GET /tree/head the head that receipts of that size
\* hold, and no head from an empty log (api.rs tree_head, model.rs sth_from_json).
THEOREM HeadsRebuild == Spec => []HeadRebuilds
<1>1. ASSUME IInv, head # None
      PROVE  IF size = 0 THEN Wire!SthFrom(head) = None ELSE Wire!SthFrom(head) = HeadNow
  <2>1. CaseHolds /\ LogHolds /\ HeadHolds
    BY <1>1 DEF IInv
  <2>2. CASE size = 0
    <3>1. head = Wire!EmptyHeadView(Published)
      BY <1>1, <2>1, <2>2 DEF HeadHolds, HeadBody
    <3>2. Has(head, "root", Wire!Null)
      BY <3>1 DEF Has, Wire!EmptyHeadView, Wire!Obj
    <3>3. Wire!Reads(Wire!AsText(Wire!Get(head, "root")), "hex") = None
      BY <3>2, GetIs DEF Wire!Null, Wire!AsText, Wire!Reads
    <3> QED
      BY <2>2, <3>3 DEF Wire!SthFrom, Wire!Lacking
  <2>3. CASE size # 0
    <3>1. head = Wire!HeadView(HeadNow, AnchorView, Published)
      BY <1>1, <2>1, <2>3 DEF HeadHolds, HeadBody
    <3>2. size \in Nat
      BY <2>1, CaseIs DEF LogHolds
    <3>3. record # None => record.commitment \in Commitment
      BY <2>1, NewRecordIs DEF LogHolds, CommitRecord
    <3>4. HeadNow \in SthRecord
      BY <2>1, <3>2, <3>3, SthIs DEF HeadNow
    <3> QED
      BY <2>3, <3>1, <3>4, HeadReads
  <2> QED
    BY <2>2, <2>3
<1> QED
  BY <1>1, Invariant, PTL DEF HeadRebuilds

\* The first digit of a size line is not the beginning of a response.
LEMMA RawNeverVerifies == ~Tsa!VerifyTimestampResponse(<<49>>, Digest)
<1>1. Len(<<49>>) < 2
  OBVIOUS
<1>2. Tsa!DerTlv(<<49>>) = None
  BY <1>1 DEF Tsa!DerTlv
<1> QED
  BY <1>2 DEF Tsa!VerifyTimestampResponse, Tsa!IsSequence

\* The framing of the answer is one that is recognised, or makes no difference.
Recognised == plan.framing = "chunked" => plan.spelling = "usual"

\* What http_post_binary returns is a part of the response, and the whole of it when
\* the whole answer has arrived; of chunks it does not recognise, no response.
LEMMA BodyOfIs ==
    ASSUME CaseHolds, NEW k \in 0..Len(Stream)
    PROVE  LET body == Tsa!BodyOf(AnswerHead, SubSeq(Stream, 1, k))
           IN  /\ \/ body = None
                  \/ ~Recognised /\ body = <<49>>
                  \/ plan.status = 200 /\ \E n \in 0..Len(Body) : body = SubSeq(Body, 1, n)
               /\ k = Len(Stream) /\ plan.status = 200 /\ Recognised => body = Body
<1> DEFINE t == SubSeq(Stream, 1, k)
           rest == Tail(t)
           got == Tsa!BodyOf(AnswerHead, t)
           n == Len(Body)
           l == Len(Stream)
<1>1. IsPlan(plan) /\ Body \in Seq(Byte) /\ n \in Nat /\ l \in Nat
  BY CaseIs, StreamIs
<1>2. /\ Stream \in Seq(Item)
      /\ plan.framing = "chunked" => l = 6 + n
      /\ plan.framing # "chunked" => l = 1 + n
      /\ plan.framing = "chunked" => plan.first \in 1..n
  <2>1. n = 48 + plan.filler + plan.form
    BY <1>1, ResponseIs DEF Body, ResponseOf
  <2>2. CASE plan.framing = "chunked"
    <3>1. plan.first \in 1..n
      BY <1>1, <2>1, <2>2 DEF IsPlan
    <3>2. /\ Tsa!StreamOf(Body, "chunked", plan.first) \in Seq(Item)
          /\ Len(Tsa!StreamOf(Body, "chunked", plan.first)) = 6 + n
      BY <1>1, <3>1, ChunkedStreamIs
    <3> QED
      BY <2>2, <3>1, <3>2 DEF Stream
  <2>3. CASE plan.framing # "chunked"
    <3>1. /\ Tsa!StreamOf(Body, plan.framing, plan.first) \in Seq(Item)
          /\ Len(Tsa!StreamOf(Body, plan.framing, plan.first)) = 1 + n
      BY <1>1, <2>3, PlainStreamIs
    <3> QED
      BY <2>3, <3>1 DEF Stream
  <2> QED
    BY <2>2, <2>3
<1>3. got = IF t = <<>> \/ plan.status # 200 THEN None
            ELSE IF ~Recognised THEN Tsa!RawChunks(rest)
            ELSE IF plan.framing = "chunked" THEN Tsa!Dechunk(rest)
            ELSE IF plan.framing = "length" /\ Len(rest) >= n THEN SubSeq(rest, 1, n)
            ELSE rest
  BY DEF Tsa!BodyOf, AnswerHead, Recognised
<1>4. CASE k = 0
  <2>1. t = <<>>
    BY <1>2, <1>4, PartsJoin
  <2>2. l # 0
    <3> HIDE DEF l, n
    <3> QED
      BY <1>1, <1>2
  <2> QED
    BY <1>3, <1>4, <2>1, <2>2
<1>5. CASE plan.status # 200
  BY <1>3, <1>5
<1>6. CASE k # 0 /\ plan.status = 200 /\ ~Recognised
  <2>1. got \in {None, <<>>, <<49>>}
    BY <1>3, <1>6 DEF Tsa!RawChunks
  <2>2. SubSeq(Body, 1, 0) = <<>> /\ 0 \in 0..Len(Body)
    BY <1>1
  <2>3. \/ got = None
        \/ ~Recognised /\ got = <<49>>
        \/ plan.status = 200 /\ \E j \in 0..Len(Body) : got = SubSeq(Body, 1, j)
    <3> HIDE DEF got
    <3> QED
      BY <1>6, <2>1, <2>2
  <2> QED
    BY <1>6, <2>3
<1>7. CASE k # 0 /\ plan.status = 200 /\ Recognised
  <2> DEFINE m == k - 1
  <2>1. k \in 1..l /\ m \in Nat /\ k = 1 + m
    <3>1. k \in 0..l
      OBVIOUS
    <3> HIDE DEF l
    <3> QED
      BY <1>1, <1>7, <3>1
  <2>2. t # <<>> /\ rest \in Seq(Item) /\ Len(rest) = m /\ Agree(rest, 0, Stream, 1, m)
    <3>1. Stream \in Seq(Item) /\ k \in 1..Len(Stream)
      BY <1>2, <2>1
    <3> QED
      BY <3>1, RestIs
  <2> HIDE DEF t, rest, got, m, l, n
  <2>3. CASE plan.framing = "chunked"
    <3>1. m <= 5 + n /\ plan.first \in 1..n /\ (k = l <=> m = 5 + n)
      BY <1>1, <1>2, <2>1, <2>3
    <3>2. Agree(rest, 0, Tsa!StreamOf(Body, "chunked", plan.first), 1, m)
      BY <2>2, <2>3 DEF Stream
    <3>3. /\ \/ Tsa!Dechunk(rest) = None
             \/ \E j \in 0..n : Tsa!Dechunk(rest) = SubSeq(Body, 1, j)
          /\ m = 5 + n => Tsa!Dechunk(rest) = Body
      BY <1>1, <2>1, <2>2, <3>1, <3>2, ChunksJoin DEF n
    <3>4. got = Tsa!Dechunk(rest)
      BY <1>3, <1>7, <2>2, <2>3
    <3> QED
      BY <1>7, <3>1, <3>3, <3>4 DEF got, t, l, n
  <2>4. CASE plan.framing # "chunked"
    <3>1. m <= n /\ (k = l <=> m = n) /\ m \in 0..n
      BY <1>1, <1>2, <2>1, <2>4
    <3>2. Agree(rest, 0, Tsa!StreamOf(Body, plan.framing, plan.first), 1, m)
      BY <2>2 DEF Stream
    <3>3. rest = SubSeq(Body, 1, m)
      BY <1>1, <2>1, <2>2, <2>4, <3>1, <3>2, PlainRestIs DEF n
    <3>4. SubSeq(Body, 1, n) = Body
      BY <1>1 DEF n
    <3>5. got = rest
      <4>1. CASE m = n
        BY <1>3, <1>7, <2>2, <2>4, <3>3, <3>4, <4>1
      <4>2. CASE m # n
        <5>1. ~(Len(rest) >= n)
          BY <1>1, <2>1, <2>2, <3>1, <4>2
        <5> QED
          BY <1>3, <1>7, <2>2, <2>4, <5>1
      <4> QED
        BY <4>1, <4>2
    <3>6. got = SubSeq(Body, 1, m) /\ (m = n => got = Body)
      BY <3>3, <3>4, <3>5
    <3> QED
      BY <1>7, <3>1, <3>6 DEF got, t, l, n
  <2> QED
    BY <2>3, <2>4
<1> QED
  BY <1>4, <1>5, <1>6, <1>7

\* What is recorded of an answer: as anchored only the whole of a response for the
\* digest that was submitted, and that one whenever it has arrived.
LEMMA RecordIs ==
    ASSUME IInv, anchor # None
    PROVE  /\ anchor.status \in {"anchored", "unreachable"}
           /\ anchor.status = "anchored" =>
                 plan.status = 200 /\ plan.digest = Digest /\ anchor.response = Body
           /\ anchor.status = "unreachable" => anchor.response = None
           /\ (/\ ended = "closed" /\ received = Len(Stream)
               /\ plan.status = 200 /\ plan.digest = Digest /\ Recognised)
                 => anchor.status = "anchored"
<1> DEFINE got == Tsa!BodyOf(AnswerHead, SubSeq(Stream, 1, received))
           degraded(n) == Tsa!Degraded(Submitted(n), Now)
           kept(n) == Tsa!RecordOf(Submitted(n), Now, got)
           binds == got # None /\ Tsa!VerifyTimestampResponse(got, Digest)
<1>1. /\ CaseHolds /\ received \in 0..Len(Stream)
      /\ \E n \in Nat : \/ ended = "failed" /\ anchor = degraded(n)
                        \/ ended = "closed" /\ anchor = kept(n)
  BY DEF IInv, AnchorHolds
<1>2. IsPlan(plan) /\ Body \in Seq(Byte) /\ Len(Body) \in Nat
  BY <1>1, CaseIs, StreamIs
<1>3. /\ \/ got = None
         \/ ~Recognised /\ got = <<49>>
         \/ plan.status = 200 /\ \E n \in 0..Len(Body) : got = SubSeq(Body, 1, n)
      /\ received = Len(Stream) /\ plan.status = 200 /\ Recognised => got = Body
  BY <1>1, BodyOfIs
<1>4. \A n \in 0..Len(Body) :
          Tsa!VerifyTimestampResponse(SubSeq(Body, 1, n), Digest)
              <=> n = Len(Body) /\ plan.digest = Digest
  BY <1>2, Verifies DEF Body, ResponseOf
<1>5. SubSeq(Body, 1, Len(Body)) = Body /\ Len(Body) \in 0..Len(Body)
  BY <1>2
<1>6. Body # None
  BY <1>2, BytesAreSome
<1> HIDE DEF got
<1>7. binds => plan.status = 200 /\ plan.digest = Digest /\ got = Body
  <2> SUFFICES ASSUME binds PROVE plan.status = 200 /\ plan.digest = Digest /\ got = Body
    OBVIOUS
  <2>1. PICK n \in 0..Len(Body) : plan.status = 200 /\ got = SubSeq(Body, 1, n)
    BY <1>3, RawNeverVerifies
  <2>2. n = Len(Body) /\ plan.digest = Digest
    BY <1>4, <2>1
  <2> QED
    BY <1>5, <2>1, <2>2
<1>8. /\ received = Len(Stream) /\ plan.status = 200 /\ plan.digest = Digest /\ Recognised
      => binds
  BY <1>3, <1>4, <1>5, <1>6
<1>9. \A n : Submitted(n).digest = Digest
  BY DEF Submitted
<1>10. \A n : degraded(n).status = "unreachable" /\ degraded(n).response = None
  BY DEF Tsa!Degraded
<1>11. \A n : /\ binds => kept(n).status = "anchored" /\ kept(n).response = got
              /\ ~binds => kept(n) = degraded(n)
  BY <1>9 DEF Tsa!RecordOf
<1> HIDE DEF kept, degraded, binds
<1> QED
  BY <1>1, <1>7, <1>8, <1>10, <1>11

\* Wherever the TSA's answer is cut, and however it is framed: a submission is
\* recorded as anchored only with the whole response the TSA sent, for the very
\* digest that was submitted (tsa.rs der_tlv, http_post_binary).
THEOREM OnlyWholeAnswersAnchor == Spec => []CutAnswerNeverAnchored
<1>1. ASSUME IInv PROVE CutAnswerNeverAnchored
  BY <1>1, RecordIs DEF CutAnswerNeverAnchored
<1> QED
  BY <1>1, Invariant, PTL

\* An honest answer is always recorded as anchored, in every form of length, and in
\* every framing that is spelled as it is searched for (tsa.rs submit_anchor).
THEOREM WholeAnswersAnchor == Spec => []HonestAnswerAnchored
<1>1. ASSUME IInv PROVE HonestAnswerAnchored
  BY <1>1, RecordIs DEF HonestAnswerAnchored, HonestAnswer, Recognised
<1> QED
  BY <1>1, Invariant, PTL

\* A head that shows an anchor shows it for its own size, and shows the response that
\* the TSA sent: the text decodes to its bytes, whatever their number (tsa.rs base64,
\* api.rs external_anchor_view).
THEOREM ShownAnchorsDecode == Spec => []ShownAnchorDecodes
<1>1. ASSUME IInv, head # None, size > 0, anchor # None, anchor.tree_size = size
      PROVE  LET shown == head.fields["external_anchor"].submission
             IN  /\ shown.tree_size = head.fields["tree_size"].n
                 /\ (shown.status = "anchored") <=> (shown.response # None)
                 /\ shown.status = "anchored" => Decoded(shown.response) = Body
  <2> DEFINE shown == AnchorRecordView(anchor)
  <2>1. CaseHolds /\ HeadHolds /\ Body \in Seq(Byte)
    BY <1>1, StreamIs DEF IInv
  <2>2. head = Wire!HeadView(HeadNow, AnchorView, Published)
    BY <1>1, <2>1 DEF HeadHolds, HeadBody
  <2>3. /\ head.fields["external_anchor"] = AnchorView
        /\ head.fields["tree_size"].n = HeadNow.tree_size
    BY <2>2 DEF Wire!HeadView, Wire!Obj, Wire!Num
  <2>4. AnchorView.submission = shown
    BY <1>1 DEF AnchorView
  <2>5. HeadNow.tree_size = size
    BY DEF HeadNow, SthOver
  <2>6. /\ anchor.status \in {"anchored", "unreachable"}
        /\ anchor.status = "anchored" => anchor.response = Body
        /\ anchor.status = "unreachable" => anchor.response = None
    BY <1>1, RecordIs
  <2>7. /\ shown.tree_size = anchor.tree_size /\ shown.status = anchor.status
        /\ shown.response = IF anchor.response = None THEN None ELSE Tsa!Base64(anchor.response)
    BY DEF AnchorRecordView
  <2>8. Body # None
    BY <2>1, BytesAreSome
  <2>9. Tsa!Base64(Body) # None /\ Decoded(Tsa!Base64(Body)) = Body
    BY <2>1, TextShows, TextDecodes
  <2> HIDE DEF shown
  <2>10. /\ shown.tree_size = size
         /\ (shown.status = "anchored") <=> (shown.response # None)
         /\ shown.status = "anchored" => Decoded(shown.response) = Body
    BY <1>1, <2>6, <2>7, <2>8, <2>9
  <2> QED
    BY <2>3, <2>4, <2>5, <2>10
<1> QED
  BY <1>1, Invariant, PTL DEF ShownAnchorDecodes
==============================================================================
