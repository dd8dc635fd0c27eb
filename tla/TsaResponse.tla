------------------------------ MODULE TsaResponse ------------------------------
(***************************************************************************)
(* src/tsa.rs: what submit_anchor makes of the bytes a time-stamping       *)
(* authority sends: the framing of the HTTP answer, the DER of the         *)
(* TimeStampResp, the search for the digest, and the record that is kept.  *)
(*                                                                         *)
(* Bodies are sequences of bytes.  The stream of an answer is a sequence   *)
(* of Headers (the status line and the headers with their terminator), bytes, *)
(* and, when chunked, ChunkSize(n) for a whole size line and Eol for the   *)
(* end of a chunk.  A stream cut inside one of these reads like one cut    *)
(* before it: no terminator is found, or what is left is not looked at.    *)
(***************************************************************************)
EXTENDS Integers, Sequences

CONSTANTS Nothing,  \* Rust's None, and the Err of submit_anchor's callees
          Headers,  \* the head of the answer
          Eol       \* the end of a chunk

ChunkSize(n) == [chunk |-> n]

------------------------------------------------------------------------------
(* DER.                                                                      *)

\* Big-endian, as from_be_bytes.
BigEndian(bytes) ==
    LET value[n \in Nat] == IF n = 0 THEN 0 ELSE 256 * value[n - 1] + bytes[n]
    IN  value[Len(bytes)]

\* Fault: a short value is taken for what is there of it.
DerTlvLenient(bytes) ==
    LET extra   == IF bytes[2] < 128 THEN 0 ELSE bytes[2] - 128
        header  == 2 + extra
        content == IF extra = 0 THEN bytes[2] ELSE BigEndian(SubSeq(bytes, 3, header))
        end     == IF header + content > Len(bytes) THEN Len(bytes) ELSE header + content
    IN  IF Len(bytes) < 2 \/ extra \notin 0..4 THEN Nothing
        ELSE IF bytes[2] = 128 \/ Len(bytes) < header THEN Nothing
        ELSE [tag |-> bytes[1], value |-> SubSeq(bytes, header + 1, end), raw_len |-> end]

\* Fault: a length of 128 is taken for the short form.
DerTlvShortOnly(bytes) ==
    LET extra   == IF bytes[2] <= 129 THEN 0 ELSE bytes[2] - 128
        header  == 2 + extra
        content == IF extra = 0 THEN bytes[2] ELSE BigEndian(SubSeq(bytes, 3, header))
        end     == header + content
    IN  IF Len(bytes) < 2 \/ extra \notin 0..4 THEN Nothing
        ELSE IF Len(bytes) < header \/ Len(bytes) < end THEN Nothing
        ELSE [tag |-> bytes[1], value |-> SubSeq(bytes, header + 1, end), raw_len |-> end]

\* der_tlv: the value at the head of bytes.  The second byte is its length, or,
\* from 0x81 to 0x84, 0x80 and how many bytes of length follow.
DerTlv(bytes) ==
    LET extra   == IF bytes[2] < 128 THEN 0 ELSE bytes[2] - 128
        header  == 2 + extra
        content == IF extra = 0 THEN bytes[2] ELSE BigEndian(SubSeq(bytes, 3, header))
        end     == header + content
    IN  IF Len(bytes) < 2 \/ extra \notin 0..4 THEN Nothing
        ELSE IF bytes[2] = 128 \/ Len(bytes) < header \/ Len(bytes) < end THEN Nothing
        ELSE [tag |-> bytes[1], value |-> SubSeq(bytes, header + 1, end), raw_len |-> end]

IsSequence(tlv) == tlv # Nothing /\ tlv.tag = 48

\* The digest is there as an OCTET STRING of 32 bytes, at any offset.
Carries(der, digest) ==
    \E offset \in 0..(Len(der) - 34) :
        SubSeq(der, offset + 1, offset + 34) = <<4, 32>> \o digest

\* verify_timestamp_response.
VerifyTimestampResponse(der, digest) ==
    LET top == DerTlv(der)
    IN  IsSequence(top) /\ IsSequence(DerTlv(top.value)) /\ Carries(der, digest)

------------------------------------------------------------------------------
(* HTTP.                                                                     *)

\* The chunks of a body, joined: up to a chunk of size 0, or to where no size
\* line is left.  What is no size line, and a chunk that is not there as a whole,
\* are errors.  joined[left] is what the last `left' items give.
Dechunk(rest) ==
    LET joined[left \in Nat] ==
            LET at   == Len(rest) - left
                line == rest[at + 1]
                end  == at + 1 + line.chunk
                next == IF end < Len(rest) /\ rest[end + 1] = Eol THEN end + 1 ELSE end
                more == joined[Len(rest) - next]
            IN  IF left = 0 THEN <<>>
                ELSE IF line \notin [chunk : Nat] THEN Nothing
                ELSE IF line.chunk = 0 THEN <<>>
                ELSE IF end > Len(rest) \/ more = Nothing THEN Nothing
                ELSE SubSeq(rest, at + 2, end) \o more
    IN  joined[Len(rest)]

\* The body of a chunked answer that is not recognised as one: the size lines are
\* part of it.  It begins with a digit of the first size, which is no SEQUENCE tag
\* (the authority writes no leading zeros); nothing after that is looked at.
RawChunks(rest) == IF rest = <<>> THEN <<>> ELSE <<49>>

\* What http_post_binary returns of the part of an answer that was received when
\* the connection was closed; Nothing for its errors.  Chunks are seen only if their
\* header has the one spelling that is searched for.  A Content-Length is split at its
\* colon and trimmed: in whatever spelling HTTP allows, it is seen.
BodyOf(answer, received) ==
    LET rest == Tail(received)
    IN  IF received = <<>> \/ answer.status # 200 THEN Nothing
        ELSE IF answer.framing = "chunked"
        THEN IF answer.spelling = "usual" THEN Dechunk(rest) ELSE RawChunks(rest)
        ELSE IF answer.framing = "length" /\ Len(rest) >= answer.length
        THEN SubSeq(rest, 1, answer.length)
        ELSE rest

\* parse_http_url: the URLs that a request is made to.
Dialable(url) == url.scheme = "http" /\ url.host # "" /\ url.port # "bad"

------------------------------------------------------------------------------
(* The authority: what RFC 3161 and HTTP let it send.                        *)

\* The bytes of length n: one for a short form, or 0x81 to 0x84 and their bytes.
LengthBytes(n, form) ==
    IF form = 0 THEN <<n>>
    ELSE <<128 + form>> \o [i \in 1..form |-> (n \div 256^(form - i)) % 256]

\* A response that grants digest, with `filler' bytes of token after it, and the
\* length of its outer SEQUENCE in the given form.
TimeStampResp(digest, filler, form) ==
    LET token   == <<2, 1, 1, 4, 32>> \o digest \o [i \in 1..filler |-> 65]
        content == <<48, 3, 2, 1, 0>> \o <<48>> \o LengthBytes(Len(token), 2) \o token
    IN  <<48>> \o LengthBytes(Len(content), form) \o content

\* The stream that carries a body: until the connection is closed, under a
\* Content-Length, or in two chunks of which the first has `first' bytes.
StreamOf(body, framing, first) ==
    IF framing # "chunked" THEN <<Headers>> \o body
    ELSE <<Headers, ChunkSize(first)>> \o SubSeq(body, 1, first)
         \o <<Eol, ChunkSize(Len(body) - first)>> \o SubSeq(body, first + 1, Len(body))
         \o <<Eol, ChunkSize(0)>>

------------------------------------------------------------------------------
(* The record.                                                               *)

RetryAfter == 60

\* Fault: no response is kept as an empty one.
DegradedEmpty(head, now) ==
    [tree_size |-> head.tree_size, digest |-> head.digest, status |-> "unreachable",
     response |-> <<>>, submitted_at |-> now, retry_at |-> now + RetryAfter]

\* degraded.
Degraded(head, now) ==
    [tree_size |-> head.tree_size, digest |-> head.digest, status |-> "unreachable",
     response |-> Nothing, submitted_at |-> now, retry_at |-> now + RetryAfter]

\* The outcome of a submission that returned body: kept if it binds.
RecordOf(head, now, body) ==
    IF body # Nothing /\ VerifyTimestampResponse(body, head.digest)
    THEN [tree_size |-> head.tree_size, digest |-> head.digest, status |-> "anchored",
          response |-> body, submitted_at |-> now, retry_at |-> Nothing]
    ELSE Degraded(head, now)

------------------------------------------------------------------------------
(* Base64, in values of six bits and Pad.                                    *)

Pad == 64

\* Fault: a last group of two bytes is padded like one of one.
Base64Short(bytes) ==
    LET At(i) == IF i <= Len(bytes) THEN bytes[i] ELSE 0
        Triple(c) == 65536 * At(3 * c + 1) + 256 * At(3 * c + 2) + At(3 * c + 3)
    IN  [j \in 1..(4 * ((Len(bytes) + 2) \div 3)) |->
            LET c == (j - 1) \div 4
                k == (j - 1) % 4
            IN  IF k >= 2 /\ 3 * c + 3 > Len(bytes) THEN Pad
                ELSE (Triple(c) \div 64^(3 - k)) % 64]

\* base64: four values for three bytes, the missing ones of the last group zero
\* and shown as padding.
Base64(bytes) ==
    LET At(i) == IF i <= Len(bytes) THEN bytes[i] ELSE 0
        Triple(c) == 65536 * At(3 * c + 1) + 256 * At(3 * c + 2) + At(3 * c + 3)
    IN  [j \in 1..(4 * ((Len(bytes) + 2) \div 3)) |->
            LET c == (j - 1) \div 4
                k == (j - 1) % 4
            IN  IF k >= 2 /\ 3 * c + k > Len(bytes) THEN Pad
                ELSE (Triple(c) \div 64^(3 - k)) % 64]
==============================================================================
