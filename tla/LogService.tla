------------------------------ MODULE LogService ------------------------------
(***************************************************************************)
(* src/api.rs and src/tsa.rs: the HTTP service around the log store.       *)
(*                                                                         *)
(* Handlers run concurrently.  A POST /commitments handler takes the store *)
(* lock twice: once to append and derive the receipt, and, when a TSA is   *)
(* configured, once more to mint the head it submits; it then awaits the   *)
(* TSA without a lock, stores the outcome in the one `tsa' record, and     *)
(* answers the submitter.  GET /tree/head takes the store lock, then the   *)
(* lock of the record.                                                     *)
(*                                                                         *)
(* A signed head stands for what is signed (size, timestamp, root), and a  *)
(* root for the commitments under it: MerkleTree is where the tree is      *)
(* modelled.  A digest is the head it is the digest of.  Requests that are *)
(* rejected before the first lock (401, 400) change nothing and are left   *)
(* out.                                                                    *)
(***************************************************************************)
EXTENDS Naturals, Sequences

CONSTANTS Payload, Time, Journaled, WriteFaults, Garbled, BadUtf8, MaxEntries,
          Handler,        \* POST /commitments requests being served
          Reader,         \* GET /tree/head requests being served
          TsaConfigured,  \* UNIDPP_LOG_EXTERNAL_TSA_URL is set
          Foreign,        \* a TSA response minted for some other document
          None,           \* no head, no receipt, no record, no response
          Unread          \* a reader that has not read the record yet

VARIABLES status, entries, journal, terminated, acked,  \* the store, see LogStore
          phase,      \* per handler: where in commit it is
          receipt,    \* per handler: the receipt it will answer with
          head,       \* per handler: the head it submits to the TSA
          tsa,        \* AppState.tsa
          submitted,  \* history of this process: heads whose submission was recorded
          view,       \* per reader: the head it serves and the record it read
          released    \* history: the signed heads that were sent to anyone

Store == INSTANCE LogStore

\* The constants are the store's.
ASSUME ServiceAssumption == Store!StoreAssumption

storeVars == <<status, entries, journal, terminated, acked>>
handlerVars == <<phase, receipt, head>>
vars == <<storeVars, handlerVars, tsa, submitted, view, released>>

------------------------------------------------------------------------------
\* Fault: the head of a prefix is stamped with the latest entry's time.
HeadOfLatestTime(log, n) ==
    [size |-> n, timestamp |-> log[Len(log)].logged_at,
     root |-> [i \in 1..n |-> log[i].payload]]

\* current_head and the tree head of Receipt::of: the head over the first n
\* entries of log, at the timestamp of the last of them.
HeadOf(log, n) ==
    [size |-> n, timestamp |-> log[n].logged_at, root |-> [i \in 1..n |-> log[i].payload]]

\* Receipt::of for the last entry of log.
ReceiptOf(log) == [record |-> log[Len(log)], head |-> HeadOf(log, Len(log))]

\* Fault: the head is minted again once the answer is there.
RecordOfCurrent(h, answer) ==
    [tree_size |-> Len(entries),
     digest    |-> HeadOf(entries, Len(entries)),
     response  |-> IF answer = h THEN answer ELSE None]

\* Fault: the size is read again once the answer is there.
RecordOfLateSize(h, answer) ==
    [tree_size |-> Len(entries),
     digest    |-> h,
     response  |-> IF answer = h THEN answer ELSE None]

\* What submit_anchor makes of the TSA's answer: it is kept if it binds to the
\* digest; a foreign one, an error or a timeout is a record without a response.
RecordOf(h, answer) ==
    [tree_size |-> h.size,
     digest    |-> h,
     response  |-> IF answer = h THEN answer ELSE None]

\* What a submission can come back with.
Answers(h) == {head[h], Foreign, None}

------------------------------------------------------------------------------
(* POST /commitments                                                         *)

\* The phase after the append's critical section.
AfterAppend == IF TsaConfigured THEN "mint" ELSE "respond"

\* First lock: append and derive the receipt.
CommitAppend(h, p, t) ==
    /\ phase[h] = "idle"
    /\ Store!AppendEntry(p, t)
    /\ receipt' = [receipt EXCEPT ![h] = ReceiptOf(entries')]
    /\ phase' = [phase EXCEPT ![h] = AfterAppend]
    /\ UNCHANGED <<head, tsa, submitted, view, released>>

\* First lock: the append fails.  The handler still goes on to the anchor.
CommitFails(h, p, t, kind) ==
    /\ phase[h] = "idle"
    /\ Store!AppendFails(p, t, kind)
    /\ phase' = [phase EXCEPT ![h] = AfterAppend]
    /\ UNCHANGED <<receipt, head, tsa, submitted, view, released>>

\* Fault: the receipt is derived under the second lock.
MintHeadRederiving(h) ==
    /\ phase[h] = "mint" /\ entries # <<>>
    /\ phase' = [phase EXCEPT ![h] = "submit"]
    /\ head' = [head EXCEPT ![h] = HeadOf(entries, Len(entries))]
    /\ receipt' = [receipt EXCEPT ![h] = ReceiptOf(entries)]
    /\ UNCHANGED <<storeVars, tsa, submitted, view, released>>

\* Fault: nothing is submitted while another submission is under way.
MintHeadOnce(h) ==
    /\ phase[h] = "mint"
    /\ IF entries = <<>> \/ \E g \in Handler : phase[g] = "submit"
       THEN /\ phase' = [phase EXCEPT ![h] = "respond"]
            /\ UNCHANGED head
       ELSE /\ phase' = [phase EXCEPT ![h] = "submit"]
            /\ head' = [head EXCEPT ![h] = HeadOf(entries, Len(entries))]
    /\ UNCHANGED <<storeVars, receipt, tsa, submitted, view, released>>

\* Fault: an empty log has no head to go on with.
MintHeadNonEmpty(h) ==
    /\ phase[h] = "mint" /\ entries # <<>>
    /\ phase' = [phase EXCEPT ![h] = "submit"]
    /\ head' = [head EXCEPT ![h] = HeadOf(entries, Len(entries))]
    /\ UNCHANGED <<storeVars, receipt, tsa, submitted, view, released>>

\* Second lock: mint the current head, whatever it is by now.
MintHead(h) ==
    /\ phase[h] = "mint"
    /\ IF entries = <<>>
       THEN /\ phase' = [phase EXCEPT ![h] = "respond"]
            /\ UNCHANGED head
       ELSE /\ phase' = [phase EXCEPT ![h] = "submit"]
            /\ head' = [head EXCEPT ![h] = HeadOf(entries, Len(entries))]
    /\ UNCHANGED <<storeVars, receipt, tsa, submitted, view, released>>

\* The TSA answers, for this head or for something else, or the submission
\* fails or times out; the outcome replaces the record.
SubmitDone(h, answer) ==
    /\ phase[h] = "submit"
    /\ tsa' = RecordOf(head[h], answer)
    /\ submitted' = submitted \cup {head[h]}
    /\ phase' = [phase EXCEPT ![h] = "respond"]
    /\ head' = [head EXCEPT ![h] = None]
    /\ UNCHANGED <<storeVars, receipt, view, released>>

\* 201 with the receipt, or 500.
Respond(h) ==
    /\ phase[h] = "respond"
    /\ released' = IF receipt[h] = None THEN released ELSE released \cup {receipt[h].head}
    /\ phase' = [phase EXCEPT ![h] = "idle"]
    /\ receipt' = [receipt EXCEPT ![h] = None]
    /\ UNCHANGED <<storeVars, head, tsa, submitted, view>>

\* The submitter goes away: at the await the handler is dropped, with whatever
\* the TSA answers; afterwards only the response is lost.
Disconnect(h) ==
    /\ phase[h] \in {"submit", "respond"}
    /\ phase' = [phase EXCEPT ![h] = "idle"]
    /\ receipt' = [receipt EXCEPT ![h] = None]
    /\ head' = [head EXCEPT ![h] = None]
    /\ UNCHANGED <<storeVars, tsa, submitted, view, released>>

------------------------------------------------------------------------------
(* Reads                                                                     *)

\* GET /tree/head, under the store lock.  The answer for an empty log carries
\* no head and no record: nothing to model.
ReadHead(q) ==
    /\ status = "up" /\ entries # <<>>
    /\ view[q] # None => view[q].record # Unread
    /\ view' = [view EXCEPT ![q] =
                   [head |-> HeadOf(entries, Len(entries)), record |-> Unread]]
    /\ UNCHANGED <<storeVars, handlerVars, tsa, submitted, released>>

\* external_anchor_view, under the lock of the record; the answer is sent.
ReadRecord(q) ==
    /\ view[q] # None /\ view[q].record = Unread
    /\ view' = [view EXCEPT ![q].record = tsa]
    /\ released' = released \cup {view[q].head}
    /\ UNCHANGED <<storeVars, handlerVars, tsa, submitted>>

\* GET /receipt/{seq}: the head in the receipt of an entry the log has.
ServeReceipt(seq) ==
    /\ status = "up" /\ seq < Len(entries)
    /\ released' = released \cup {HeadOf(entries, seq + 1)}
    /\ UNCHANGED <<storeVars, handlerVars, tsa, submitted, view>>

------------------------------------------------------------------------------
(* The process                                                               *)

\* Everything but the journal and what was sent is gone.
Forget ==
    /\ phase' = [h \in Handler |-> "idle"]
    /\ receipt' = [h \in Handler |-> None]
    /\ head' = [h \in Handler |-> None]
    /\ view' = [q \in Reader |-> None]
    /\ tsa' = None
    /\ submitted' = {}
    /\ UNCHANGED released

\* AppState::new: replay, and no record.
Start == Store!Open /\ UNCHANGED <<handlerVars, tsa, submitted, view, released>>

Stop == Store!Crash /\ Forget

\* The process dies in a handler's critical section.
StopInAppend(h, p, t, kind) ==
    /\ phase[h] = "idle"
    /\ Store!CrashInAppend(p, t, kind)
    /\ Forget

------------------------------------------------------------------------------
Init ==
    /\ Store!Init
    /\ phase = [h \in Handler |-> "idle"]
    /\ receipt = [h \in Handler |-> None]
    /\ head = [h \in Handler |-> None]
    /\ view = [q \in Reader |-> None]
    /\ tsa = None
    /\ submitted = {}
    /\ released = {}

Post(h) ==
    \E p \in Payload, t \in Time :
        \/ CommitAppend(h, p, t)
        \/ \E kind \in WriteFaults \cup {"nothing"} : CommitFails(h, p, t, kind)
        \/ \E kind \in WriteFaults \cup {"full"} : StopInAppend(h, p, t, kind)

Next ==
    \/ \E h \in Handler :
          \/ Post(h) \/ MintHead(h) \/ Respond(h) \/ Disconnect(h)
          \/ \E answer \in Answers(h) : SubmitDone(h, answer)
    \/ \E q \in Reader : ReadHead(q) \/ ReadRecord(q)
    \/ \E seq \in 0..(MaxEntries - 1) : ServeReceipt(seq)
    \/ Start
    \/ Stop

Spec == Init /\ [][Next]_vars

\* What a handler does once its append is over: the executor runs every task,
\* and SUBMIT_TIMEOUT bounds the connect and the read of a submission.
Proceed(h) ==
    \/ MintHead(h)
    \/ \E answer \in Answers(h) : SubmitDone(h, answer)
    \/ Respond(h)

FairSpec == Spec /\ \A h \in Handler : WF_vars(Proceed(h))

------------------------------------------------------------------------------
(* Properties.  Each fails under one of the operators marked `Fault' above,  *)
(* which change a definition the way a bug in the code would.                *)

\* The signed heads and receipts a handler, a reader and the record can hold.
IsHead(x) ==
    /\ DOMAIN x = {"size", "timestamp", "root"}
    /\ x.size \in 1..MaxEntries
    /\ x.timestamp \in Time
    /\ x.root \in [1..x.size -> Payload]

\* The state has its types, and agrees on what a handler holds in each phase.
TypeOK ==
    /\ Store!TypeOK
    /\ phase \in [Handler -> {"idle", "mint", "submit", "respond"}]
    /\ \A h \in Handler :
          /\ receipt[h] # None => phase[h] # "idle" /\ IsHead(receipt[h].head)
          /\ IF phase[h] = "submit" THEN IsHead(head[h]) ELSE head[h] = None
    /\ tsa # None => IsHead(tsa.digest) /\ tsa.digest \in submitted
    /\ \A q \in Reader : view[q] # None => IsHead(view[q].head)
    /\ \A x \in released : IsHead(x)
    /\ status # "up" => tsa = None /\ phase = [h \in Handler |-> "idle"]

\* What the running log signs for the first n entries.
Serves(x) == x.size <= Len(entries) /\ x = HeadOf(entries, x.size)

\* STH pinning (tree.rs, README.md "byte-identical heads and receipts after
\* replay"): every head that was ever sent, in a receipt or by GET /tree/head,
\* before any number of restarts, is the head the running log has for that
\* size, so that a receipt is served again as it was and consistency from a
\* pinned head to the current one holds.
HeadsStayServed == status = "up" => \A x \in released : Serves(x)

\* A receipt that waits behind the TSA is not overtaken by other appends: no
\* two handlers answer with the same number, and each one's head is still what
\* the log serves when it answers (api.rs commit: derived under the first lock).
ReceiptsStand ==
    \A h \in Handler :
        receipt[h] # None =>
            /\ Serves(receipt[h].head)
            /\ receipt[h].record = entries[receipt[h].head.size]
            /\ \A g \in Handler \ {h} :
                  receipt[g] # None => receipt[g].record.seq # receipt[h].record.seq

\* The reader's answer says its head is anchored.
ShownAnchored(v) ==
    /\ v # None /\ v.record \notin {Unread, None}
    /\ v.record.tree_size = v.head.size
    /\ v.record.response # None

\* README.md: a response for any other document never verifies.  Although head
\* and record are read under different locks, an answer that shows its head as
\* anchored carries that very head's digest and a response that binds to it,
\* across restarts that gave the same size to another head.
AnchoredMeansThisHead ==
    \A q \in Reader :
        ShownAnchored(view[q]) =>
            /\ view[q].record.digest = view[q].head
            /\ view[q].record.response = view[q].head

\* Nothing is silently skipped: a submitter that gets its receipt knows that a
\* head which covers its entry was submitted to the TSA, whatever came of it.
EveryAppendCovered ==
    \A h \in Handler :
        (TsaConfigured /\ phase[h] = "respond" /\ receipt[h] # None) =>
            \E x \in submitted : x.size >= receipt[h].head.size

\* The anchor never gates the append: every POST is answered, or its submitter
\* is gone, whatever the TSA does.
EveryPostEnds == \A h \in Handler : phase[h] # "idle" ~> phase[h] = "idle"

\* README.md: "every append's tree head is additionally anchored".  The head is
\* minted under a second lock: an append between the two takes its place.
EveryAppendAnchored ==
    \A h \in Handler :
        (TsaConfigured /\ phase[h] = "respond" /\ receipt[h] # None) =>
            receipt[h].head \in submitted

\* api.rs: the record is "the latest external-anchor submission".  A slow
\* submission of an older head replaces the record of a newer one.
RecordIsLatest ==
    tsa # None => \A x \in submitted : x.size <= tsa.tree_size
==============================================================================
