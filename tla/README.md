# A TLA+ model of unidpp-log

unidpp-log is a transparency log: submitters post commitments, the service
sequences each one into an append-only Merkle log, journals it, and answers with
a signed receipt; anyone can fetch the signed tree head, re-fetch a receipt, and
ask for a proof that a head extends an older one. This directory models the
program's logic in TLA+, checks it with TLC on small instances, and proves with
TLAPS, for all instances, what it promises of the journal, the disk, the service,
its verifiers, several processes, the tree, and what goes over the wire.

## Inventory

| Part | State | Operations | Talks to |
|---|---|---|---|
| Log store (`src/store.rs`) | `entries`, the tree, the journal file | `open` (replay), `append`, reads | the journal file; the tree |
| Merkle tree (`src/tree.rs`) | `levels`, `size` | `append`, `root_at_size`, `inclusion_path`, `consistency_path` | called by the store |
| Receipts and heads (`src/model.rs`) | none, derived from the store | `Receipt::of`, `current_head`, JSON views | store, keyring |
| HTTP service (`src/api.rs`) | `AppState`: a mutex around the store, a mutex around the TSA record | `POST /commitments`, `GET /tree/head`, `GET /tree/consistency`, `GET /receipt/{seq}` | store under its lock, TSA over the network |
| TSA submission (`src/tsa.rs`) | `TsaRecord` | `submit_anchor`, `verify_timestamp_response`, `http_post_binary` | the time-stamping authority |
| Keyring (`src/keyring.rs`) | the operator key, constant | parsing | signatif |
| Entry point, configuration (`src/main.rs`, `src/api.rs`) | none after start | `run`: replay, then bind, then serve | environment, other processes on the same journal |
| Verifier (`README.md`, `tests/integration.rs`) | the head it pinned | fetch a head, fetch a consistency proof | the service, in two requests |

What is hard in it:

- **Crash and restart.** The journal is a text file. `writeln!` on a `File` is
  two writes, the record and its newline; a crash or a full disk can leave either
  out or cut the record anywhere, inside a multi-byte character too. `open`
  tolerates a torn last line, and appends behind it without cutting or ending it.
- **Power failure.** `flush` on a `File` does nothing and nothing is synced: an
  acknowledged record is in the page cache until the kernel writes it back.
- **Several processes.** No lock is taken on the journal, the replay comes before
  the bind that would fail, and each append is two writes: a restart that overlaps
  the old process can serve from a replay that is out of date, and the lines of two
  writers can run into each other.
- **Two requests.** A verifier reads the head and the proof separately; the log can
  grow, restart or lose its tail in between.
- **Two spellings.** What is written as JSON is read back by other code, from other
  lists of fields: journal lines by `replay`, heads and proofs by verifiers, and
  the head is spelled out in two places.
- **Bytes from outside.** The TSA's answer can be chunked, have a length or none,
  spell its headers in more than one way, end early, and use any DER length form.
- **A step that fails.** A journal write that fails does not end the handler: the
  head there already is is minted and submitted before the submitter is told.
- **Concurrency.** Handlers are tasks of a multi-threaded executor. `POST
  /commitments` takes the store lock twice with other handlers in between, then
  awaits the TSA with no lock held. `GET /tree/head` takes two locks one after
  the other. A handler whose client disconnects is dropped at its await.
- **One record for many submissions.** The outcome of every submission replaces
  the same record, in the order in which submissions end.
- **Numeric edges.** The tree's cached levels, folds and paths turn on powers of
  two and on which prefix is asked for.
- **Not persisted.** The TSA record, and every handler, are gone after a restart;
  what was released to clients is not.

What makes each part correct:

- *Store*: an acknowledged record survives; numbers are never reused; replay
  rebuilds what was served; a journal left by the store's own crashes is accepted.
- *Tree*: every cached hash is the RFC 6962 hash of its range; every prefix root,
  inclusion path and consistency path agrees with RFC 6962; old proofs never change.
- *Service*: every head ever released stays the head the log serves for its size;
  receipts held across the await stay distinct and valid; an answer that shows a
  head as anchored binds that head; every append is covered by a submission; every
  request ends.
- *Wire*: only a request that may append and has a body within the limits is sequenced,
  and none such is refused; a failed write is never answered with a receipt; what is
  written reads back; a receipt or a head is enough for a verifier to rebuild what
  was signed.
- *TSA answer*: nothing but a whole response for the submitted digest is recorded
  as an anchor, an honest one whose framing is recognised always is, and it is shown
  byte for byte.
- *Verifier*: no false alarm, no fork accepted, a lost pinned head found out.
- *Processes*: a journal that is accepted holds what any of them acknowledged.

## Modules

| Module | Models | Kind |
|---|---|---|
| `AppendOnlyLog` | what the log promises | abstract specification |
| `LogStore` | `src/store.rs`, journal and replay | state machine |
| `LogStoreProofs` | theorems about `LogStore` | proofs |
| `LogService` | `src/api.rs`, `src/tsa.rs` around one `LogStore` | composition, `Store == INSTANCE LogStore` |
| `LogServiceProofs` | theorems about `LogService`, on those of the store | proofs |
| `MerkleTree` | `src/tree.rs`, levels, append, roots | state machine |
| `MerklePaths` | `src/tree.rs`, paths; RFC 6962 and the verifier | operators and properties over `MerkleTree` |
| `Recursion` | what a recursive function is, and induction over numbers | lemmas, for any recursive definition |
| `MerkleProofs` | theorems about `MerkleTree` and `MerklePaths` | proofs |
| `LogPower` | `LogStore` over a page cache that a power failure drops | state machine, `Store == INSTANCE LogStore` |
| `LogPowerProofs` | theorems about `LogPower`, on those of the store | proofs |
| `LogVerifier` | clients that pin heads, over `LogPower` | composition, `Disk == INSTANCE LogPower` |
| `LogVerifierProofs` | theorems about `LogVerifier`, on those of the disk | proofs |
| `LogProcesses` | `run` in `src/api.rs`: several processes on one journal | state machine, `Store(p) == INSTANCE LogStore`, refinement to one `LogStore` |
| `LogProcessesProofs` | theorems about `LogProcesses` | proofs |
| `Configuration` | the environment, in `src/api.rs` and `src/keyring.rs` | operators |
| `WireViews` | JSON out and in: `src/model.rs`, `src/api.rs` | operators |
| `TsaResponse` | `src/tsa.rs`: framing, DER, binding, base64 | operators |
| `LogExchange` | one POST from its body to the served head, with the three modules above | composition |
| `LogExchangeProofs` | theorems about `LogExchange`, and lemmas about its three modules | proofs |
| `MCLogStore`, `MCLogService`, `MCMerklePaths`, `MCLogVerifier`, `MCLogProcesses`, `MCLogExchange` | small sets for TLC | model checking |

Operators marked `Fault` are not part of the model. Each is a definition changed
the way a plausible bug would change it; put in the place of the definition it
precedes, it makes a property of a passing run fail. `PROJECT.json` pairs them.

### LogStore

`status` says whether the process is up, down, or refused its journal;
`entries` is the in-memory log; `journal` the lines of the file and
`terminated` whether it ends in a newline; `acked` is a history variable, the
records `append` returned `Ok` for.

A line is a whole record, `Garbled`, or `BadUtf8`. That is all replay tells apart:
a whole record parses; a fragment, or anything glued to a line that did not end,
does not parse; a record cut inside a character cannot be read at all. `Write`
adds a line to a terminated file, and glues to the last line of an unterminated
one. `AppendEntry` is `append` that returns `Ok`; `AppendFails` is `append` that
returns `Err`, with whatever the failed write left behind; `CrashInAppend` dies
inside the write or between the write and `apply`; `Crash` dies outside; `Open` is
`open` with its replay, which reaches `up` or `refused`. The caller's lock makes
`append` one step with respect to other threads; the only thing that can be seen
half-way through it is the file, by a later process, and `CrashInAppend` covers
that. Splitting a write in more than the kinds of `WriteFaults` adds nothing:
they are the classes of lines a prefix of the bytes can be.

### LogService

Per handler, `phase` follows `commit`: `idle`, `mint` (appended, has not taken
the second lock), `submit` (at the await), `respond`. `receipt` and `head` are what
the handler holds. `tsa` is `AppState.tsa`; `view` is what a reader of
`GET /tree/head` has read so far. `submitted` (this process) and `released` (for
ever) are history variables. A signed head is the record of what is signed. Its
root is the sequence of commitments under it, which is sound because
`RootsMatchReference` shows that the root is the RFC 6962 hash of the prefix, and,
hashes being taken as collision free, `HeadsBindHistory` proves that no other
sequence of that length has it. A digest is the head itself, for the same reason.
A TSA answer is the head it binds, `Foreign`, or `None` for an error or a timeout;
its bytes are in `TsaResponse`.

Every action is a step of the store, taken under its lock, or none of the store's
concern. That is how the composition is built and no finding about the code; the
lemma `BehavesAsStore` says it once, so that the store's theorems can be used.

Requests refused before the first lock change nothing here; `LogExchange` has them,
and the bodies. `GET /tree/consistency` is in `LogVerifier`.

### MerkleTree and MerklePaths

Hashes are free terms `<<1, c>>` and `<<2, l, r>>`, after the two domain bytes, and
`NoHash`, where the code has no hash to give, is the empty one. `Pow2` is the
code's `1 <<`, a recursive function. `AppendLeaf` is `append` with its loop as a function over the levels that
complete; `RootAtSize` folds peaks as `root_at_size` does. `MerklePaths` has the
three recursions that build paths, the reference `TreeHash`, and verifiers that
recompute roots from a path; each is a recursive function of the ranges or paths it
is called with, so that it can be proved about. The reference and the verifiers stand for the
external `unidpp_signatif` crate, from how `src/` uses it. `Restart` is the new
tree that `open` fills again from the journal.

### LogPower and LogVerifier

`LogPower` adds `images`, the files the disk may hold: the file as it was at the
last write-back and after each write since, the last of them cut anywhere a write
can be cut (the file is only ever appended to, so nothing older is mixed with
anything newer). `PowerFail` picks one of them. `stable` is a history variable, the
acknowledged records that a write-back caught on a line with its newline.

`LogVerifier` puts clients on top. A client pins the head of its own receipt, or
the first it fetches, and from then on takes a head (`FetchHead`) only with the
answer to a second request (`FetchProof`), from the size it pinned; an answer that
leads to another size than the fetched head sends it back to the first request. A
smaller head, a refusal or a proof that does not verify is an alarm. These branches
are a client that does what the README tells verifiers to do; `src/` has no such
client, only tests that fetch both answers one after the other, so `map` marks the
client's actions as external, and only what the service answers is the code's. Everything
the store and the disk may do goes on in between. The tests' `verify_consistency`
is modelled by the roots it ties together; that the paths really do that, for
every pinned size, is `EveryPinnedHeadVerifies` and `RewritesAreRejected` of
`MerklePaths`.

### LogProcesses and Configuration

Per process: `phase` (`off`, `opened` by its replay, `serving` after its bind), its
`address`, its `log` in memory, and the append under way, `writing`. The file is
shared. An append is three steps, line, newline, `apply`; the newline ends whatever
line is last by then, which glues two lines written at once and leaves an empty
line (`Blank`, which replay refuses). `ConfigOf` is `Config::from_env`: note that an
address that does not parse falls back to the default, so that two processes meant
for two addresses can meet on one, and that a blank token is a token while a blank
TSA URL is none. `Usable` is whether a key can be derived at all.

The case that matters: the new process replays, the old one appends and dies, the
new one binds and serves without that record, and gives its number again. The
journal then has two lines of one number, and the next start refuses it. That is
why `StepsOfOneStore` (together the processes are one `LogStore`) is stated only
until `overlapped`, and why `AcceptedJournalHoldsAcked` says "accepted": the check
of `replay` that numbers are consecutive turns the damage into a refusal.

### WireViews, TsaResponse and LogExchange

A JSON value is a record with its type. Texts are not spelled out: a text is a name
in a notation (plain, a hash in hex, a time, hex digits) with its length in bytes and whether
it has whitespace around it, which is all `trim`, the limit of 512, `from_hex` and
`parse` look at. The limit counts bytes, here as in the code; see "Disagreements".
Each `...View` is a function that writes JSON, each `...From` one that reads it.

`TsaResponse` works on sequences of bytes. An HTTP answer is a marker for its head,
bytes, and for chunked answers markers for size lines and chunk ends; it can be cut
before any of them. `BodyOf` is the rest of `http_post_binary`. It finds chunks by
searching the headers, in any letter case, for `transfer-encoding: chunked` with its
one space; HTTP allows none or several, and this is what the answer's `spelling`
says. Chunks that are not recognised are taken for the body, size lines included
(`RawChunks`); the first byte is then a digit, which opens no DER sequence. A
`Content-Length` is recognised in every spelling that HTTP allows. `DerTlv` and
`VerifyTimestampResponse` are translated byte for byte, `Base64` in six-bit values.
`BigEndian` (for `from_be_bytes` of up to four bytes) and `Dechunk` (a loop in the code)
are recursive functions, of how many bytes are read and of how many items are left.
`TimeStampResp` and `StreamOf` stand for the authority, which may use any framing,
length form and size of token.

`LogExchange` follows one POST: `Reject`, `Sequence`, or `AppendFails`, which leaves
nothing in the file or the line without its newline (`cut`) and, where there is a
head, goes on to submit that one before the answer 500. Then `Receive` byte by byte until
`EndOfAnswer` or `SubmissionFails`, then `ReadHead`, `GetReceipt`, an append of
somebody else, and `Restart`: `open` with its replay of the line, a cut one included, and
`AppState::new` with no TSA record. With `state_file` `none` there is no line, no write
that can fail, and a restart starts empty. Shorter fragments of a line read as no
record, and what an append behind one does is `LogStore`'s subject. `Cases` are the requests, environments,
logs and answers it may start from, `Commitment` and `Name` what the texts of requests
stand for, and `IsBody` and `IsPlan` say what any case may hold. A TSA that sends everything and
leaves the connection open is a read timeout, and a degraded record, by
`SubmissionFails`: the promise of `HonestAnswerAnchored` is for one that closes it.

## Runs

| Run | Shows |
|---|---|
| `store_clean` | with whole writes, the store implements `AppendOnlyLog`, loses nothing acknowledged, and serves again after every crash |
| `store_torn` | with every kind of cut, what still holds; see below |
| `store_reuse` | **violation**: an acknowledged number is used again |
| `store_utf8` | **violation**: a cut inside a character stops the service from starting |
| `service_clean` | released heads and held receipts stand, over concurrency, failed writes, disconnects and restarts |
| `service_anchor` | anchored answers bind their head; every append is covered by a submission; every POST ends |
| `service_every` | **violation**: an append's own head is never submitted |
| `service_latest` | **violation**: an older submission replaces a newer record |
| `merkle_paths` | levels, roots and paths of every tree of up to eight entries; a proof verifies from no rewritten history |
| `verifier` | pinning clients over growth, failed writes, crashes and power failures: no false alarm, no fork, losses found out, no falling behind; what was written back stays |
| `processes` | two processes on one journal: an accepted journal holds what was acknowledged; one store until a stale process serves |
| `wire` | every kind of body, and every form, framing and cut of the TSA's answer, from the POST to the journal line or its failed write, restarts with and without a journal, and the served head and receipt |

The violations of the store come from `open` appending to the file as the crash
left it, and from `replay` reading it as text. Cut, restart, append (glued to the
torn line, acknowledged), restart (that line is dropped as a torn tail), append:
two acknowledged records with one number. `AckedDurableUnlessSpliced` says that gluing
is the only way to lose an acknowledged record.

The violations of the service need two handlers between two locks. They
contradict a sentence of the README or a comment and leave the passing properties
intact: a wrong anchor is never shown, but an anchor that exists may not be.

### Disagreements

These are in the model too, but no run is about them. Each is one step or two of the
code against one of its texts, and the passing properties are stated so that they do
not claim what the code does not do.

- *A torn line does not stay the final one* (`src/store.rs:10-11`). With one more
  append before the second restart of `store_reuse`, or two appends after a write that
  failed while the process lived on, it is in the middle of the file, and the next
  start is refused. `HoleFree` excludes this from the store's properties.
- *A subject has at most 512 characters* (the error text at `src/api.rs:274`). The code
  compares bytes: 300 characters of two bytes each are refused. `WellFormed` has the
  limit of the code, so `AnswersMatchTheLog` says of the error text only that no
  longer subject gets in, not that every shorter one does.
- *The outcome of a submission is stored* (`src/api.rs:299-301`, and "never silently
  skipped" at 47). A submitter that disconnects while its handler awaits the TSA takes
  the submission with it (`Disconnect`). `EveryAppendCovered` is about the others.
- *A record of another size anchors an earlier head* (`src/api.rs:382`). The record is
  read after the store's lock was let go and may be of a later head; the sizes are
  compared for being different only. `AnchoredMeansThisHead` is about equal ones.
- *The tree head is byte-identical across restarts* (`src/api.rs:327-328`). What is
  signed in it is (`HeadsStayServed`); `external_anchor` says `not-configured` of a
  configured TSA until the first submission after a start is over.
- *An answer in chunks is joined* (`src/tsa.rs:249`). It is if its header is spelled
  with exactly one space after the colon; otherwise an honest answer is recorded as
  unreachable, which is the exception in `HonestAnswerAnchored`.

### Bounds

- `MaxEntries = 3` in the store runs: record 0 can be whole, 1 torn and 2 glued or
  below it, which is each of the positions replay tells apart (before the last
  line, the last line, none). Two payloads and two clock readings make any two
  records of one number differ; more of them only rename states.
- Liveness is checked without symmetry, in `store_clean`, `service_anchor` and
  `verifier`.
- `service_clean` has two handlers, three entries and two clock readings;
  `service_anchor` two handlers, one reader, two entries and torn writes, so
  that one size is given to two different heads by way of a torn journal. Two
  handlers are enough for every pair of critical sections to interleave; a third
  only repeats a pair.
- `merkle_paths` covers all sequences of two commitments up to eight entries:
  every pattern of complete and incomplete subtrees over four levels, every
  prefix, leaf and pair of sizes.
- `verifier` has one client, which is enough because clients share nothing and do
  not change the log; three entries (a pinned one, one that comes in between, one
  that replaces a lost one), two payloads so that a replacement can be another
  commitment, torn writes, and at most two faults (`MaxFaults`): the first loses
  something, the second comes while the client is between its requests or loses it
  again. The bound on faults is also what makes "once the faults end" true in the
  liveness properties.
- `processes` has two processes, two payloads, and at most three entries in memory
  and six lines (`2 * MaxEntries`): two writers' lines, newlines and a start in any
  order.
  Environments: the default address, one that does not parse, another, and a suite
  without keys.
- `wire` has every combination of nine subjects (absent, null, a number, empty,
  blank, 1, 512, padded 512 and 513 bytes), four commitments and six salt
  references, with and without the token, after no and three entries; and, for one
  good body, answers whose outer content has 46, 127, 128, 255 and 256 bytes in
  length forms that hold them, close-delimited, with a length, and chunked at two
  places, one of them under the other spelling too, cut after every byte; a foreign digest, an error
  status, and three URLs that are not dialled. Every journaled case may have its
  write fail; one environment has no journal; and the TSA is also there on an empty log, where
  a failed write leaves nothing to submit.
- `store_torn` uses symmetry over payloads and `service_clean` over handlers; their
  properties are safety properties and name none of them.

### Fairness

`store_clean`: weak fairness of `Open`, a supervisor that starts the service
again. `service_anchor`: weak fairness of what a handler does once its append is
over. The executor polls every task that is ready, a mutex is held for a bounded
section, and `SUBMIT_TIMEOUT` bounds both the connect and the read of a
submission, so the await ends. `verifier`: weak fairness of `Open`, and of each
client's two requests (clients poll); none of write-back. No fairness is assumed for arrivals, the answers of
the TSA, crashes or disconnects.

## Proofs

`LogStoreProofs` proves, for every set of payloads and clock readings, any bound
and any set of write faults:

- `TypeCorrect`: `TypeOK` always holds, with or without a journal.
- with a journal, `AckedSurvive` (`AckedDurableUnlessSpliced`), `ReplayCannotDrift`
  (`LiveMatchesReplay`) and `TornTailAccepted` (`TornTailTolerated`);
- with a journal and no write cut part-way, `AckedNeverLost` (`AckedDurable`) and
  `StoreImplementsLog` (`ImplementsAppendOnlyLog`).

None of the properties is inductive. `AckedDurableUnlessSpliced` says where an
acknowledged record is, not that a later write leaves it alone. `IInv` adds, for a
journal without a hole (`HoleFree`): every record is on the line of its number
(`NumberedLines`); the running process has applied every *settled* line, one
that ends in a newline, and at most a whole last line beyond them
(`LiveSettled`); and acknowledged records are on settled lines (`AckedSettled`),
which no write touches. A step never makes a journal with a hole free of it again
(`WriteSettles`), so the antecedent can be carried backwards. A process may serve
a record from an unterminated last line, which a later torn write can still
destroy: that is why `LiveSettled` says nothing of that line, and why the
acknowledged records must be on settled ones. The refinement maps the abstract
log to `Replayed(journal)`; with whole lines (`WholeLines`) replay leaves nothing
out, a write of a whole line is `Sequence`, acknowledged or not, and every other
step stutters. The assumption on the constants, `StoreAssumption`, only says that
the two damaged lines are not records and names the kinds of cut.

`LogServiceProofs` proves about `LogService`, for any number of handlers and
readers:

- `ServiceKeepsAcked`: what the store promises of acknowledged records
  (`AckedSurvive`) it promises under the service, by the lemma `BehavesAsStore`;
- `ServiceTypeCorrect`, `ReceiptsAlwaysStand` (`ReceiptsStand`), `AnchoredIsThisHead`
  (`AnchoredMeansThisHead`) and `AppendsAreCovered` (`EveryAppendCovered`);
- with a journal and no write cut part-way, `HeadsAlwaysServed` (`HeadsStayServed`).

The inductive invariant is the store's types and bound with `Holds`: what a handler
and a reader hold agrees with their phases, held heads and entries are of the
running log, each number is held once, and the record of the TSA is of a submitted head. For `HeadsAlwaysServed`,
`ReleasedStay` says of every released head that the journal's whole lines begin
with what it signed.

`LogPowerProofs` proves `PowerTypeCorrect`, and `WrittenBackIsServed`
(`WrittenBackServed`), under every kind of cut, in the file or in what of it reaches
the disk. The store's invariant is about one file; here it has to hold of every file
that a power failure may leave, because any of them can become the journal:
`StableOnImages` says it of each, and `LiveRecords` what a running process then serves.

`LogVerifierProofs` proves about any number of clients and faults that
`WrittenBackServed` carries over from the disk, `VerifierTypeCorrect`,
`AcceptedHeadsChain` (`AcceptedHeadsFormChain`), and `AlarmsAlwaysTrue`, that no step
raises a false alarm (`AlarmsAreTrue`). The invariant says that every head a client
accepted is the beginning of the pinned one (`PinsExtend`); it mentions neither log
nor disk, so no loss can break it: that a fork is not accepted depends on what the
client compares, never on what the service remembers.

`LogProcessesProofs` proves about any number of processes on one journal
`ProcessesTypeCorrect`, `AcceptedJournalIsComplete` (`AcceptedJournalHoldsAcked`) and
`ApartAreOneStore` (`StepsOfOneStore`), the last where `WriteFaults` includes a
line without its newline, since that is what an append between its two writes is.
That an accepted journal is complete rests on counting newlines (`Accounted`): when two
lines run into one another, a newline is left over, and sooner or later it makes
an empty line, which replay refuses; if no append was cut, none is left over and
there is no empty line, then every line is whole. `Apart` says that, before a stale
process serves, all who serve hold one log and who writes serves alone.

`MerkleProofs` proves all six properties of `merkle_paths`, for logs of any
size. The inductive invariant `Layout` gives the levels outright: level k is the
sequence of RFC 6962 hashes of the complete ranges of 2^k commitments, and the size is
below 2 to the number of levels. Everything after that is about functions: the
cached subtree hash of an aligned range is the reference's (`RootsAreReference`), so
each path the program builds is the reference's path, whose shape does not depend
on what was appended later (`ReceiptsStay`), and which leads to the root
(`ReceiptsVerify`, `PinnedHeadsVerify`). `RewritesFail` needs more: that whatever the
consistency verifier computes for the pinned side is the pinned root only if it is the hash of
the old entries (`Shows`), and that such hashes differ when the entries do
(`HashBinds`), which is where hashes being free terms is used.

Three more theorems there say what no path can show. TLC cannot check them, since
they speak of any path at all, of any length and content, where the runs have those
that the log serves:

- `ReceiptsAreOfEntries`: a path that leads to the root of a prefix starts at one of
  its commitments (`PathFromEntry`; a leaf's hash is no node's, by their domain
  bytes);
- `ForksNeverVerify`: a consistency path, whatever it is, joins the current head only
  to sizes the log had and to the roots it had at them, so a fork is found out
  whatever the service answers. By induction on the length of the path
  (`AnyPathAgrees`): if the new side of what the verifier computes is the hash of a range,
  the old side is the hash of its beginning;
- `HeadsBindHistory`: the root of a prefix is the root of no other sequence of as many
  commitments.

`LogExchangeProofs` proves all the properties of `wire`, for any request body, any
usable environment, a log of any length, and any answer of an authority:

- `ExchangeTypeCorrect` (`TypeOK`);
- `AnswersAlwaysMatch` (`AnswersMatchTheLog`): only a due request is ever served or
  in the journal, a due one is never refused, and one that is answered with a receipt
  is in memory and on its line; by going through what each parser makes of each type
  of JSON value (`PostIs`), and from the invariant through failed writes, submissions
  and restarts;
- `LinesReadBack` (`JournalReadsBack`), `ReceiptsRebuild` (`ReceiptRebuilds`) and
  `HeadsRebuild` (`HeadRebuilds`): each writer is followed by its reader, down to
  signatures in hex (`HexDecodes`) and inclusion paths of any length (`ProofReads`);
- `OnlyWholeAnswersAnchor` (`CutAnswerNeverAnchored`) and `WholeAnswersAnchor`
  (`HonestAnswerAnchored`), wherever the answer is cut, the latter in every framing
  that is recognised;
- `ShownAnchorsDecode` (`ShownAnchorDecodes`), for responses of any length
  (`TextDecodes`).

The inductive invariant says of every stage what has been derived from what: the
record in memory and the line, cut or not, are those of the one request
(`LogHolds`), also after a restart, which is where reading back is used; a reply is
one that the request, the write or the log as it is now gives (`ReplyHolds`); the record of the TSA is what
`EndOfAnswer` or `SubmissionFails` makes of the part that has arrived (`AnchorHolds`);
a head is the view of the present log (`HeadHolds`). The rest is about functions. The
bytes that any cut leaves are a beginning of the response (`BodyOfIs`), or begin with a digit and pass nothing (`RawNeverVerifies`); for chunks by
induction along the three places where the two chunks begin and end (`ChunksJoin`); of these only the
whole response passes `DerTlv` (`ResponseReads`), because its outer length is its own; and a whole
one carries the digest it was made for (`Verifies`). What is assumed of a case is that the
lengths of a response fit the forms they are written in, that a first chunk is a
part of the body and not empty, and that a response made for another digest does not hold the submitted
one by chance.

`Recursion` supports the last two. TLA+ defines a recursive function by CHOOSE, and the
library's theorems that such a function satisfies its equation, and those on
induction, take operators as parameters, which the provers at hand cannot
instantiate. The module states both for parameters that are CONSTANTS (the domain, a
measure that recursive calls make smaller, the equation), and `MerkleProofs` and
`LogExchangeProofs` take an instance per recursion; inductions are over the set of
numbers for which a statement holds.

The assumptions on constants are named in the modules that declare them and are
evaluated in every run: bounds are numbers, damaged lines are no records, `None`
is no record, head, text, value or process state, and cases are as above.

Only model-checked: the liveness properties (`ServesAgain`, `EveryPostEnds`,
`LossIsFoundOut`, `ClientsCatchUp`), which with fairness and ENABLED are out of the
prover's reach.

## Not modelled

The discovery document and the health check (constant text), the spelling of
responses, errors, URLs and of the request to the TSA, logging. Keys, signing,
hashing, hex and time parsing belong to the external signatif crate and appear
through how they are used. `retry_at` is a hint that nothing in the service acts upon,
so no property is about it. A panic under the store lock poisons it
for every later request; the only one there is, a receipt that cannot be signed,
cannot happen with a key that `Operator::from_config` could derive. Disks that
reorder writes within a file are left out of `LogPower`.

## Plan

Modelling is complete as far as the code has state or decisions, and every safety
property and action property that a passing run checks is proved. What could be added is an authority
that cuts its answer into any number of chunks (the model has two, which is each
kind of boundary), for which `ChunksJoin` would be an induction over the chunks.
