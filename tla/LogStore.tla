------------------------------- MODULE LogStore -------------------------------
(***************************************************************************)
(* src/store.rs: the log store.  `entries' is the in-memory log of a       *)
(* running process, `journal' the JSONL file that outlives it, line by     *)
(* line, and `terminated' tells whether the file ends in a newline (an     *)
(* empty file does).                                                       *)
(*                                                                         *)
(* A line is a CommitRecord when it is one whole JSON record, Garbled when *)
(* it is valid UTF-8 but not one whole record (a record cut short, or      *)
(* whatever was appended to such a line: no continuation closes the brace  *)
(* that the cut left open, and two whole records on a line are rejected as *)
(* trailing characters), and BadUtf8 when a record was cut inside a        *)
(* multi-byte character of its subject: BufRead::lines() fails on it.      *)
(*                                                                         *)
(* The Merkle tree that `apply' grows beside `entries' is a function of    *)
(* `entries' and is left to the modules that need roots.                   *)
(***************************************************************************)
EXTENDS Naturals, Sequences

CONSTANTS Payload,      \* what a submitter posts: subject, commitment, salt_ref
          Time,         \* wall-clock readings (Timestamp::now(), may step back)
          Journaled,    \* UNIDPP_LOG_STATE_FILE is set
          WriteFaults,  \* what an interrupted journal write may leave behind
          Garbled,      \* a line that is not one whole record
          BadUtf8,      \* a line that is not even UTF-8
          MaxEntries    \* bound: entries in memory, and lines in the journal

CommitRecord == [seq : Nat, logged_at : Time, payload : Payload]

Line == CommitRecord \cup {Garbled, BadUtf8}

ASSUME StoreAssumption ==
    /\ Journaled \in BOOLEAN
    /\ WriteFaults \subseteq {"torn", "tornUtf8", "unterminated"}
    /\ Garbled \notin CommitRecord
    /\ BadUtf8 \notin CommitRecord
    /\ Garbled # BadUtf8
    /\ MaxEntries \in Nat

VARIABLES status,      \* "up", "down", or "refused" (open returned an error)
          entries,     \* LogStore.entries
          journal,     \* the lines of the journal file
          terminated,  \* the journal file ends in a newline
          acked        \* history: the records append returned Ok

vars == <<status, entries, journal, terminated, acked>>

------------------------------------------------------------------------------
(* Writing: writeln!(j, "{line}") is one write of the line and one of the    *)
(* newline, on a file opened for append.  "full" is both, "nothing" neither, *)
(* "unterminated" the line without its newline.                              *)

\* The bytes of record r that reach the file.
Piece(r, kind) ==
    CASE kind \in {"full", "unterminated"} -> r
      [] kind = "torn"     -> Garbled
      [] kind = "tornUtf8" -> BadUtf8

\* The last line of the file, once `piece' was appended to it.
Splice(line, piece) == IF BadUtf8 \in {line, piece} THEN BadUtf8 ELSE Garbled

\* The lines of the file, once the bytes of record r were appended to it.
Lines(r, kind) ==
    IF terminated
    THEN Append(journal, Piece(r, kind))
    ELSE [journal EXCEPT ![Len(journal)] = Splice(@, Piece(r, kind))]

\* Append what `kind' says of record r to the file, wherever the file ends.
Write(r, kind) ==
    \/ kind = "nothing" /\ UNCHANGED <<journal, terminated>>
    \/ /\ kind # "nothing"
       /\ journal' = Lines(r, kind)
       /\ terminated' = (kind = "full")

------------------------------------------------------------------------------
(* Replay reads the file line by line, one line ahead.  Each line must parse *)
(* and carry the number of entries so far as its sequence number; only the   *)
(* last line may fail to parse, and is then left out.  A line that cannot be *)
(* read as UTF-8 is a read error wherever it is.                             *)

\* Fault: no torn tail is tolerated.
ReplayOKStrict(lines) ==
    \A i \in 1..Len(lines) : lines[i] \in CommitRecord /\ lines[i].seq = i - 1

\* Fault: numbers are expected from one.
ReplayOKFromOne(lines) ==
    \A i \in 1..Len(lines) :
        \/ lines[i] \in CommitRecord /\ lines[i].seq = i
        \/ lines[i] = Garbled /\ i = Len(lines)

\* Fault: the numbers are not looked at.
ReplayOKAnyNumber(lines) ==
    \A i \in 1..Len(lines) :
        \/ lines[i] \in CommitRecord
        \/ lines[i] = Garbled /\ i = Len(lines)

\* Replay accepts the lines.
ReplayOK(lines) ==
    \A i \in 1..Len(lines) :
        \/ lines[i] \in CommitRecord /\ lines[i].seq = i - 1
        \/ lines[i] = Garbled /\ i = Len(lines)

\* The entries it rebuilds from lines it accepts.
Replayed(lines) ==
    IF lines # <<>> /\ lines[Len(lines)] = Garbled
    THEN SubSeq(lines, 1, Len(lines) - 1)
    ELSE lines

\* Fault: the file is opened for writing and truncated.
OpenTruncating ==
    /\ status # "up" /\ ReplayOK(journal)
    /\ status' = "up" /\ entries' = Replayed(journal)
    /\ journal' = <<>> /\ terminated' = TRUE
    /\ UNCHANGED acked

\* LogStore::open.  The file is opened for append as it is: a torn last line
\* is neither cut off nor ended.
Open ==
    /\ status # "up"
    /\ IF ~Journaled
       THEN status' = "up" /\ entries' = <<>>
       ELSE IF ReplayOK(journal)
            THEN status' = "up" /\ entries' = Replayed(journal)
            ELSE status' = "refused" /\ UNCHANGED entries
    /\ UNCHANGED <<journal, terminated, acked>>

------------------------------------------------------------------------------
(* Appending, under the caller's lock.                                       *)

\* Fault: numbers start from one.
NewRecordFromOne(p, t) == [seq |-> Len(entries) + 1, logged_at |-> t, payload |-> p]

\* The record of the next number.
NewRecord(p, t) == [seq |-> Len(entries), logged_at |-> t, payload |-> p]

\* Bound: there is room for one more entry and one more line.
Room == Len(entries) < MaxEntries /\ Len(journal) < MaxEntries

\* Fault: the outcome of the write is not looked at.
AppendEntryUnchecked(p, t) ==
    LET r == NewRecord(p, t)
    IN  /\ status = "up" /\ Room
        /\ \E kind \in WriteFaults \cup {"full", "nothing"} : Write(r, kind)
        /\ entries' = Append(entries, r)
        /\ acked' = acked \cup {r}
        /\ UNCHANGED status

\* The write, if there is a journal, then apply, then Ok(record).
AppendEntry(p, t) ==
    LET r == NewRecord(p, t)
    IN  /\ status = "up" /\ Room
        /\ IF Journaled THEN Write(r, "full") ELSE UNCHANGED <<journal, terminated>>
        /\ entries' = Append(entries, r)
        /\ acked' = acked \cup {r}
        /\ UNCHANGED status

\* Fault: the record is applied before it is written.
AppendFailsApplied(p, t, kind) ==
    /\ status = "up" /\ Room /\ Journaled
    /\ Write(NewRecord(p, t), kind)
    /\ entries' = Append(entries, NewRecord(p, t))
    /\ UNCHANGED <<status, acked>>

\* The write fails, before its first byte or part-way (a full disk): Err, and
\* nothing is applied.
AppendFails(p, t, kind) ==
    /\ status = "up" /\ Room /\ Journaled
    /\ Write(NewRecord(p, t), kind)
    /\ UNCHANGED <<status, entries, acked>>

\* The process dies in the middle of the write, or between it and apply.
CrashInAppend(p, t, kind) ==
    /\ status = "up" /\ Room /\ Journaled
    /\ Write(NewRecord(p, t), kind)
    /\ status' = "down"
    /\ entries' = <<>>
    /\ UNCHANGED acked

\* The process dies, or is stopped, outside any write.
Crash ==
    /\ status = "up"
    /\ status' = "down"
    /\ entries' = <<>>
    /\ UNCHANGED <<journal, terminated, acked>>

------------------------------------------------------------------------------
Init ==
    /\ status = "down"
    /\ entries = <<>>
    /\ journal = <<>>
    /\ terminated = TRUE
    /\ acked = {}

Next ==
    \/ Open
    \/ Crash
    \/ \E p \in Payload, t \in Time :
          \/ AppendEntry(p, t)
          \/ \E kind \in WriteFaults \cup {"nothing"} : AppendFails(p, t, kind)
          \/ \E kind \in WriteFaults \cup {"full"} : CrashInAppend(p, t, kind)

Spec == Init /\ [][Next]_vars

\* A supervisor starts the process again after it died.
FairSpec == Spec /\ WF_vars(Open)

------------------------------------------------------------------------------
(* Properties.  Each fails under one of the operators marked `Fault' above,  *)
(* which change a definition the way a bug in the code would.                *)

\* The state has its types; a file that does not end in a newline has a last
\* line; only a running process has entries in memory, numbered from 0.
TypeOK ==
    /\ status \in {"up", "down", "refused"}
    /\ entries \in Seq(CommitRecord)
    /\ journal \in Seq(Line)
    /\ terminated \in BOOLEAN
    /\ acked \subseteq CommitRecord
    /\ ~terminated => journal # <<>>
    /\ status # "up" => entries = <<>>
    /\ \A i \in 1..Len(entries) : entries[i].seq = i - 1

\* No line was damaged other than by a cut that is still the end of the file:
\* every line that ends in a newline is a record.
HoleFree ==
    \A i \in 1..Len(journal) :
        journal[i] \in CommitRecord \/ (i = Len(journal) /\ ~terminated)

\* Record r is the line of the journal its sequence number names.
OnDisk(r) == r.seq < Len(journal) /\ journal[r.seq + 1] = r

\* An append that returned Ok survives any crash and replay: its record is in
\* the journal at its own sequence number, so no other record has that number
\* (store.rs append writes before it applies; replay keeps what it reads).
AckedDurable == \A r \in acked : OnDisk(r)

\* The same under torn writes, for as long as nothing was appended to a torn
\* line: open leaves a torn tail in the file, and the append that follows it
\* is the only way an acknowledged record is ever lost.
AckedDurableUnlessSpliced == HoleFree => AckedDurable

\* Replays cannot drift from live behaviour (store.rs apply): were the running
\* process to stop now, replay would rebuild exactly the entries it serves,
\* unless a failed write left the file unterminated or damaged.
LiveMatchesReplay ==
    (status = "up" /\ terminated /\ HoleFree)
        => ReplayOK(journal) /\ Replayed(journal) = entries

\* A file whose only damage is a cut at its end is replayed, whatever history
\* of failed writes, crashes and restarts produced it, if the cut did not fall
\* inside a character (store.rs replay, "a torn tail is tolerated").
TornTailTolerated ==
    (HoleFree /\ \A i \in 1..Len(journal) : journal[i] # BadUtf8) => ReplayOK(journal)

\* README.md: "A torn final journal line (crash mid-write) is tolerated".  It is
\* not when the cut falls inside a character of the subject.
TornTailReplays == HoleFree => ReplayOK(journal)

\* README.md: append "never reuses a number".  It does once an acknowledged
\* record was appended to a torn line and dropped with it by the next replay.
NumbersNeverReused == \A r1, r2 \in acked : r1.seq = r2.seq => r1 = r2

\* A process that died serves again once it is started (store.rs open accepts
\* every journal that its own appends and crashes can leave).
ServesAgain == status = "down" ~> status = "up"

\* The store keeps the log's promises: what a restart would serve is the log.
AOL == INSTANCE AppendOnlyLog WITH log <- Replayed(journal), promised <- acked

ImplementsAppendOnlyLog == AOL!Spec
==============================================================================
