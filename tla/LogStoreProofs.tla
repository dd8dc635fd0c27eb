---------------------------- MODULE LogStoreProofs ----------------------------
(***************************************************************************)
(* What the log store guarantees for every set of payloads and clock       *)
(* readings, every bound and every kind of interrupted write.              *)
(***************************************************************************)
EXTENDS LogStore, SequenceTheorems, TLAPS

------------------------------------------------------------------------------
(* The inductive invariant.                                                  *)

\* The lines of the file that end in a newline.
Settled == IF terminated THEN Len(journal) ELSE Len(journal) - 1

\* Every record is on the line its sequence number names.
NumberedLines ==
    \A i \in 1..Len(journal) : journal[i] \in CommitRecord => journal[i].seq = i - 1

\* A running process has applied every settled line, and beyond them at most a
\* last line that was whole when it replayed it.
LiveSettled ==
    status = "up" => /\ Len(entries) \in {Settled, Len(journal)}
                     /\ \A i \in 1..Settled : entries[i] = journal[i]

\* An acknowledged record is on a settled line: no later write touches it.
AckedSettled == \A r \in acked : r.seq < Settled /\ journal[r.seq + 1] = r

IInv == TypeOK /\ (HoleFree => NumberedLines /\ LiveSettled /\ AckedSettled)

------------------------------------------------------------------------------
(* Lemmas about replaying and writing.                                       *)

\* What replay rebuilds from a journal it accepts is a log numbered from 0.
LEMMA ReplayedIsLog ==
    ASSUME NEW lines \in Seq(Line), ReplayOK(lines)
    PROVE  /\ Replayed(lines) \in Seq(CommitRecord)
           /\ \A i \in 1..Len(Replayed(lines)) : Replayed(lines)[i].seq = i - 1
           /\ \A i \in 1..Len(Replayed(lines)) : Replayed(lines)[i] = lines[i]
           /\ Len(Replayed(lines)) =
                 IF lines # <<>> /\ lines[Len(lines)] = Garbled
                 THEN Len(lines) - 1 ELSE Len(lines)
<1>1. CASE lines # <<>> /\ lines[Len(lines)] = Garbled
  <2>1. Len(lines) \in Nat \ {0}
    BY <1>1
  <2>2. Replayed(lines) = SubSeq(lines, 1, Len(lines) - 1)
    BY <1>1 DEF Replayed
  <2>3. \A i \in 1..(Len(lines) - 1) : lines[i] \in CommitRecord /\ lines[i].seq = i - 1
    BY <1>1, <2>1, StoreAssumption DEF ReplayOK
  <2> DEFINE n == Len(lines) - 1
  <2>4. /\ SubSeq(lines, 1, n) \in Seq(CommitRecord)
        /\ Len(SubSeq(lines, 1, n)) = n
        /\ \A i \in 1..n : SubSeq(lines, 1, n)[i] = lines[i]
    <3>1. n \in Nat /\ \A i \in 1..n : lines[i] \in CommitRecord
      BY <2>1, <2>3
    <3> HIDE DEF n
    <3>2. SubSeq(lines, 1, n) \in Seq(CommitRecord)
      BY <3>1, SubSeqProperties
    <3>3. Len(SubSeq(lines, 1, n)) = n
      BY <3>1, SubSeqProperties
    <3>4. \A i \in 1..n : SubSeq(lines, 1, n)[i] = lines[i]
      BY <3>1, SubSeqProperties
    <3> QED
      BY <3>2, <3>3, <3>4
  <2>5. /\ Replayed(lines) \in Seq(CommitRecord)
        /\ Len(Replayed(lines)) = Len(lines) - 1
        /\ \A i \in 1..(Len(lines) - 1) : Replayed(lines)[i] = lines[i]
    BY <2>1, <2>2, <2>4
  <2> QED
    BY <1>1, <2>3, <2>5
<1>2. CASE ~(lines # <<>> /\ lines[Len(lines)] = Garbled)
  <2>1. Replayed(lines) = lines
    BY <1>2 DEF Replayed
  <2>2. \A i \in 1..Len(lines) : lines[i] \in CommitRecord /\ lines[i].seq = i - 1
    BY <1>2 DEF ReplayOK
  <2>4. lines \in Seq(CommitRecord)
    BY <2>2
  <2> QED
    BY <1>2, <2>1, <2>2, <2>4
<1> QED
  BY <1>1, <1>2

\* The record an append builds is numbered by the entries before it.
LEMMA NewRecordType ==
    ASSUME TypeOK, NEW p \in Payload, NEW t \in Time
    PROVE  NewRecord(p, t) \in CommitRecord /\ NewRecord(p, t).seq = Len(entries)
BY DEF TypeOK, NewRecord, CommitRecord

\* The file a write makes: one more line, or a last line that is no record any
\* more, and the lines before that as they were.
LEMMA LinesEffect ==
    ASSUME TypeOK, NEW r \in CommitRecord,
           NEW kind \in {"full", "torn", "tornUtf8", "unterminated"}
    PROVE  /\ Lines(r, kind) \in Seq(Line)
           /\ Lines(r, kind) # <<>>
           /\ Len(Lines(r, kind)) = IF terminated THEN Len(journal) + 1 ELSE Len(journal)
           /\ \A i \in 1..(Len(Lines(r, kind)) - 1) : Lines(r, kind)[i] = journal[i]
           /\ IF terminated
              THEN Lines(r, kind)[Len(Lines(r, kind))] = Piece(r, kind)
              ELSE Lines(r, kind)[Len(Lines(r, kind))] \notin CommitRecord
<1> DEFINE lines == Lines(r, kind)
<1>1. Piece(r, kind) \in Line
  BY DEF Piece, Line
<1>2. /\ journal \in Seq(Line)
      /\ ~terminated => journal # <<>>
  BY DEF TypeOK
<1>3. CASE terminated
  <2>1. lines = Append(journal, Piece(r, kind))
    BY <1>3 DEF Lines
  <2> HIDE DEF lines
  <2>2. /\ lines \in Seq(Line) /\ lines # <<>> /\ Len(lines) = Len(journal) + 1
        /\ \A i \in 1..(Len(lines) - 1) : lines[i] = journal[i]
        /\ lines[Len(lines)] = Piece(r, kind)
    BY <1>1, <1>2, <2>1
  <2> QED
    BY <1>3, <2>2 DEF lines
<1>4. CASE ~terminated
  <2> DEFINE last == Splice(journal[Len(journal)], Piece(r, kind))
  <2>1. lines = [journal EXCEPT ![Len(journal)] = last]
    BY <1>4 DEF Lines
  <2>2. last \in Line /\ last \notin CommitRecord
    BY StoreAssumption DEF Splice, Line
  <2>3. Len(journal) \in 1..Len(journal)
    BY <1>2, <1>4
  <2> HIDE DEF last, lines
  <2>4. /\ lines \in Seq(Line)
        /\ Len(lines) = Len(journal)
        /\ \A j \in 1..Len(journal) :
              lines[j] = IF j = Len(journal) THEN last ELSE journal[j]
    BY <1>2, <2>1, <2>2, <2>3, ExceptSeq
  <2>5. /\ lines # <<>>
        /\ \A i \in 1..(Len(lines) - 1) : lines[i] = journal[i]
        /\ lines[Len(lines)] \notin CommitRecord
    BY <1>2, <2>2, <2>3, <2>4
  <2> QED
    BY <1>4, <2>4, <2>5 DEF lines
<1> QED
  BY <1>3, <1>4

\* What a write that reaches the file leaves there.
LEMMA WriteEffect ==
    ASSUME TypeOK, NEW r \in CommitRecord,
           NEW kind \in {"full", "torn", "tornUtf8", "unterminated"},
           Write(r, kind)
    PROVE  /\ journal' \in Seq(Line)
           /\ journal' # <<>>
           /\ terminated' = (kind = "full")
           /\ Len(journal') = IF terminated THEN Len(journal) + 1 ELSE Len(journal)
           /\ \A i \in 1..(Len(journal') - 1) : journal'[i] = journal[i]
           /\ IF terminated
              THEN journal'[Len(journal')] = Piece(r, kind)
              ELSE journal'[Len(journal')] \notin CommitRecord
<1>1. journal' = Lines(r, kind) /\ terminated' = (kind = "full")
  BY DEF Write
<1> QED
  BY <1>1, LinesEffect

------------------------------------------------------------------------------
(* Type correctness.                                                         *)

\* The initial state has its types.
LEMMA TypeInit == Init => TypeOK
BY DEF Init, TypeOK

\* Every step keeps the types.
LEMMA TypeNext == TypeOK /\ [Next]_vars => TypeOK'
<1> SUFFICES ASSUME TypeOK, [Next]_vars PROVE TypeOK'
  OBVIOUS
<1>1. CASE Open
  <2>1. CASE ~Journaled
    BY <1>1, <2>1 DEF Open, TypeOK
  <2>2. CASE Journaled /\ ReplayOK(journal)
    <3>1. status' = "up" /\ entries' = Replayed(journal)
      BY <1>1, <2>2 DEF Open
    <3>2. /\ entries' \in Seq(CommitRecord)
          /\ \A i \in 1..Len(entries') : entries'[i].seq = i - 1
      BY <2>2, <3>1, ReplayedIsLog DEF TypeOK
    <3> QED
      BY <1>1, <3>1, <3>2 DEF Open, TypeOK
  <2>3. CASE Journaled /\ ~ReplayOK(journal)
    BY <1>1, <2>3 DEF Open, TypeOK
  <2> QED
    BY <2>1, <2>2, <2>3
<1>2. CASE Crash
  BY <1>2 DEF Crash, TypeOK
<1>3. ASSUME NEW p \in Payload, NEW t \in Time, AppendEntry(p, t)
      PROVE  TypeOK'
  <2> DEFINE r == NewRecord(p, t)
  <2>1. r \in CommitRecord /\ r.seq = Len(entries)
    BY NewRecordType
  <2>2. /\ status' = "up"
        /\ entries' = Append(entries, r)
        /\ acked' = acked \cup {r}
        /\ IF Journaled THEN Write(r, "full") ELSE UNCHANGED <<journal, terminated>>
    BY <1>3 DEF AppendEntry
  <2> HIDE DEF r
  <2>3. /\ journal' \in Seq(Line)
        /\ terminated' \in BOOLEAN
        /\ ~terminated' => journal' # <<>>
    BY <2>1, <2>2, WriteEffect DEF TypeOK
  <2>4. /\ entries' \in Seq(CommitRecord)
        /\ \A i \in 1..Len(entries') : entries'[i].seq = i - 1
    BY <2>1, <2>2 DEF TypeOK
  <2> QED
    BY <2>1, <2>2, <2>3, <2>4 DEF TypeOK
<1>4. ASSUME NEW p \in Payload, NEW t \in Time,
             NEW kind \in WriteFaults \cup {"full", "nothing"},
             Write(NewRecord(p, t), kind),
             \/ UNCHANGED <<status, entries, acked>>
             \/ status' = "down" /\ entries' = <<>> /\ UNCHANGED acked
      PROVE  TypeOK'
  <2>1. NewRecord(p, t) \in CommitRecord
    BY NewRecordType
  <2>2. /\ status' \in {"up", "down", "refused"}
        /\ entries' \in Seq(CommitRecord)
        /\ acked' \subseteq CommitRecord
        /\ status' # "up" => entries' = <<>>
        /\ \A i \in 1..Len(entries') : entries'[i].seq = i - 1
    <3>1. CASE UNCHANGED <<status, entries, acked>>
      BY <3>1 DEF TypeOK
    <3>2. CASE status' = "down" /\ entries' = <<>> /\ UNCHANGED acked
      BY <3>2 DEF TypeOK
    <3> QED
      BY <1>4, <3>1, <3>2
  <2>3. CASE kind = "nothing"
    <3>1. UNCHANGED <<journal, terminated>>
      BY <1>4, <2>3 DEF Write
    <3> QED
      BY <2>2, <3>1 DEF TypeOK
  <2>4. CASE kind # "nothing"
    <3>1. kind \in {"full", "torn", "tornUtf8", "unterminated"}
      BY <2>4, StoreAssumption
    <3>2. /\ journal' \in Seq(Line)
          /\ terminated' \in BOOLEAN
          /\ ~terminated' => journal' # <<>>
      BY <1>4, <2>1, <3>1, WriteEffect
    <3> QED
      BY <2>2, <3>2 DEF TypeOK
  <2> QED
    BY <2>3, <2>4
<1>5. CASE UNCHANGED vars
  BY <1>5 DEF vars, TypeOK
<1> QED
  BY <1>1, <1>2, <1>3, <1>4, <1>5 DEF Next, AppendFails, CrashInAppend

\* In every reachable state the store has its types, and only a running process
\* holds entries, numbered from 0 without a gap (LogStore::open, append).
THEOREM TypeCorrect == Spec => []TypeOK
BY TypeInit, TypeNext, PTL DEF Spec

------------------------------------------------------------------------------
(* The bound of the model.                                                   *)

\* The log and its journal fit the bound that Room sets on appends.
Bounded == Len(entries) <= MaxEntries /\ Len(journal) <= MaxEntries

\* No step leaves it: replay adds no entry to the lines it reads.
LEMMA BoundedNext == TypeOK /\ Bounded /\ [Next]_vars => Bounded'
<1> SUFFICES ASSUME TypeOK, Bounded, [Next]_vars PROVE Bounded'
  OBVIOUS
<1>1. /\ journal \in Seq(Line) /\ entries \in Seq(CommitRecord)
      /\ ~terminated => journal # <<>>
      /\ MaxEntries \in Nat
  BY StoreAssumption DEF TypeOK
<1>2. ASSUME NEW p \in Payload, NEW t \in Time, Room,
             NEW kind \in WriteFaults \cup {"full", "nothing"},
             Write(NewRecord(p, t), kind)
      PROVE  Len(journal') <= MaxEntries
  <2>1. CASE kind = "nothing"
    BY <1>2, <2>1 DEF Write, Bounded
  <2>2. CASE kind # "nothing"
    <3>1. kind \in {"full", "torn", "tornUtf8", "unterminated"}
      BY <2>2, StoreAssumption
    <3>2. NewRecord(p, t) \in CommitRecord
      BY NewRecordType
    <3>3. Len(journal') \in {Len(journal), Len(journal) + 1}
      BY <1>2, <3>1, <3>2, WriteEffect
    <3> QED
      BY <1>1, <1>2, <3>3 DEF Room
  <2> QED
    BY <2>1, <2>2
<1>3. CASE Open
  <2>1. CASE Journaled /\ ReplayOK(journal)
    <3>1. Len(Replayed(journal)) <= Len(journal)
      BY <1>1, <2>1, ReplayedIsLog
    <3>2. entries' = Replayed(journal) /\ journal' = journal
      BY <1>3, <2>1 DEF Open
    <3>3. Replayed(journal) \in Seq(CommitRecord)
      BY <1>1, <2>1, ReplayedIsLog
    <3> QED
      BY <1>1, <3>1, <3>2, <3>3 DEF Bounded
  <2>2. CASE ~(Journaled /\ ReplayOK(journal))
    BY <1>1, <1>3, <2>2 DEF Open, Bounded
  <2> QED
    BY <2>1, <2>2
<1>4. CASE Crash
  BY <1>1, <1>4 DEF Crash, Bounded
<1>5. ASSUME NEW p \in Payload, NEW t \in Time, AppendEntry(p, t)
      PROVE  Bounded'
  <2>1. Room /\ entries' = Append(entries, NewRecord(p, t))
    BY <1>5 DEF AppendEntry
  <2>2. Len(entries') <= MaxEntries
    BY <1>1, <2>1, NewRecordType DEF Room
  <2>3. Len(journal') <= MaxEntries
    BY <1>2, <1>5 DEF AppendEntry, Bounded
  <2> QED
    BY <2>2, <2>3 DEF Bounded
<1>6. ASSUME NEW p \in Payload, NEW t \in Time, NEW kind \in WriteFaults \cup {"nothing"},
             AppendFails(p, t, kind)
      PROVE  Bounded'
  BY <1>2, <1>6 DEF AppendFails, Bounded
<1>7. ASSUME NEW p \in Payload, NEW t \in Time, NEW kind \in WriteFaults \cup {"full"},
             CrashInAppend(p, t, kind)
      PROVE  Bounded'
  BY <1>1, <1>2, <1>7 DEF CrashInAppend, Bounded
<1>8. CASE UNCHANGED vars
  BY <1>8 DEF vars, Bounded
<1> QED
  BY <1>3, <1>4, <1>5, <1>6, <1>7, <1>8 DEF Next

------------------------------------------------------------------------------
(* Durability.  A journal without a hole has no hole before the step either, *)
(* so what held of its settled lines still does.                             *)

\* The invariant holds of an empty file.
LEMMA InvInit == Init => IInv
BY TypeInit DEF Init, IInv, NumberedLines, LiveSettled, AckedSettled

\* A write to a journal that has no hole afterwards: there was none before, the
\* settled lines are kept, and a last line that is a record is the new one.
LEMMA WriteSettles ==
    ASSUME IInv, NEW p \in Payload, NEW t \in Time,
           NEW kind \in {"full", "nothing", "torn", "tornUtf8", "unterminated"},
           status = "up", Write(NewRecord(p, t), kind), HoleFree'
    PROVE  /\ HoleFree /\ NumberedLines' /\ Settled' >= Settled
           /\ \A i \in 1..Settled : journal'[i] = journal[i]
           /\ ~terminated => Len(journal') = Len(journal)
           /\ kind # "full" => Settled' = Settled
           /\ kind = "full" => /\ terminated
                               /\ Len(entries) = Len(journal)
                               /\ journal' = Append(journal, NewRecord(p, t))
                               /\ Settled' = Settled + 1
<1> DEFINE r == NewRecord(p, t)
<1>1. TypeOK /\ r \in CommitRecord /\ r.seq = Len(entries)
  BY NewRecordType DEF IInv
<1>2. journal \in Seq(Line) /\ terminated \in BOOLEAN /\ (~terminated => journal # <<>>)
  BY <1>1 DEF TypeOK
<1>3. CASE kind = "nothing"
  <2>1. UNCHANGED <<journal, terminated>>
    BY <1>3 DEF Write
  <2>2. HoleFree /\ UNCHANGED Settled
    BY <2>1 DEF HoleFree, Settled
  <2>3. NumberedLines'
    BY <2>1, <2>2 DEF IInv, NumberedLines
  <2>4. Settled \in Int
    BY <1>2 DEF Settled
  <2> QED
    BY <1>3, <2>1, <2>2, <2>3, <2>4
<1>4. CASE kind # "nothing"
  <2>1. kind \in {"full", "torn", "tornUtf8", "unterminated"}
    BY <1>4
  <2>2. /\ journal' \in Seq(Line)
        /\ journal' # <<>>
        /\ terminated' = (kind = "full")
        /\ Len(journal') = IF terminated THEN Len(journal) + 1 ELSE Len(journal)
        /\ \A i \in 1..(Len(journal') - 1) : journal'[i] = journal[i]
        /\ IF terminated
           THEN journal'[Len(journal')] = Piece(r, kind)
           ELSE journal'[Len(journal')] \notin CommitRecord
    BY <1>1, <2>1, WriteEffect
  <2> HIDE DEF r
  <2>3. CASE terminated
    <3>1. HoleFree
      BY <1>2, <2>2, <2>3 DEF HoleFree
    <3>2. Len(entries) = Len(journal)
      BY <2>3, <3>1 DEF IInv, LiveSettled, Settled
    <3>3. Piece(r, kind) \in CommitRecord => Piece(r, kind) = r
      BY <1>1, <2>1, StoreAssumption DEF Piece
    <3>4. NumberedLines'
      <4>1. SUFFICES ASSUME NEW i \in 1..Len(journal'), journal'[i] \in CommitRecord
                     PROVE  journal'[i].seq = i - 1
        BY DEF NumberedLines
      <4>2. CASE i = Len(journal')
        BY <1>1, <1>2, <2>2, <2>3, <3>2, <3>3, <4>1, <4>2
      <4>3. CASE i # Len(journal')
        <5>1. i \in 1..Len(journal) /\ journal'[i] = journal[i]
          BY <1>2, <2>2, <2>3, <4>1, <4>3
        <5> QED
          BY <3>1, <4>1, <5>1 DEF IInv, NumberedLines
      <4> QED
        BY <4>2, <4>3
    <3>5. kind = "full" => journal' = Append(journal, r)
      BY <1>4, <2>3 DEF Write, Lines, Piece, r
    <3>6. kind # "full" => Settled' = Settled
      <4>1. kind # "full" => ~terminated'
        BY <2>2
      <4> QED
        BY <1>2, <2>2, <2>3, <4>1 DEF Settled
    <3>7. kind = "full" => Settled' = Settled + 1
      BY <1>2, <2>2, <2>3 DEF Settled
    <3>8. /\ Settled \in Nat
          /\ \A i \in 1..Settled : journal'[i] = journal[i]
      BY <1>2, <2>2, <2>3 DEF Settled
    <3> QED
      BY <2>3, <3>1, <3>2, <3>4, <3>5, <3>6, <3>7, <3>8 DEF r
  <2>4. CASE ~terminated
    <3>1. kind # "full"
      <4>1. SUFFICES ASSUME kind = "full" PROVE FALSE
        OBVIOUS
      <4>2. terminated' = TRUE
        BY <2>2, <4>1
      <4>3. Len(journal') \in 1..Len(journal')
        BY <2>2
      <4> QED
        BY <2>2, <2>4, <4>2, <4>3 DEF HoleFree
    <3>2. HoleFree
      BY <1>2, <2>2, <2>4 DEF HoleFree
    <3>3. NumberedLines'
      BY <1>2, <2>2, <2>4, <3>2 DEF IInv, NumberedLines
    <3> QED
      BY <1>2, <2>2, <2>4, <3>1, <3>2, <3>3 DEF Settled
  <2> QED
    BY <1>2, <2>3, <2>4
<1> QED
  BY <1>3, <1>4

\* Every step of a store with a journal keeps the invariant.
LEMMA InvNext ==
    ASSUME Journaled
    PROVE  IInv /\ [Next]_vars => IInv'
<1> SUFFICES ASSUME IInv, [Next]_vars, HoleFree'
             PROVE  NumberedLines' /\ LiveSettled' /\ AckedSettled'
  BY TypeNext DEF IInv
<1>1. /\ journal \in Seq(Line) /\ entries \in Seq(CommitRecord) /\ acked \subseteq CommitRecord
      /\ terminated \in BOOLEAN
      /\ ~terminated => journal # <<>>
  BY DEF IInv, TypeOK
<1>2. Settled \in Nat /\ Len(journal) \in {Settled, Settled + 1}
  BY <1>1 DEF Settled
<1>3. ASSUME UNCHANGED <<journal, terminated, acked>>,
             status' = "up" => /\ Len(entries') \in {Settled, Len(journal)}
                               /\ \A i \in 1..Settled : entries'[i] = journal[i]
      PROVE  NumberedLines' /\ LiveSettled' /\ AckedSettled'
  <2>1. HoleFree
    BY <1>3 DEF HoleFree
  <2>2. UNCHANGED Settled
    BY <1>3 DEF Settled
  <2>3. NumberedLines /\ AckedSettled
    BY <2>1 DEF IInv
  <2>4. NumberedLines'
    BY <1>3, <2>3 DEF NumberedLines
  <2>5. LiveSettled'
    BY <1>3, <2>2 DEF LiveSettled
  <2>6. AckedSettled'
    BY <1>3, <2>2, <2>3 DEF AckedSettled
  <2> QED
    BY <2>4, <2>5, <2>6
<1>4. ASSUME UNCHANGED <<journal, terminated, acked, entries, status>>
      PROVE  NumberedLines' /\ LiveSettled' /\ AckedSettled'
  <2>1. HoleFree
    BY <1>4 DEF HoleFree
  <2> QED
    BY <1>3, <1>4, <2>1 DEF IInv, LiveSettled
<1>5. CASE Open
  <2>1. CASE ReplayOK(journal)
    <3>1. /\ entries' = Replayed(journal)
          /\ UNCHANGED <<journal, terminated, acked>>
      BY <1>5, <2>1 DEF Open
    <3>2. HoleFree
      BY <3>1 DEF HoleFree
    <3>3. /\ \A i \in 1..Len(entries') : entries'[i] = journal[i]
          /\ Len(entries') = IF journal # <<>> /\ journal[Len(journal)] = Garbled
                             THEN Len(journal) - 1 ELSE Len(journal)
      BY <1>1, <2>1, <3>1, ReplayedIsLog
    <3>4. journal # <<>> /\ journal[Len(journal)] = Garbled => ~terminated
      BY <1>1, <3>2, StoreAssumption DEF HoleFree
    <3>5. Len(entries') \in {Settled, Len(journal)} /\ Len(entries') >= Settled
      BY <1>1, <3>3, <3>4 DEF Settled
    <3> QED
      BY <1>2, <1>3, <3>1, <3>3, <3>5
  <2>2. CASE ~ReplayOK(journal)
    BY <1>3, <1>5, <2>2 DEF Open
  <2> QED
    BY <2>1, <2>2
<1>6. CASE Crash
  BY <1>3, <1>6 DEF Crash
<1>7. ASSUME NEW p \in Payload, NEW t \in Time, AppendEntry(p, t)
      PROVE  NumberedLines' /\ LiveSettled' /\ AckedSettled'
  <2> DEFINE r == NewRecord(p, t)
  <2>1. /\ status = "up" /\ Write(r, "full")
        /\ entries' = Append(entries, r)
        /\ acked' = acked \cup {r}
    BY <1>7 DEF AppendEntry
  <2>2. /\ HoleFree /\ NumberedLines' /\ terminated
        /\ Len(entries) = Len(journal)
        /\ journal' = Append(journal, r)
        /\ Settled' = Settled + 1
    BY <2>1, WriteSettles
  <2>3. r \in CommitRecord /\ r.seq = Len(entries)
    BY NewRecordType DEF IInv
  <2>4. LiveSettled /\ AckedSettled
    BY <2>2 DEF IInv
  <2>5. Settled = Len(journal)
    BY <2>2 DEF Settled
  <2> HIDE DEF r
  <2>6. LiveSettled'
    <3>1. \A i \in 1..(Settled + 1) : entries'[i] = journal'[i]
      BY <1>1, <1>2, <2>1, <2>2, <2>3, <2>4, <2>5 DEF LiveSettled
    <3>2. Len(entries') = Settled'
      BY <1>1, <2>1, <2>2, <2>3, <2>5
    <3> QED
      BY <2>2, <3>1, <3>2 DEF LiveSettled
  <2>7. AckedSettled'
    <3>1. SUFFICES ASSUME NEW a \in acked'
                   PROVE  a.seq < Settled + 1 /\ journal'[a.seq + 1] = a
      BY <2>2 DEF AckedSettled
    <3>2. CASE a = r
      BY <1>1, <2>2, <2>3, <2>5, <3>2
    <3>3. CASE a \in acked
      <4>1. a.seq \in Nat
        BY <1>1, <3>3 DEF CommitRecord
      <4>2. a.seq < Settled /\ journal[a.seq + 1] = a
        BY <2>4, <3>3 DEF AckedSettled
      <4> QED
        BY <1>1, <1>2, <2>2, <2>3, <2>5, <4>1, <4>2 DEF Line
    <3> QED
      BY <2>1, <3>2, <3>3
  <2> QED
    BY <2>2, <2>6, <2>7
<1>8. ASSUME NEW p \in Payload, NEW t \in Time, NEW kind \in WriteFaults \cup {"nothing"},
             AppendFails(p, t, kind)
      PROVE  NumberedLines' /\ LiveSettled' /\ AckedSettled'
  <2>1. /\ status = "up" /\ Write(NewRecord(p, t), kind)
        /\ UNCHANGED <<status, entries, acked>>
    BY <1>8 DEF AppendFails
  <2>2. kind \in {"nothing", "torn", "tornUtf8", "unterminated"}
    BY StoreAssumption
  <2>3. /\ HoleFree /\ NumberedLines' /\ Settled' = Settled
        /\ \A i \in 1..Settled : journal'[i] = journal[i]
        /\ ~terminated => Len(journal') = Len(journal)
    BY <2>1, <2>2, WriteSettles
  <2>4. LiveSettled /\ AckedSettled
    BY <2>3 DEF IInv
  <2>5. Len(entries) \in {Settled, Len(journal')}
    BY <2>1, <2>3, <2>4 DEF LiveSettled, Settled
  <2>6. LiveSettled'
    BY <2>1, <2>3, <2>4, <2>5 DEF LiveSettled
  <2>7. AckedSettled'
    BY <1>1, <1>2, <2>1, <2>3, <2>4 DEF AckedSettled, CommitRecord
  <2> QED
    BY <2>3, <2>6, <2>7
<1>9. ASSUME NEW p \in Payload, NEW t \in Time, NEW kind \in WriteFaults \cup {"full"},
             CrashInAppend(p, t, kind)
      PROVE  NumberedLines' /\ LiveSettled' /\ AckedSettled'
  <2>1. /\ status = "up" /\ Write(NewRecord(p, t), kind)
        /\ status' = "down" /\ UNCHANGED acked
    BY <1>9 DEF CrashInAppend
  <2>2. kind \in {"full", "torn", "tornUtf8", "unterminated"}
    BY StoreAssumption
  <2>3. /\ HoleFree /\ NumberedLines' /\ Settled' >= Settled
        /\ \A i \in 1..Settled : journal'[i] = journal[i]
        /\ Settled' \in {Settled, Settled + 1}
    BY <2>1, <2>2, WriteSettles
  <2>4. AckedSettled'
    BY <1>1, <1>2, <2>1, <2>3 DEF AckedSettled, CommitRecord, IInv
  <2> QED
    BY <2>1, <2>3, <2>4 DEF LiveSettled
<1>10. CASE UNCHANGED vars
  BY <1>4, <1>10 DEF vars
<1> QED
  BY <1>5, <1>6, <1>7, <1>8, <1>9, <1>10 DEF Next

------------------------------------------------------------------------------
(* What the invariant gives.                                                 *)

\* The invariant gives the three properties of a store whose writes may be cut.
LEMMA InvImplies ==
    ASSUME IInv
    PROVE  /\ AckedDurableUnlessSpliced
           /\ LiveMatchesReplay
           /\ TornTailTolerated
<1>1. /\ journal \in Seq(Line) /\ entries \in Seq(CommitRecord)
      /\ acked \subseteq CommitRecord
      /\ \A i \in 1..Len(entries) : entries[i].seq = i - 1
  BY DEF IInv, TypeOK
<1>2. AckedDurableUnlessSpliced
  <2>1. SUFFICES ASSUME HoleFree, NEW r \in acked
                 PROVE  r.seq < Len(journal) /\ journal[r.seq + 1] = r
    BY DEF AckedDurableUnlessSpliced, AckedDurable, OnDisk
  <2>2. r.seq < Settled /\ journal[r.seq + 1] = r
    BY <2>1 DEF IInv, AckedSettled
  <2>3. r.seq \in Nat /\ Settled \in Int /\ Settled <= Len(journal)
    BY <1>1, <2>1 DEF CommitRecord, Settled
  <2> QED
    BY <1>1, <2>2, <2>3
<1>3. LiveMatchesReplay
  <2>1. SUFFICES ASSUME status = "up", terminated, HoleFree
                 PROVE  ReplayOK(journal) /\ Replayed(journal) = entries
    BY DEF LiveMatchesReplay
  <2>2. /\ Len(entries) = Len(journal)
        /\ \A i \in 1..Len(journal) : entries[i] = journal[i]
    BY <2>1 DEF IInv, LiveSettled, Settled
  <2>3. entries = journal
    <3>1. entries \in Seq(Line)
      BY <1>1 DEF Line
    <3> QED
      BY <1>1, <2>2, <3>1, SeqEqual
  <2>4. ReplayOK(journal)
    BY <1>1, <2>3 DEF ReplayOK
  <2>5. journal # <<>> => journal[Len(journal)] # Garbled
    BY <1>1, <2>3, StoreAssumption
  <2> QED
    BY <2>3, <2>4, <2>5 DEF Replayed
<1>4. TornTailTolerated
  <2>1. SUFFICES ASSUME HoleFree, \A i \in 1..Len(journal) : journal[i] # BadUtf8
                 PROVE  ReplayOK(journal)
    BY DEF TornTailTolerated
  <2>2. NumberedLines
    BY <2>1 DEF IInv
  <2> QED
    BY <1>1, <2>1, <2>2 DEF ReplayOK, NumberedLines, HoleFree, Line
<1> QED
  BY <1>2, <1>3, <1>4

\* With a journal, the inductive invariant always holds.
LEMMA Invariant == ASSUME Journaled PROVE Spec => []IInv
<1>1. IInv /\ [Next]_vars => IInv'
  BY InvNext
<1> QED
  BY <1>1, InvInit, PTL DEF Spec

\* Whatever mixture of cut writes, failed writes, crashes and restarts occurred,
\* every record an append returned Ok for is on its own line of the journal,
\* for as long as no append ran into a torn line (LogStore::append and replay).
THEOREM AckedSurvive == ASSUME Journaled PROVE Spec => []AckedDurableUnlessSpliced
<1>1. IInv => AckedDurableUnlessSpliced
  BY InvImplies
<1> QED
  BY <1>1, Invariant, PTL

\* Replays cannot drift from live behaviour (LogStore::apply): the journal of a
\* running process whose writes all ended is replayed to the entries it serves.
THEOREM ReplayCannotDrift == ASSUME Journaled PROVE Spec => []LiveMatchesReplay
<1>1. IInv => LiveMatchesReplay
  BY InvImplies
<1> QED
  BY <1>1, Invariant, PTL

\* A journal that is damaged only by a cut at its end, outside a character, is
\* accepted by LogStore::replay.
THEOREM TornTailAccepted == ASSUME Journaled PROVE Spec => []TornTailTolerated
<1>1. IInv => TornTailTolerated
  BY InvImplies
<1> QED
  BY <1>1, Invariant, PTL

------------------------------------------------------------------------------
(* Without interrupted writes - a crash falls before or after a write, never  *)
(* inside it - the store implements the append-only log.                      *)

WholeLines == IInv /\ HoleFree /\ terminated

\* An empty file has whole lines only.
LEMMA WholeLinesInit == Init => WholeLines
BY InvInit DEF Init, WholeLines, HoleFree

\* A whole line added to whole lines.
LEMMA WholeWrite ==
    ASSUME WholeLines, status = "up", NEW p \in Payload, NEW t \in Time,
           Write(NewRecord(p, t), "full")
    PROVE  /\ journal' = Append(journal, NewRecord(p, t))
           /\ terminated' /\ HoleFree'
           /\ Len(entries) = Len(journal)
<1> DEFINE r == NewRecord(p, t)
<1>1. r \in CommitRecord
  BY NewRecordType DEF WholeLines, IInv
<1>2. journal' = Append(journal, r) /\ terminated'
  BY DEF WholeLines, Write, Lines, Piece
<1>3. Len(entries) = Len(journal)
  BY DEF WholeLines, IInv, LiveSettled, Settled
<1>4. journal \in Seq(Line)
  BY DEF WholeLines, IInv, TypeOK
<1> HIDE DEF r
<1>5. journal' \in Seq(Line) /\ HoleFree'
  BY <1>1, <1>2, <1>4 DEF WholeLines, HoleFree, Line
<1> QED
  BY <1>2, <1>3, <1>5 DEF r

\* While no write is cut part-way, the file keeps having whole lines only.
LEMMA WholeLinesNext ==
    ASSUME Journaled, WriteFaults = {}
    PROVE  WholeLines /\ [Next]_vars => WholeLines'
<1> SUFFICES ASSUME WholeLines, [Next]_vars PROVE HoleFree' /\ terminated'
  BY InvNext DEF WholeLines
<1>1. ASSUME UNCHANGED <<journal, terminated>>
      PROVE  HoleFree' /\ terminated'
  BY <1>1 DEF WholeLines, HoleFree
<1>2. ASSUME NEW p \in Payload, NEW t \in Time, status = "up",
             Write(NewRecord(p, t), "full")
      PROVE  HoleFree' /\ terminated'
  BY <1>2, WholeWrite
<1>3. CASE Open
  BY <1>1, <1>3 DEF Open
<1>4. CASE Crash
  BY <1>1, <1>4 DEF Crash
<1>5. ASSUME NEW p \in Payload, NEW t \in Time, AppendEntry(p, t)
      PROVE  HoleFree' /\ terminated'
  BY <1>2, <1>5 DEF AppendEntry
<1>6. ASSUME NEW p \in Payload, NEW t \in Time, NEW kind \in WriteFaults \cup {"nothing"},
             AppendFails(p, t, kind)
      PROVE  HoleFree' /\ terminated'
  BY <1>1, <1>6 DEF AppendFails, Write
<1>7. ASSUME NEW p \in Payload, NEW t \in Time, NEW kind \in WriteFaults \cup {"full"},
             CrashInAppend(p, t, kind)
      PROVE  HoleFree' /\ terminated'
  BY <1>2, <1>7 DEF CrashInAppend
<1>8. CASE UNCHANGED vars
  BY <1>1, <1>8 DEF vars
<1> QED
  BY <1>3, <1>4, <1>5, <1>6, <1>7, <1>8 DEF Next

\* Whole lines end in a record: replay leaves none of them out.
LEMMA WholeLinesReplayed == WholeLines => Replayed(journal) = journal
<1> SUFFICES ASSUME WholeLines, journal # <<>> PROVE journal[Len(journal)] # Garbled
  BY DEF Replayed
<1>1. Len(journal) \in 1..Len(journal)
  BY DEF WholeLines, IInv, TypeOK
<1> QED
  BY <1>1, StoreAssumption DEF WholeLines, HoleFree

\* With whole lines, a step sequences one entry of the abstract log or none.
LEMMA StepSequences ==
    ASSUME Journaled, WriteFaults = {}
    PROVE  WholeLines /\ WholeLines' /\ [Next]_vars => [AOL!Next]_(AOL!logVars)
<1> SUFFICES ASSUME WholeLines, WholeLines', [Next]_vars
             PROVE  AOL!Next \/ UNCHANGED AOL!logVars
  OBVIOUS
<1>1. Replayed(journal) = journal /\ Replayed(journal)' = journal'
  <2>1. Replayed(journal) = journal
    BY WholeLinesReplayed
  <2>2. (Replayed(journal) = journal)'
    BY WholeLinesReplayed, PTL
  <2> QED
    BY <2>1, <2>2
<1>2. ASSUME UNCHANGED <<journal, acked>>
      PROVE  UNCHANGED AOL!logVars
  BY <1>1, <1>2 DEF AOL!logVars
<1>3. ASSUME NEW p \in Payload, NEW t \in Time, status = "up",
             Write(NewRecord(p, t), "full"),
             acked' \in {acked, acked \cup {NewRecord(p, t)}}
      PROVE  AOL!Next
  <2>1. journal' = Append(journal, NewRecord(p, t)) /\ Len(entries) = Len(journal)
    BY <1>3, WholeWrite
  <2>2. AOL!Sequence(p, t)
    BY <1>1, <1>3, <2>1 DEF AOL!Sequence, NewRecord
  <2> QED
    BY <2>2 DEF AOL!Next
<1>4. CASE Open
  BY <1>2, <1>4 DEF Open
<1>5. CASE Crash
  BY <1>2, <1>5 DEF Crash
<1>6. ASSUME NEW p \in Payload, NEW t \in Time, AppendEntry(p, t)
      PROVE  AOL!Next
  BY <1>3, <1>6 DEF AppendEntry
<1>7. ASSUME NEW p \in Payload, NEW t \in Time, NEW kind \in WriteFaults \cup {"nothing"},
             AppendFails(p, t, kind)
      PROVE  UNCHANGED AOL!logVars
  BY <1>2, <1>7 DEF AppendFails, Write
<1>8. ASSUME NEW p \in Payload, NEW t \in Time, NEW kind \in WriteFaults \cup {"full"},
             CrashInAppend(p, t, kind)
      PROVE  AOL!Next
  BY <1>3, <1>8 DEF CrashInAppend
<1>9. CASE UNCHANGED vars
  BY <1>2, <1>9 DEF vars
<1> QED
  BY <1>4, <1>5, <1>6, <1>7, <1>8, <1>9 DEF Next

\* If no write is interrupted part-way, a record that append returned Ok for is
\* never lost: it is on its own line of the journal for ever after.
THEOREM AckedNeverLost ==
    ASSUME Journaled, WriteFaults = {}
    PROVE  Spec => []AckedDurable
<1>1. WholeLines => AckedDurable
  BY InvImplies DEF WholeLines, AckedDurableUnlessSpliced
<1>2. WholeLines /\ [Next]_vars => WholeLines'
  BY WholeLinesNext
<1> QED
  BY <1>1, <1>2, WholeLinesInit, PTL DEF Spec

\* If no write is interrupted part-way, the store implements the append-only
\* log across failures, crashes and restarts (LogStore::open and append): what
\* a restart serves is only ever extended, and nothing acknowledged leaves it.
THEOREM StoreImplementsLog ==
    ASSUME Journaled, WriteFaults = {}
    PROVE  Spec => ImplementsAppendOnlyLog
<1>1. Init => AOL!Init
  BY DEF Init, AOL!Init, Replayed
<1>2. WholeLines /\ [Next]_vars => WholeLines'
  BY WholeLinesNext
<1>3. WholeLines /\ WholeLines' /\ [Next]_vars => [AOL!Next]_(AOL!logVars)
  BY StepSequences
<1> QED
  BY <1>1, <1>2, <1>3, WholeLinesInit, PTL DEF Spec, ImplementsAppendOnlyLog, AOL!Spec
==============================================================================
