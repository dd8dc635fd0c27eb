---------------------------- MODULE LogPowerProofs ----------------------------
(***************************************************************************)
(* What survives a power failure, for every kind of interrupted write and  *)
(* however much of what was written since the last write-back is lost.     *)
(*                                                                         *)
(* The constants are those of the store: each result assumes of them what  *)
(* LogStore does.                                                          *)
(***************************************************************************)
EXTENDS LogPower, TLAPS

\* What is proved of the store, over the same constants and variables.
P == INSTANCE LogStoreProofs

------------------------------------------------------------------------------
(* The inductive invariant.                                                  *)

\* The number of lines that end in a newline, in a file of so many lines.
SettledOf(lines, ended) == IF ended THEN Len(lines) ELSE Len(lines) - 1

\* Record r is on a settled line of the file, the one of its number.
OnSettledLineOf(r, lines, ended) ==
    r.seq < SettledOf(lines, ended) /\ lines[r.seq + 1] = r

ImagesAreFiles ==
    \A image \in images :
        image = Image(image.lines, image.terminated) /\ image.terminated \in BOOLEAN

\* A record that was written back is there whatever file the disk gives back.
StableOnImages ==
    \A image \in images, r \in stable :
        OnSettledLineOf(r, image.lines, image.terminated)

\* A running process serves every settled record that has its number, also those
\* whose append has failed after its newline was written.
LiveRecords ==
    status = "up" =>
        \A i \in 1..SettledOf(journal, terminated) :
            (journal[i] \in Store!CommitRecord /\ journal[i].seq = i - 1) =>
                i <= Len(entries) /\ entries[i] = journal[i]

\* Without a journal there is nothing on the disk.
NothingWritten == ~Journaled => \A image \in images : image.lines = <<>>

\* Entries, journal and images fit the bound that Room sets on appends.
Bounded == P!Bounded /\ \A image \in images : Len(image.lines) <= MaxEntries

IInv ==
    /\ TypeOK /\ ImagesAreFiles /\ Bounded
    /\ StableOnImages /\ LiveRecords /\ NothingWritten
------------------------------------------------------------------------------
(* The store here is the store that LogStoreProofs is about.                 *)

\* The constants are the store's, whatever instance they are given to.
LEMMA StoreAssumed == ASSUME Store!StoreAssumption PROVE P!StoreAssumption
BY DEF P!StoreAssumption, Store!StoreAssumption, P!CommitRecord, Store!CommitRecord

\* The store under LogPower and the one of the store's proofs have one set of types,
LEMMA SameTypes ==
    /\ Store!CommitRecord = P!CommitRecord
    /\ Store!Line = P!Line
    /\ Store!TypeOK <=> P!TypeOK
BY DEF Store!CommitRecord, P!CommitRecord, Store!Line, P!Line, Store!TypeOK, P!TypeOK

\* one way to write,
LEMMA SameLines ==
    ASSUME NEW r, NEW kind
    PROVE  /\ Store!Lines(r, kind) = P!Lines(r, kind)
           /\ Store!Write(r, kind) <=> P!Write(r, kind)
<1>1. Store!Lines(r, kind) = P!Lines(r, kind)
  BY DEF Store!Lines, P!Lines, Store!Piece, P!Piece, Store!Splice, P!Splice
<1> QED
  BY <1>1 DEF Store!Write, P!Write

\* one way to number records,
LEMMA SameNewRecord ==
    ASSUME NEW p, NEW t
    PROVE  Store!NewRecord(p, t) = P!NewRecord(p, t)
BY DEF Store!NewRecord, P!NewRecord

\* one replay,
LEMMA SameReplay ==
    ASSUME NEW lines
    PROVE  /\ Store!ReplayOK(lines) <=> P!ReplayOK(lines)
           /\ Store!Replayed(lines) = P!Replayed(lines)
BY DEF Store!ReplayOK, P!ReplayOK, Store!Replayed, P!Replayed, Store!CommitRecord, P!CommitRecord

\* and so the same steps: the theorems about the one hold of the other.
LEMMA SameNext == Store!Next <=> P!Next
<1>1. Store!Open <=> P!Open
  BY SameReplay DEF Store!Open, P!Open
<1>2. Store!Crash <=> P!Crash
  BY DEF Store!Crash, P!Crash
<1>3. Store!Room <=> P!Room
  BY DEF Store!Room, P!Room
<1>4. ASSUME NEW p, NEW t, NEW kind
      PROVE  /\ Store!AppendEntry(p, t) <=> P!AppendEntry(p, t)
             /\ Store!AppendFails(p, t, kind) <=> P!AppendFails(p, t, kind)
             /\ Store!CrashInAppend(p, t, kind) <=> P!CrashInAppend(p, t, kind)
  BY <1>3, SameLines, SameNewRecord
     DEF Store!AppendEntry, P!AppendEntry, Store!AppendFails, P!AppendFails,
         Store!CrashInAppend, P!CrashInAppend
<1> QED
  BY <1>1, <1>2, <1>4 DEF Store!Next, P!Next

\* The types and the bound of the store, in every one of its steps.
LEMMA StoreTyped ==
    ASSUME Store!StoreAssumption, Store!TypeOK, P!Bounded, Store!Next
    PROVE  Store!TypeOK' /\ P!Bounded'
<1>1. P!TypeOK' /\ P!Bounded'
  BY StoreAssumed, SameTypes, SameNext, P!TypeNext, P!BoundedNext
<1>2. (Store!TypeOK <=> P!TypeOK)'
  BY SameTypes, PTL
<1> QED
  BY <1>1, <1>2

------------------------------------------------------------------------------
(* Writing.                                                                  *)

\* What the settled lines of the file hold they hold in every file that a write,
\* however much of it, can make of it.
LEMMA WriteKeepsSettled ==
    ASSUME Store!StoreAssumption, Store!TypeOK, NEW r \in P!CommitRecord,
           NEW kind \in {"full", "torn", "tornUtf8", "unterminated"}
    PROVE  /\ P!Lines(r, kind) \in Seq(P!Line)
           /\ P!Lines(r, kind) # <<>>
           /\ Len(P!Lines(r, kind)) <= Len(journal) + 1
           /\ \A s \in P!CommitRecord :
                 OnSettledLineOf(s, journal, terminated) =>
                     OnSettledLineOf(s, P!Lines(r, kind), kind = "full")
<1> DEFINE lines == P!Lines(r, kind)
<1>1. /\ lines \in Seq(P!Line) /\ lines # <<>>
      /\ Len(lines) = IF terminated THEN Len(journal) + 1 ELSE Len(journal)
      /\ \A i \in 1..(Len(lines) - 1) : lines[i] = journal[i]
  BY StoreAssumed, SameTypes, P!LinesEffect
<1>2. journal \in Seq(P!Line) /\ terminated \in BOOLEAN
  BY SameTypes DEF Store!TypeOK
<1> HIDE DEF lines
<1>3. ASSUME NEW s \in P!CommitRecord, OnSettledLineOf(s, journal, terminated)
      PROVE  OnSettledLineOf(s, lines, kind = "full")
  <2>1. s.seq \in Nat
    BY DEF P!CommitRecord
  <2>2. s.seq < SettledOf(journal, terminated) /\ journal[s.seq + 1] = s
    BY <1>3 DEF OnSettledLineOf
  <2>3. s.seq + 1 \in 1..(Len(lines) - 1)
    BY <1>1, <1>2, <2>1, <2>2 DEF SettledOf
  <2>4. s.seq < SettledOf(lines, kind = "full")
    BY <1>1, <2>1, <2>3 DEF SettledOf
  <2> QED
    BY <1>1, <2>2, <2>3, <2>4 DEF OnSettledLineOf
<1>4. Len(lines) <= Len(journal) + 1
  BY <1>1, <1>2
<1> QED
  BY <1>1, <1>3, <1>4 DEF lines

\* What an append, however it ends, leaves on the disk.
LEMMA CachedKeeps ==
    ASSUME Store!StoreAssumption, IInv, NEW r \in P!CommitRecord,
           NEW kind \in WriteFaults \cup {"full", "nothing"}, Cached(r, kind), Store!Room,
           IF Journaled THEN Store!Write(r, kind) ELSE UNCHANGED <<journal, terminated>>
    PROVE  /\ Image(journal, terminated)' \in images'
           /\ \A image \in images' :
                 /\ image.lines \in Seq(Store!Line)
                 /\ ~image.terminated => image.lines # <<>>
           /\ ImagesAreFiles' /\ StableOnImages' /\ NothingWritten'
           /\ \A image \in images' : Len(image.lines) <= MaxEntries
<1>1. CASE ~Journaled
  <2>1. UNCHANGED <<images, stable, journal, terminated>>
    BY <1>1 DEF Cached
  <2> QED
    BY <2>1
       DEF IInv, TypeOK, Image, ImagesAreFiles, StableOnImages, NothingWritten, Bounded
<1>2. CASE Journaled
  <2>1. /\ images' = images \cup {Image(Store!Lines(r, k), k = "full") : k \in UpTo(kind)}
        /\ stable' = stable
    BY <1>2 DEF Cached
  <2>2. /\ UpTo(kind) \subseteq {"full", "torn", "tornUtf8", "unterminated"}
        /\ kind # "nothing" => kind \in UpTo(kind)
    BY DEF UpTo, Store!StoreAssumption
  <2>3. \A k \in UpTo(kind) : Store!Lines(r, k) = P!Lines(r, k)
    BY SameLines
  <2>4. \A s \in stable : s \in P!CommitRecord /\ OnSettledLineOf(s, journal, terminated)
    BY SameTypes DEF IInv, TypeOK, Store!TypeOK, StableOnImages, Image
  <2>5. \A k \in UpTo(kind) :
           /\ Store!Lines(r, k) \in Seq(Store!Line)
           /\ Store!Lines(r, k) # <<>>
           /\ Len(Store!Lines(r, k)) <= Len(journal) + 1
           /\ \A s \in stable : OnSettledLineOf(s, Store!Lines(r, k), k = "full")
    <3>1. Store!TypeOK
      BY DEF IInv, TypeOK
    <3>2. ASSUME NEW k \in UpTo(kind)
          PROVE  /\ P!Lines(r, k) \in Seq(P!Line)
                 /\ P!Lines(r, k) # <<>>
                 /\ Len(P!Lines(r, k)) <= Len(journal) + 1
                 /\ \A s \in stable : OnSettledLineOf(s, P!Lines(r, k), k = "full")
      <4>1. k \in {"full", "torn", "tornUtf8", "unterminated"}
        BY <2>2
      <4> QED
        BY <2>4, <3>1, <4>1, WriteKeepsSettled
    <3> QED
      BY <2>3, <3>2, SameTypes
  <2>6. \A image \in images' :
           \/ image \in images
           \/ \E k \in UpTo(kind) : /\ image.lines = Store!Lines(r, k)
                                    /\ image.terminated = (k = "full")
    BY <2>1 DEF Image
  <2>7. Image(journal, terminated)' \in images'
    <3>1. CASE kind = "nothing"
      BY <1>2, <2>1, <3>1 DEF Store!Write, IInv, TypeOK, Image
    <3>2. CASE kind # "nothing"
      BY <1>2, <2>1, <2>2, <3>2 DEF Store!Write, Image
    <3> QED
      BY <3>1, <3>2
  <2>8. \A image \in images' :
           /\ image.lines \in Seq(Store!Line)
           /\ ~image.terminated => image.lines # <<>>
    BY <2>5, <2>6 DEF IInv, TypeOK
  <2>9. StableOnImages'
    BY <2>1, <2>5, <2>6 DEF IInv, StableOnImages
  <2>10. ImagesAreFiles'
    <3>1. ASSUME NEW k \in UpTo(kind)
          PROVE  LET image == Image(Store!Lines(r, k), k = "full")
                 IN  image = Image(image.lines, image.terminated) /\ image.terminated \in BOOLEAN
      BY DEF Image
    <3> QED
      BY <2>1, <3>1 DEF IInv, ImagesAreFiles
  <2>11. \A image \in images' : Len(image.lines) <= MaxEntries
    <3>1. MaxEntries \in Nat /\ Len(journal) + 1 <= MaxEntries /\ Len(journal) \in Nat
      BY DEF Store!StoreAssumption, Store!Room, IInv, TypeOK, Store!TypeOK
    <3>2. \A k \in UpTo(kind) : Len(Store!Lines(r, k)) <= MaxEntries
      BY <2>5, <3>1
    <3> QED
      BY <2>6, <3>2 DEF IInv, Bounded
  <2> QED
    BY <1>2, <2>7, <2>8, <2>9, <2>10, <2>11 DEF NothingWritten
<1> QED
  BY <1>1, <1>2

------------------------------------------------------------------------------
(* The invariant holds initially, and no step leaves it.                     *)

\* An empty file has an empty image.
LEMMA InvInit == ASSUME Store!StoreAssumption PROVE Init => IInv
<1> SUFFICES ASSUME Init PROVE IInv
  OBVIOUS
<1>1. Store!TypeOK
  BY DEF Init, Store!Init, Store!TypeOK
<1>2. images = {[lines |-> <<>>, terminated |-> TRUE]} /\ stable = {} /\ status = "down"
  BY DEF Init, Store!Init, Image
<1>3. <<>> \in Seq(Store!Line)
  OBVIOUS
<1>4. TypeOK /\ ImagesAreFiles /\ Bounded
  BY <1>1, <1>2, <1>3
     DEF Init, Store!Init, TypeOK, ImagesAreFiles, Image, Bounded, P!Bounded,
         Store!StoreAssumption
<1> QED
  BY <1>2, <1>4 DEF IInv, StableOnImages, LiveRecords, NothingWritten

\* A write leaves the settled lines, and adds at most the line of its record.
LEMMA WriteKeepsLive ==
    ASSUME Store!StoreAssumption, IInv, status = "up", NEW r \in P!CommitRecord,
           NEW kind \in {"full", "nothing", "torn", "tornUtf8", "unterminated"},
           Store!Write(r, kind),
           NEW i \in 1..SettledOf(journal', terminated'),
           journal'[i] \in Store!CommitRecord, journal'[i].seq = i - 1
    PROVE  \/ i <= Len(entries) /\ entries[i] = journal'[i]
           \/ kind = "full" /\ journal'[i] = r
<1>1. /\ journal \in Seq(P!Line) /\ terminated \in BOOLEAN
      /\ ~terminated => journal # <<>>
      /\ P!TypeOK
  BY SameTypes DEF IInv, TypeOK, Store!TypeOK
<1>2. ASSUME i \in 1..SettledOf(journal, terminated), journal'[i] = journal[i]
      PROVE  i <= Len(entries) /\ entries[i] = journal'[i]
  BY <1>2 DEF IInv, LiveRecords
<1>3. CASE kind = "nothing"
  <2>1. UNCHANGED <<journal, terminated>>
    BY <1>3 DEF Store!Write
  <2> QED
    BY <1>2, <2>1
<1>4. CASE kind # "nothing"
  <2>1. kind \in {"full", "torn", "tornUtf8", "unterminated"} /\ P!Write(r, kind)
    BY <1>4, SameLines
  <2>2. /\ journal' \in Seq(P!Line)
        /\ terminated' = (kind = "full")
        /\ Len(journal') = IF terminated THEN Len(journal) + 1 ELSE Len(journal)
        /\ \A j \in 1..(Len(journal') - 1) : journal'[j] = journal[j]
        /\ IF terminated
           THEN journal'[Len(journal')] = P!Piece(r, kind)
           ELSE journal'[Len(journal')] \notin P!CommitRecord
    BY <1>1, <2>1, StoreAssumed, P!WriteEffect
  <2>3. CASE i < Len(journal')
    <3>1. i \in 1..SettledOf(journal, terminated) /\ journal'[i] = journal[i]
      BY <1>1, <2>2, <2>3 DEF SettledOf
    <3> QED
      BY <1>2, <3>1
  <2>4. CASE i = Len(journal')
    <3>1. kind = "full"
      <4>1. ~terminated' => SettledOf(journal', terminated') = Len(journal') - 1
        BY DEF SettledOf
      <4>2. terminated'
        BY <2>2, <2>4, <4>1
      <4> QED
        BY <2>2, <4>2
    <3>2. P!Piece(r, "full") = r
      BY DEF P!Piece
    <3>3. journal'[i] = P!Piece(r, kind)
      BY <2>2, <2>4, SameTypes
    <3> QED
      BY <3>1, <3>2, <3>3
  <2>5. i <= Len(journal') /\ i \in Nat
    BY <2>2 DEF SettledOf
  <2> QED
    BY <2>2, <2>3, <2>4, <2>5
<1> QED
  BY <1>3, <1>4

\* Every step of the store and of the disk keeps the invariant.
LEMMA InvNext == ASSUME Store!StoreAssumption PROVE IInv /\ [Next]_vars => IInv'
<1> SUFFICES ASSUME IInv, [Next]_vars PROVE IInv'
  OBVIOUS
<1>1. /\ journal \in Seq(P!Line) /\ terminated \in BOOLEAN /\ stable \subseteq acked
      /\ entries \in Seq(P!CommitRecord) /\ acked \subseteq P!CommitRecord
      /\ Store!TypeOK /\ P!Bounded /\ Image(journal, terminated) \in images
  BY SameTypes DEF IInv, TypeOK, Store!TypeOK, Bounded
<1>2. ASSUME NEW p \in Payload, NEW t \in Time
      PROVE  /\ Store!NewRecord(p, t) \in P!CommitRecord
             /\ Store!NewRecord(p, t).seq = Len(entries)
  BY <1>1, SameNewRecord, SameTypes, StoreAssumed, P!NewRecordType
<1>3. ASSUME Store!Next, NEW r \in P!CommitRecord,
             NEW kind \in WriteFaults \cup {"full", "nothing"}, Cached(r, kind), Store!Room,
             IF Journaled THEN Store!Write(r, kind) ELSE UNCHANGED <<journal, terminated>>,
             acked \subseteq acked', LiveRecords'
      PROVE  IInv'
  <2>1. Store!TypeOK' /\ P!Bounded'
    BY <1>1, <1>3, StoreTyped
  <2>2. stable' \subseteq acked'
    BY <1>1, <1>3 DEF Cached
  <2>3. /\ Image(journal, terminated)' \in images'
        /\ \A image \in images' :
              /\ image.lines \in Seq(Store!Line)
              /\ ~image.terminated => image.lines # <<>>
        /\ ImagesAreFiles' /\ StableOnImages' /\ NothingWritten'
        /\ \A image \in images' : Len(image.lines) <= MaxEntries
    BY <1>3, CachedKeeps
  <2>4. TypeOK'
    BY <2>1, <2>2, <2>3 DEF TypeOK
  <2> QED
    BY <1>3, <2>1, <2>3, <2>4 DEF IInv, Bounded
<1>4. ASSUME NEW p \in Payload, NEW t \in Time, AppendEntry(p, t)
      PROVE  IInv'
  <2> DEFINE r == Store!NewRecord(p, t)
  <2>1. /\ status = "up" /\ entries' = Append(entries, r)
        /\ IF Journaled THEN Store!Write(r, "full") ELSE UNCHANGED <<journal, terminated>>
        /\ acked \subseteq acked' /\ Cached(r, "full") /\ Store!Room /\ Store!Next
    BY <1>4 DEF AppendEntry, Store!AppendEntry, Store!Next
  <2>2. r \in P!CommitRecord /\ r.seq = Len(entries)
    BY <1>2
  <2> HIDE DEF r
  <2>3. LiveRecords'
    <3>1. SUFFICES ASSUME NEW i \in 1..SettledOf(journal', terminated'),
                          journal'[i] \in Store!CommitRecord, journal'[i].seq = i - 1
                   PROVE  i <= Len(entries') /\ entries'[i] = journal'[i]
      BY DEF LiveRecords
    <3>2. Journaled
      <4>1. ~Journaled => journal = <<>> /\ UNCHANGED <<journal, terminated>>
        BY <1>1, <2>1 DEF IInv, NothingWritten, Image
      <4>2. ~Journaled => SettledOf(journal', terminated') <= 0
        BY <1>1, <4>1 DEF SettledOf
      <4> QED
        BY <1>1, <3>1, <4>1, <4>2 DEF SettledOf
    <3>3. \/ i <= Len(entries) /\ entries[i] = journal'[i]
          \/ journal'[i] = r
      BY <2>1, <2>2, <3>1, <3>2, WriteKeepsLive
    <3>4. i \in Nat \ {0}
      OBVIOUS
    <3>5. CASE i <= Len(entries) /\ entries[i] = journal'[i]
      BY <1>1, <2>1, <2>2, <3>4, <3>5
    <3>6. CASE journal'[i] = r
      <4>1. i = Len(entries) + 1
        BY <1>1, <2>2, <3>1, <3>4, <3>6
      <4> QED
        BY <1>1, <2>1, <2>2, <3>6, <4>1
    <3> QED
      BY <3>3, <3>5, <3>6
  <2> QED
    BY <1>3, <2>1, <2>2, <2>3
<1>5. ASSUME NEW p \in Payload, NEW t \in Time, NEW kind \in WriteFaults \cup {"nothing"},
             AppendFails(p, t, kind)
      PROVE  IInv'
  <2> DEFINE r == Store!NewRecord(p, t)
  <2>1. /\ status = "up" /\ Journaled /\ UNCHANGED <<entries, acked>>
        /\ Store!Write(r, kind) /\ Cached(r, kind) /\ Store!Room /\ Store!Next
    BY <1>5 DEF AppendFails, Store!AppendFails, Store!Next
  <2>2. kind \in {"nothing", "torn", "tornUtf8", "unterminated"}
    BY DEF Store!StoreAssumption
  <2>3. r \in P!CommitRecord
    BY <1>2
  <2> HIDE DEF r
  <2>4. LiveRecords'
    <3>1. SUFFICES ASSUME NEW i \in 1..SettledOf(journal', terminated'),
                          journal'[i] \in Store!CommitRecord, journal'[i].seq = i - 1
                   PROVE  i <= Len(entries) /\ entries[i] = journal'[i]
      BY <2>1 DEF LiveRecords
    <3> QED
      BY <2>1, <2>2, <2>3, <3>1, WriteKeepsLive
  <2> QED
    BY <1>3, <2>1, <2>3, <2>4
<1>6. ASSUME NEW p \in Payload, NEW t \in Time, NEW kind \in WriteFaults \cup {"full"},
             CrashInAppend(p, t, kind)
      PROVE  IInv'
  <2> DEFINE r == Store!NewRecord(p, t)
  <2>1. /\ status' = "down" /\ Journaled /\ UNCHANGED acked
        /\ Store!Write(r, kind) /\ Cached(r, kind) /\ Store!Room /\ Store!Next
    BY <1>6 DEF CrashInAppend, Store!CrashInAppend, Store!Next
  <2>2. r \in P!CommitRecord
    BY <1>2
  <2> HIDE DEF r
  <2>3. LiveRecords'
    BY <2>1 DEF LiveRecords
  <2> QED
    BY <1>3, <2>1, <2>2, <2>3
<1>7. ASSUME Store!TypeOK', P!Bounded', LiveRecords',
             UNCHANGED <<journal, terminated, images, stable, acked>>
      PROVE  IInv'
  BY <1>7
     DEF IInv, TypeOK, Image, ImagesAreFiles, StableOnImages, NothingWritten, Bounded
<1>8. CASE Open
  <2>1. /\ Store!TypeOK' /\ P!Bounded'
        /\ UNCHANGED <<journal, terminated, images, stable, acked>>
    BY <1>1, <1>8, StoreTyped DEF Open, Store!Open, Store!Next
  <2>2. LiveRecords'
    <3>1. SUFFICES ASSUME status' = "up", NEW i \in 1..SettledOf(journal, terminated),
                          journal[i] \in Store!CommitRecord
                   PROVE  i <= Len(entries') /\ entries'[i] = journal[i]
      BY <2>1 DEF LiveRecords
    <3>2. i \in 1..Len(journal) /\ journal # <<>>
      BY <1>1 DEF SettledOf
    <3>3. Journaled
      BY <1>1, <3>2 DEF IInv, NothingWritten, Image
    <3>4. P!ReplayOK(journal) /\ entries' = P!Replayed(journal)
      BY <1>8, <3>1, <3>3, SameReplay DEF Open, Store!Open
    <3>5. /\ \A j \in 1..Len(entries') : entries'[j] = journal[j]
          /\ Len(entries') =
                IF journal # <<>> /\ journal[Len(journal)] = Garbled
                THEN Len(journal) - 1 ELSE Len(journal)
      BY <1>1, <3>4, StoreAssumed, P!ReplayedIsLog
    <3>6. journal[i] # Garbled
      BY <3>1 DEF Store!StoreAssumption
    <3>7. i <= Len(entries')
      BY <1>1, <3>2, <3>5, <3>6
    <3> QED
      BY <3>2, <3>5, <3>7
  <2> QED
    BY <1>7, <2>1, <2>2
<1>9. CASE Crash
  <2>1. /\ Store!TypeOK' /\ P!Bounded' /\ status' = "down"
        /\ UNCHANGED <<journal, terminated, images, stable, acked>>
    BY <1>1, <1>9, StoreTyped DEF Crash, Store!Crash, Store!Next
  <2> QED
    BY <1>7, <2>1 DEF LiveRecords
<1>10. CASE Writeback
  <2>1. /\ images' = {Image(journal, terminated)}
        /\ stable' = {r \in acked : OnSettledLine(r)}
        /\ UNCHANGED storeVars
        /\ UNCHANGED <<status, entries, journal, terminated, acked>>
    BY <1>10 DEF Writeback, storeVars
  <2>2. TypeOK'
    BY <2>1 DEF IInv, TypeOK, Image, Store!TypeOK
  <2>3. StableOnImages'
    <3>1. ASSUME NEW r \in acked, OnSettledLine(r)
          PROVE  OnSettledLineOf(r, journal, terminated)
      BY <1>1, <3>1 DEF OnSettledLine, Store!OnDisk, OnSettledLineOf, SettledOf, P!CommitRecord
    <3> QED
      BY <2>1, <3>1 DEF StableOnImages, Image
  <2>4. LiveRecords' /\ NothingWritten' /\ ImagesAreFiles' /\ Bounded'
    BY <1>1, <2>1
       DEF IInv, LiveRecords, NothingWritten, ImagesAreFiles, Image, Bounded, P!Bounded
  <2> QED
    BY <2>2, <2>3, <2>4 DEF IInv
<1>11. CASE PowerFail
  <2>1. PICK image \in images :
           /\ journal' = image.lines /\ terminated' = image.terminated /\ images' = {image}
    BY <1>11 DEF PowerFail
  <2>2. status' = "down" /\ entries' = <<>> /\ UNCHANGED <<acked, stable>>
    BY <1>11 DEF PowerFail
  <2>3. /\ journal' \in Seq(Store!Line) /\ terminated' \in BOOLEAN
        /\ ~terminated' => journal' # <<>>
        /\ image = Image(journal', terminated')
    BY <2>1 DEF IInv, TypeOK, ImagesAreFiles
  <2>4. Store!TypeOK'
    BY <1>1, <2>2, <2>3 DEF Store!TypeOK
  <2>5. TypeOK'
    BY <1>1, <2>1, <2>2, <2>3, <2>4 DEF TypeOK, Image, IInv
  <2>6. ImagesAreFiles' /\ StableOnImages' /\ NothingWritten'
    BY <2>1, <2>2 DEF IInv, ImagesAreFiles, StableOnImages, NothingWritten
  <2>7. Bounded'
    BY <2>1, <2>2 DEF IInv, Bounded, P!Bounded, Store!StoreAssumption
  <2> QED
    BY <2>2, <2>5, <2>6, <2>7 DEF IInv, LiveRecords
<1>12. CASE UNCHANGED vars
  <2>1. UNCHANGED <<status, entries, journal, terminated, acked, images, stable>>
    BY <1>12 DEF vars, storeVars
  <2>2. Store!TypeOK' /\ P!Bounded' /\ LiveRecords'
    BY <1>1, <2>1 DEF IInv, Store!TypeOK, P!Bounded, LiveRecords
  <2> QED
    BY <1>7, <2>1, <2>2
<1> QED
  BY <1>4, <1>5, <1>6, <1>8, <1>9, <1>10, <1>11, <1>12 DEF Next

\* The inductive invariant always holds.
LEMMA Invariant == ASSUME Store!StoreAssumption PROVE Spec => []IInv
<1>1. Init => IInv
  BY InvInit
<1>2. IInv /\ [Next]_vars => IInv'
  BY InvNext
<1> QED
  BY <1>1, <1>2, PTL DEF Spec

------------------------------------------------------------------------------
(* What the invariant gives.                                                 *)

\* The invariant gives the types and what LogPower promises.
LEMMA InvImplies == IInv => TypeOK /\ P!Bounded /\ WrittenBackServed
<1> SUFFICES ASSUME IInv, NEW r \in stable
             PROVE  /\ OnSettledLine(r)
                    /\ status = "up" => r.seq < Len(entries) /\ entries[r.seq + 1] = r
  BY DEF IInv, Bounded, WrittenBackServed
<1>1. r \in P!CommitRecord /\ entries \in Seq(P!CommitRecord) /\ journal \in Seq(P!Line)
  BY SameTypes DEF IInv, TypeOK, Store!TypeOK
<1>2. r.seq \in Nat
  BY <1>1 DEF P!CommitRecord
<1>3. r.seq < SettledOf(journal, terminated) /\ journal[r.seq + 1] = r
  BY DEF IInv, TypeOK, StableOnImages, Image, OnSettledLineOf
<1>4. OnSettledLine(r)
  BY <1>1, <1>2, <1>3 DEF OnSettledLine, Store!OnDisk, SettledOf
<1>5. ASSUME status = "up"
      PROVE  r.seq < Len(entries) /\ entries[r.seq + 1] = r
  <2>1. r.seq + 1 \in 1..SettledOf(journal, terminated)
    BY <1>1, <1>2, <1>3 DEF SettledOf
  <2>2. r.seq + 1 <= Len(entries) /\ entries[r.seq + 1] = r
    BY <1>1, <1>2, <1>3, <1>5, <2>1, SameTypes DEF IInv, LiveRecords
  <2> QED
    BY <1>1, <1>2, <2>2
<1> QED
  BY <1>4, <1>5

\* In every reachable state the store and the disk have their types, and the
\* file is one of those that a power failure may leave (store.rs append).
THEOREM PowerTypeCorrect == ASSUME Store!StoreAssumption PROVE Spec => []TypeOK
BY Invariant, InvImplies, PTL

\* An acknowledged record that was written back stays on its line and is served
\* by every process that starts, whatever writes are cut short, in the file or
\* in what of it reaches the disk (store.rs append and replay).
THEOREM WrittenBackIsServed ==
    ASSUME Store!StoreAssumption
    PROVE  Spec => []WrittenBackServed
BY Invariant, InvImplies, PTL
==============================================================================
