-------------------------- MODULE LogProcessesProofs --------------------------
(***************************************************************************)
(* What several processes on one journal file cannot break, however many   *)
(* they are and whatever they are started with.                            *)
(***************************************************************************)
EXTENDS LogProcesses, TLAPS

\* What is proved of the store, here of the file alone.
P == INSTANCE LogStoreProofs WITH
    Journaled <- TRUE, status <- "down", entries <- <<>>

------------------------------------------------------------------------------
(* The inductive invariant.                                                  *)

FileLine == File!Line \cup {Blank}

\* An append under way: the record, how far it got, and the file before it.
Writing == [record : File!CommitRecord, done : {"line", "newline"},
            lines : Seq(FileLine), ended : BOOLEAN]

\* The types beyond TypeOK.  A line that lacks its newline is no empty one.
Typed ==
    /\ log \in [Process -> Seq(File!CommitRecord)]
    /\ writing \in [Process -> Writing \cup {None}]
    /\ journal \in Seq(FileLine)
    /\ terminated \in BOOLEAN
    /\ ~terminated => journal[Len(journal)] # Blank
    /\ acked \subseteq File!CommitRecord
    /\ overlapped \in BOOLEAN /\ cut \in BOOLEAN

\* Process p has written a line whose newline is still to come.
Pending(p) == writing[p] # None /\ writing[p].done = "line"

\* There is a newline more to come than there are lines that wait for one.
Surplus ==
    \E p \in Process :
        Pending(p) /\ (terminated \/ \E q \in Process \ {p} : Pending(q))

\* The file has an empty line, the trace of a surplus newline.
HasBlank == \E i \in 1..Len(journal) : journal[i] = Blank

\* No line ran into another: each is a whole record, all that was acknowledged or
\* is being written is there, and only the last waits for a newline.
AllWhole ==
    /\ \A i \in 1..Len(journal) : journal[i] \in File!CommitRecord
    /\ \A r \in acked \cup {writing[p].record : p \in Writer} :
          \E i \in 1..Len(journal) : journal[i] = r
    /\ \A p, q \in Process : Pending(p) /\ Pending(q) => p = q
    /\ terminated <=> \A p \in Process : ~Pending(p)

\* Lines that ran into one another leave a newline too many.
Accounted == cut \/ HasBlank \/ Surplus \/ AllWhole

\* The file that a piece of a line makes of a file of these lines.
FileAfter(lines, ended, piece) ==
    IF ended THEN Append(lines, piece)
    ELSE [lines EXCEPT ![Len(lines)] = File!Splice(@, piece)]

\* While the processes have not overlapped those that serve have one log, who
\* writes serves alone, and who is about to serve has replayed the file as it is.
Apart ==
    ~overlapped =>
        /\ \A p, q \in Serving : log[p] = log[q]
        /\ \A p \in Writer :
              /\ Serving = {p}
              /\ Len(log[p]) < MaxEntries /\ Len(writing[p].lines) < MaxEntries
              /\ journal = FileAfter(writing[p].lines, writing[p].ended, writing[p].record)
              /\ terminated = (writing[p].done = "newline")
        /\ \A p \in Process : phase[p] = "opened" /\ p \notin stale =>
              /\ Writer = {}
              /\ File!ReplayOK(journal)
              /\ log[p] = File!Replayed(journal)

IInv == TypeOK /\ Typed /\ Accounted /\ Apart

------------------------------------------------------------------------------
(* Reading and writing the file.                                             *)

\* The constants are those of LogStoreProofs.
LEMMA FileAssumed ==
    /\ P!StoreAssumption
    /\ File!CommitRecord = P!CommitRecord /\ File!Line = P!Line
    /\ MaxEntries \in Nat
    /\ Garbled \notin File!CommitRecord /\ BadUtf8 \notin File!CommitRecord
    /\ Blank \notin File!CommitRecord /\ Blank # Garbled /\ Blank # BadUtf8
    /\ None \notin Writing
    /\ WriteFaults \subseteq {"torn", "tornUtf8", "unterminated"}
BY ProcessAssumption
   DEF File!StoreAssumption, P!StoreAssumption, File!CommitRecord, P!CommitRecord,
       File!Line, P!Line, Writing, FileLine

\* Every process reads and writes the file as it is.
LEMMA SameFile ==
    ASSUME NEW p
    PROVE  /\ \A lines : Store(p)!ReplayOK(lines) <=> File!ReplayOK(lines)
           /\ \A lines : Store(p)!Replayed(lines) = File!Replayed(lines)
           /\ \A r, kind : Store(p)!Lines(r, kind) = File!Lines(r, kind)
           /\ \A payload, t : Store(p)!NewRecord(payload, t) =
                 [seq |-> Len(log[p]), logged_at |-> t, payload |-> payload]
           /\ Store(p)!Room <=> Len(log[p]) < MaxEntries /\ Len(journal) < MaxEntries
BY DEF Store!ReplayOK, File!ReplayOK, Store!CommitRecord, File!CommitRecord,
       Store!Replayed, File!Replayed, Store!Lines, File!Lines, Store!Piece, File!Piece,
       Store!Splice, File!Splice, Store!NewRecord, Store!Room

\* What a process has replayed is a log.
LEMMA ReplayedIsLog ==
    ASSUME Typed, File!ReplayOK(journal)
    PROVE  /\ File!Replayed(journal) \in Seq(File!CommitRecord)
           /\ journal \in Seq(File!Line)
<1>1. \A i \in 1..Len(journal) : journal[i] \in File!Line
  BY DEF File!ReplayOK, File!Line
<1>2. journal \in Seq(File!Line)
  BY <1>1 DEF Typed
<1>3. P!ReplayOK(journal) /\ P!Replayed(journal) = File!Replayed(journal)
  BY DEF P!ReplayOK, File!ReplayOK, P!Replayed, File!Replayed, P!CommitRecord, File!CommitRecord
<1>4. P!Replayed(journal) \in Seq(P!CommitRecord)
  BY <1>2, <1>3, FileAssumed, P!ReplayedIsLog
<1> QED
  BY <1>2, <1>3, <1>4, FileAssumed

\* A line written behind a newline is one more line, and one written behind a line
\* without it runs into that one.
LEMMA LinesAre ==
    ASSUME Typed, ~terminated => journal # <<>>, NEW r \in File!CommitRecord,
           NEW kind \in {"torn", "tornUtf8", "unterminated"}
    PROVE  /\ File!Lines(r, kind) \in Seq(FileLine)
           /\ File!Lines(r, kind) # <<>>
           /\ File!Lines(r, kind)[Len(File!Lines(r, kind))] # Blank
           /\ terminated => File!Lines(r, kind) = Append(journal, File!Piece(r, kind))
           /\ Len(File!Lines(r, kind)) >= Len(journal)
           /\ \A i \in 1..Len(journal) :
                 journal[i] = Blank => File!Lines(r, kind)[i] = Blank
<1>1. /\ File!Piece(r, kind) \in FileLine
      /\ File!Piece(r, kind) # Blank
      /\ \A line : File!Splice(line, File!Piece(r, kind)) \in {Garbled, BadUtf8}
  BY FileAssumed DEF File!Piece, File!Splice, FileLine, File!Line
<1> DEFINE piece == File!Piece(r, kind)
<1> HIDE DEF piece
<1>2. CASE terminated
  <2>1. File!Lines(r, kind) = Append(journal, piece)
    BY <1>2 DEF File!Lines, piece
  <2>2. piece \in FileLine /\ piece # Blank /\ journal \in Seq(FileLine)
    BY <1>1 DEF piece, Typed
  <2> QED
    BY <1>2, <2>1, <2>2 DEF piece
<1>3. CASE ~terminated
  <2> DEFINE line == File!Splice(journal[Len(journal)], piece)
  <2>1. line \in FileLine /\ line # Blank
    BY <1>1, FileAssumed DEF piece, FileLine, File!Line
  <2> HIDE DEF line
  <2>2. File!Lines(r, kind) = [journal EXCEPT ![Len(journal)] = line]
    BY <1>3 DEF File!Lines, piece, line
  <2>3. journal \in Seq(FileLine) /\ journal # <<>> /\ journal[Len(journal)] # Blank
    BY <1>3 DEF Typed
  <2> QED
    BY <1>3, <2>1, <2>2, <2>3
<1> QED
  BY <1>2, <1>3 DEF Typed

------------------------------------------------------------------------------
(* The types.                                                                *)

\* The file and the processes before anything was started.
LEMMA InvInit == Init => IInv
<1> SUFFICES ASSUME Init PROVE IInv
  OBVIOUS
<1>1. TypeOK
  BY DEF Init, TypeOK, Serving, Live
<1> HIDE DEF TypeOK
<1>5. Typed
  <2>1. <<>> \in Seq(FileLine) /\ <<>> \in Seq(File!CommitRecord)
    OBVIOUS
  <2> QED
    BY <2>1 DEF Init, Typed
<1>2. Writer = {} /\ Serving = {}
  BY DEF Init, Writer, Serving
<1>3. Accounted
  BY <1>2 DEF Init, Accounted, AllWhole, Pending
<1>4. Apart
  BY <1>2 DEF Init, Apart
<1> QED
  BY <1>1, <1>3, <1>4, <1>5 DEF IInv

\* A process starts.
LEMMA StartTypes ==
    ASSUME TypeOK, Typed, NEW p \in Process, NEW env \in Environment, Start(p, env)
    PROVE  TypeOK' /\ Typed'
<1>1. File!ReplayOK(journal) /\ log' = [log EXCEPT ![p] = File!Replayed(journal)]
  BY SameFile DEF Start
<1>2. Typed'
  BY <1>1, ReplayedIsLog DEF Start, fileVars, Typed
<1>3. /\ phase[p] = "off"
      /\ phase' = [phase EXCEPT ![p] = "opened"]
      /\ address' = [address EXCEPT ![p] = ConfigOf(env).bind]
      /\ stale' \in {stale \cup {p}, stale \ {p}}
      /\ UNCHANGED <<writing, journal, terminated, overlapped>>
  BY DEF Start, fileVars
<1> HIDE DEF ConfigOf
<1>4. Serving' = Serving /\ Live' = Live \cup {p} /\ p \notin Serving
  BY <1>3 DEF Serving, Live, TypeOK
<1>5. \A q \in Process : writing'[q] # None =>
         q \in Serving' /\ writing'[q].record.seq = Len(log'[q])
  BY <1>1, <1>3, <1>4 DEF TypeOK, Typed
<1>6. \A q, r \in Serving' : address'[q] = address'[r] => q = r
  BY <1>3, <1>4 DEF TypeOK, Serving
<1>7. /\ phase' \in [Process -> {"off", "opened", "serving"}]
      /\ address' \in [Process -> {ConfigOf(e).bind : e \in Environment} \cup {"default"}]
  BY <1>3 DEF TypeOK
<1>8. stale' \subseteq Live' /\ (stale' \cap Serving' # {} => overlapped')
  BY <1>3, <1>4 DEF TypeOK
<1> QED
  BY <1>2, <1>3, <1>5, <1>6, <1>7, <1>8 DEF TypeOK

\* A process is gone.
LEMMA GoneTypes ==
    ASSUME TypeOK, Typed, NEW p \in Process, Gone(p),
           UNCHANGED <<journal, terminated, acked>>, cut' \in BOOLEAN
    PROVE  TypeOK' /\ Typed'
<1>1. /\ phase' = [phase EXCEPT ![p] = "off"]
      /\ log' = [log EXCEPT ![p] = <<>>]
      /\ writing' = [writing EXCEPT ![p] = None]
      /\ address' = [address EXCEPT ![p] = "default"]
      /\ stale' = stale \ {p}
      /\ overlapped' = overlapped
  BY DEF Gone
<1>2. Typed'
  BY <1>1 DEF Typed
<1>3. Serving' = Serving \ {p} /\ Live' = Live \ {p}
  BY <1>1 DEF Serving, Live, TypeOK
<1>4. \A q \in Process : writing'[q] # None =>
         q \in Serving' /\ writing'[q].record.seq = Len(log'[q])
  BY <1>1, <1>3 DEF TypeOK, Typed
<1>5. \A q, r \in Serving' : address'[q] = address'[r] => q = r
  BY <1>1, <1>3 DEF TypeOK, Serving
<1> HIDE DEF ConfigOf
<1>6. /\ phase' \in [Process -> {"off", "opened", "serving"}]
      /\ address' \in [Process -> {ConfigOf(e).bind : e \in Environment} \cup {"default"}]
  BY <1>1 DEF TypeOK
<1>7. stale' \subseteq Live' /\ (stale' \cap Serving' # {} => overlapped')
  BY <1>1, <1>3 DEF TypeOK
<1> QED
  BY <1>2, <1>4, <1>5, <1>6, <1>7 DEF TypeOK

\* A process binds its address, if no other one serves there.
LEMMA BindTypes ==
    ASSUME TypeOK, Typed, NEW p \in Process, Bind(p)
    PROVE  TypeOK' /\ Typed'
<1>1. phase[p] = "opened" /\ UNCHANGED <<journal, terminated, acked, cut>>
  BY DEF Bind, fileVars
<1>2. CASE Taken(address[p])
  BY <1>1, <1>2, GoneTypes DEF Bind, Typed
<1>3. CASE ~Taken(address[p])
  <2>1. /\ phase' = [phase EXCEPT ![p] = "serving"]
        /\ UNCHANGED <<address, log, writing, stale>>
        /\ NotesOverlap
    BY <1>3 DEF Bind
  <2>2. Serving' = Serving \cup {p} /\ Live' = Live
    BY <1>1, <2>1 DEF Serving, Live, TypeOK
  <2>3. \A q \in Serving : address[q] # address[p]
    BY <1>3 DEF Taken, Serving
  <2>4. \A q, r \in Serving' : address'[q] = address'[r] => q = r
    BY <2>1, <2>2, <2>3 DEF TypeOK
  <2>5. stale' \cap Serving' # {} => overlapped'
    BY <2>1 DEF NotesOverlap, Serving
  <2>6. Typed'
    BY <1>1, <2>1 DEF Typed, NotesOverlap
  <2> QED
    BY <1>1, <2>1, <2>2, <2>4, <2>5, <2>6 DEF TypeOK
<1> QED
  BY <1>2, <1>3

\* The record that a process writes next.
LEMMA NewRecordIs ==
    ASSUME Typed, NEW p \in Process, NEW payload \in Payload, NEW t \in Time
    PROVE  /\ Store(p)!NewRecord(payload, t) \in File!CommitRecord
           /\ Store(p)!NewRecord(payload, t).seq = Len(log[p])
<1>1. Len(log[p]) \in Nat
  BY DEF Typed
<1>2. Store(p)!NewRecord(payload, t) = [seq |-> Len(log[p]), logged_at |-> t, payload |-> payload]
  BY SameFile
<1> QED
  BY <1>1, <1>2 DEF File!CommitRecord

\* What another process has written behind is stale before it serves on.
LEMMA NotedIsNoted ==
    ASSUME NotesOverlap
    PROVE  /\ overlapped' \in BOOLEAN
           /\ overlapped => overlapped'
           /\ stale' \cap Serving' # {} => overlapped'
           /\ ~overlapped' => \A q, r \in Serving' : log'[q] = log'[r]
BY DEF NotesOverlap, Serving

\* The first of the two writes of an append.
LEMMA WriteLineTypes ==
    ASSUME TypeOK, Typed, NEW p \in Process, NEW payload \in Payload, NEW t \in Time,
           WriteLine(p, payload, t)
    PROVE  TypeOK' /\ Typed'
<1> DEFINE r == Store(p)!NewRecord(payload, t)
<1>1. r \in File!CommitRecord /\ r.seq = Len(log[p])
  BY NewRecordIs
<1> HIDE DEF r
<1>2. /\ phase[p] = "serving"
      /\ journal' = File!Lines(r, "unterminated")
      /\ terminated' = FALSE
      /\ writing' = [writing EXCEPT ![p] =
                        [record |-> r, done |-> "line", lines |-> journal, ended |-> terminated]]
      /\ stale' = WrittenBehind(p)
      /\ UNCHANGED <<phase, address, log, acked, cut>>
      /\ NotesOverlap
  BY SameFile DEF WriteLine, CanAppend, r
<1>3. /\ journal' \in Seq(FileLine) /\ journal' # <<>>
      /\ journal'[Len(journal')] # Blank
  BY <1>1, <1>2, LinesAre DEF TypeOK
<1>4. [record |-> r, done |-> "line", lines |-> journal, ended |-> terminated] \in Writing
  BY <1>1 DEF Writing, Typed
<1>5. Typed'
  BY <1>2, <1>3, <1>4, NotedIsNoted DEF Typed
<1>6. Serving' = Serving /\ Live' = Live /\ p \in Serving
  BY <1>2 DEF Serving, Live
<1>7. ASSUME NEW q \in Process, writing'[q] # None
      PROVE  q \in Serving' /\ writing'[q].record.seq = Len(log'[q])
  <2>1. CASE q = p
    BY <1>1, <1>2, <1>6, <2>1 DEF Typed
  <2>2. CASE q # p
    BY <1>2, <1>6, <1>7, <2>2 DEF TypeOK, Typed
  <2> QED
    BY <2>1, <2>2
<1>8. stale' \subseteq Live' /\ (stale' \cap Serving' # {} => overlapped')
  BY <1>2, <1>6, NotedIsNoted DEF TypeOK, WrittenBehind
<1> QED
  BY <1>2, <1>3, <1>5, <1>6, <1>7, <1>8 DEF TypeOK

\* The second.
LEMMA WriteNewlineTypes ==
    ASSUME TypeOK, Typed, NEW p \in Process, WriteNewline(p)
    PROVE  TypeOK' /\ Typed'
<1>1. /\ writing[p] # None
      /\ journal' = IF terminated THEN Append(journal, Blank) ELSE journal
      /\ terminated' = TRUE
      /\ writing' = [writing EXCEPT ![p].done = "newline"]
      /\ UNCHANGED <<phase, address, log, acked, stale, overlapped, cut>>
  BY DEF WriteNewline
<1>2. writing[p] \in Writing
  BY <1>1 DEF Typed
<1>3. writing'[p] \in Writing /\ writing'[p].record = writing[p].record
  BY <1>1, <1>2 DEF Typed, Writing
<1>4. \A q \in Process : q # p => writing'[q] = writing[q]
  BY <1>1 DEF Typed
<1>5. journal' \in Seq(FileLine)
  BY <1>1 DEF Typed, FileLine
<1>6. writing' \in [Process -> Writing \cup {None}]
  BY <1>1, <1>3, <1>4 DEF Typed
<1>7. Typed'
  BY <1>1, <1>5, <1>6 DEF Typed
<1>8. Serving' = Serving /\ Live' = Live
  BY <1>1 DEF Serving, Live
<1>9. \A q \in Process : writing'[q] # None =>
         q \in Serving' /\ writing'[q].record.seq = Len(log'[q])
  BY <1>1, <1>3, <1>4, <1>8 DEF TypeOK
<1> QED
  BY <1>1, <1>7, <1>8, <1>9 DEF TypeOK

\* The end of an append.
LEMMA EndTypes ==
    ASSUME TypeOK, Typed, NEW p \in Process, Apply(p) \/ NewlineFails(p)
    PROVE  TypeOK' /\ Typed'
<1>1. /\ writing[p] # None
      /\ writing' = [writing EXCEPT ![p] = None]
      /\ log' \in {log, [log EXCEPT ![p] = Append(@, writing[p].record)]}
      /\ acked' \in {acked, acked \cup {writing[p].record}}
      /\ cut' \in {cut, TRUE}
      /\ UNCHANGED <<phase, address, journal, terminated, stale, overlapped>>
  BY DEF Apply, NewlineFails, fileVars
<1>2. writing[p].record \in File!CommitRecord
  BY <1>1 DEF Typed, Writing
<1>3. Typed'
  <2>1. log[p] \in Seq(File!CommitRecord)
    BY DEF Typed
  <2>2. Append(log[p], writing[p].record) \in Seq(File!CommitRecord)
    BY <1>2, <2>1
  <2>3. log' \in [Process -> Seq(File!CommitRecord)]
    BY <1>1, <2>2 DEF Typed
  <2> QED
    BY <1>1, <1>2, <2>3 DEF Typed
<1>4. Serving' = Serving /\ Live' = Live
  BY <1>1 DEF Serving, Live
<1>5. \A q \in Process : writing'[q] # None =>
         q \in Serving' /\ writing'[q].record.seq = Len(log'[q])
  BY <1>1, <1>4 DEF TypeOK, Typed
<1> QED
  BY <1>1, <1>3, <1>4, <1>5 DEF TypeOK

\* A line that is cut short.
LEMMA LineTornTypes ==
    ASSUME TypeOK, Typed, NEW p \in Process, NEW payload \in Payload, NEW t \in Time,
           NEW kind \in WriteFaults \cap {"torn", "tornUtf8"}, LineTorn(p, payload, t, kind)
    PROVE  TypeOK' /\ Typed'
<1> DEFINE r == Store(p)!NewRecord(payload, t)
<1>1. r \in File!CommitRecord
  BY NewRecordIs
<1> HIDE DEF r
<1>2. /\ phase[p] = "serving" /\ writing[p] = None
      /\ journal' = File!Lines(r, kind)
      /\ terminated' = FALSE
      /\ cut' = TRUE
      /\ UNCHANGED <<writing, acked>>
      /\ NotesOverlap
  BY SameFile DEF LineTorn, CanAppend, processVars, r
<1>3. /\ journal' \in Seq(FileLine) /\ journal' # <<>>
      /\ journal'[Len(journal')] # Blank
  BY <1>1, <1>2, LinesAre DEF TypeOK
<1>4. CASE UNCHANGED <<phase, address, log>> /\ stale' = WrittenBehind(p)
  <2>1. Serving' = Serving /\ Live' = Live
    BY <1>4 DEF Serving, Live
  <2>2. stale' \subseteq Live' /\ (stale' \cap Serving' # {} => overlapped')
    BY <1>2, <1>4, <2>1, NotedIsNoted DEF TypeOK, WrittenBehind
  <2>3. Typed'
    BY <1>2, <1>3, <1>4, NotedIsNoted DEF Typed
  <2> QED
    BY <1>2, <1>3, <1>4, <2>1, <2>2, <2>3 DEF TypeOK
<1>5. CASE /\ phase' = [phase EXCEPT ![p] = "off"]
           /\ log' = [log EXCEPT ![p] = <<>>]
           /\ address' = [address EXCEPT ![p] = "default"]
           /\ stale' = WrittenBehind(p) \ {p}
  <2>1. Serving' = Serving \ {p} /\ Live' = Live \ {p}
    BY <1>5 DEF Serving, Live, TypeOK
  <2>2. stale' \subseteq Live' /\ (stale' \cap Serving' # {} => overlapped')
    BY <1>2, <1>5, <2>1, NotedIsNoted DEF TypeOK, WrittenBehind
  <2>3. Typed'
    <3>1. log' \in [Process -> Seq(File!CommitRecord)]
      BY <1>5 DEF Typed
    <3> QED
      BY <1>2, <1>3, <3>1, NotedIsNoted DEF Typed
  <2>4. \A q \in Process : writing'[q] # None =>
           q \in Serving' /\ writing'[q].record.seq = Len(log'[q])
    BY <1>2, <1>5, <2>1 DEF TypeOK, Typed
  <2>5. \A q, s \in Serving' : address'[q] = address'[s] => q = s
    BY <1>5, <2>1 DEF TypeOK, Serving
  <2> HIDE DEF ConfigOf
  <2>6. /\ phase' \in [Process -> {"off", "opened", "serving"}]
        /\ address' \in [Process -> {ConfigOf(e).bind : e \in Environment} \cup {"default"}]
    BY <1>5 DEF TypeOK
  <2> QED
    BY <1>2, <1>3, <2>2, <2>3, <2>4, <2>5, <2>6 DEF TypeOK
<1> QED
  BY <1>4, <1>5 DEF LineTorn, processVars

\* Every step keeps the types.
LEMMA TypeNext == TypeOK /\ Typed /\ [Next]_vars => TypeOK' /\ Typed'
<1> SUFFICES ASSUME TypeOK, Typed, [Next]_vars PROVE TypeOK' /\ Typed'
  OBVIOUS
<1>1. ASSUME UNCHANGED vars PROVE TypeOK' /\ Typed'
  BY <1>1 DEF vars, processVars, fileVars, TypeOK, Typed, Serving, Live
<1>2. ASSUME NEW p \in Process, Crash(p) PROVE TypeOK' /\ Typed'
  <2>1. cut' \in BOOLEAN
    BY <1>2 DEF Crash, Typed
  <2> QED
    BY <1>2, <2>1, GoneTypes DEF Crash, fileVars
<1>3. ASSUME NEW p \in Process, NEW env \in Environment, StartFails(p, env)
      PROVE  TypeOK' /\ Typed'
  BY <1>1, <1>3 DEF StartFails
<1> QED
  BY <1>1, <1>2, <1>3, StartTypes, BindTypes, WriteLineTypes, WriteNewlineTypes, EndTypes,
     LineTornTypes
     DEF Next

\* In every reachable state the file and the processes have their types: no two
\* processes serve on one address, only a serving process writes, and one that
\* serves from stale memory was noted (api.rs run, TcpListener::bind).
THEOREM ProcessesTypeCorrect == Spec => []TypeOK
<1>1. Init => TypeOK /\ Typed
  BY InvInit DEF IInv
<1> QED
  BY <1>1, TypeNext, PTL DEF Spec

------------------------------------------------------------------------------
(* A line that ran into another leaves its trace.                            *)

\* Steps that touch neither the file nor a line that waits for its newline.
LEMMA AccountedKept ==
    ASSUME Typed, Accounted, UNCHANGED <<journal, terminated, cut>>,
           \A p \in Process : Pending(p)' <=> Pending(p),
           acked' \cup {writing'[p].record : p \in Writer'} \subseteq
               acked \cup {writing[p].record : p \in Writer}
    PROVE  Accounted'
<1>1. CASE cut
  BY <1>1 DEF Accounted
<1>2. CASE HasBlank
  BY <1>2 DEF Accounted, HasBlank
<1>3. CASE Surplus
  <2>1. Surplus'
    BY <1>3 DEF Surplus
  <2> QED
    BY <2>1 DEF Accounted
<1>4. CASE AllWhole
  <2>1. AllWhole'
    BY <1>4 DEF AllWhole
  <2> QED
    BY <2>1 DEF Accounted
<1> QED
  BY <1>1, <1>2, <1>3, <1>4 DEF Accounted

\* A whole line, behind a newline or into the line of another.
LEMMA WriteLineAccounted ==
    ASSUME TypeOK, Typed, Accounted, NEW p \in Process, NEW payload \in Payload, NEW t \in Time,
           WriteLine(p, payload, t)
    PROVE  Accounted'
<1> DEFINE r == Store(p)!NewRecord(payload, t)
<1>1. r \in File!CommitRecord
  BY NewRecordIs
<1> HIDE DEF r
<1>2. /\ writing[p] = None
      /\ journal' = File!Lines(r, "unterminated")
      /\ terminated' = FALSE
      /\ writing' = [writing EXCEPT ![p] =
                        [record |-> r, done |-> "line", lines |-> journal, ended |-> terminated]]
      /\ UNCHANGED <<acked, cut>>
  BY SameFile DEF WriteLine, CanAppend, r
<1>3. /\ Len(journal') >= Len(journal)
      /\ \A i \in 1..Len(journal) : journal[i] = Blank => journal'[i] = Blank
      /\ terminated => journal' = Append(journal, File!Piece(r, "unterminated"))
      /\ journal' \in Seq(FileLine)
  BY <1>1, <1>2, LinesAre DEF TypeOK
<1>4. [record |-> r, done |-> "line", lines |-> journal, ended |-> terminated] # None
  BY <1>1, FileAssumed DEF Writing, Typed
<1>5. /\ writing'[p] # None /\ writing'[p].done = "line" /\ writing'[p].record = r
      /\ \A q \in Process : q # p => writing'[q] = writing[q]
  BY <1>2, <1>4 DEF Typed
<1>6. /\ Pending(p)' /\ ~Pending(p)
      /\ \A q \in Process : q # p => (Pending(q)' <=> Pending(q))
  BY <1>2, <1>5 DEF Pending
<1>7. CASE cut
  BY <1>2, <1>7 DEF Accounted
<1>8. CASE HasBlank
  <2>1. HasBlank'
    BY <1>3, <1>8 DEF HasBlank, Typed
  <2> QED
    BY <2>1 DEF Accounted
<1>9. CASE Surplus \/ (AllWhole /\ ~terminated)
  <2>1. PICK q \in Process : Pending(q)
    BY <1>9 DEF Surplus, AllWhole
  <2>2. q # p
    BY <1>6, <2>1
  <2>3. Surplus'
    BY <1>6, <2>1, <2>2 DEF Surplus
  <2> QED
    BY <2>3 DEF Accounted
<1>10. CASE AllWhole /\ terminated
  <2>1. File!Piece(r, "unterminated") = r
    BY Zenon DEF File!Piece
  <2>2. journal' = Append(journal, r)
    BY <1>3, <1>10, <2>1
  <2>3. \A i \in 1..Len(journal') : journal'[i] \in File!CommitRecord
    BY <1>1, <1>10, <2>2 DEF AllWhole, Typed
  <2>4. ASSUME NEW s \in acked' \cup {writing'[q].record : q \in Writer'}
        PROVE  \E i \in 1..Len(journal') : journal'[i] = s
    <3>1. s = r \/ s \in acked \cup {writing[q].record : q \in Writer}
      BY <1>2, <1>5 DEF Writer
    <3>2. CASE s = r
      BY <2>2, <3>2 DEF Typed
    <3>3. CASE s \in acked \cup {writing[q].record : q \in Writer}
      <4>1. PICK i \in 1..Len(journal) : journal[i] = s
        BY <1>10, <3>3 DEF AllWhole
      <4>2. i \in 1..Len(journal') /\ journal'[i] = s
        BY <2>2, <4>1 DEF Typed
      <4> QED
        BY <4>2
    <3> QED
      BY <3>1, <3>2, <3>3
  <2>5. /\ \A q, s \in Process : Pending(q)' /\ Pending(s)' => q = s
        /\ ~(\A q \in Process : ~Pending(q)')
    BY <1>6, <1>10 DEF AllWhole
  <2>6. AllWhole'
    BY <1>2, <2>3, <2>4, <2>5 DEF AllWhole
  <2> QED
    BY <2>6 DEF Accounted
<1> QED
  BY <1>7, <1>8, <1>9, <1>10 DEF Accounted

\* Its newline, which is one too many where another has ended the line.
LEMMA WriteNewlineAccounted ==
    ASSUME TypeOK, Typed, Accounted, NEW p \in Process, WriteNewline(p)
    PROVE  Accounted'
<1>1. /\ Pending(p)
      /\ journal' = IF terminated THEN Append(journal, Blank) ELSE journal
      /\ terminated' = TRUE
      /\ writing' = [writing EXCEPT ![p].done = "newline"]
      /\ UNCHANGED <<acked, cut>>
  BY DEF WriteNewline, Pending
<1>2. writing[p] \in Writing
  BY <1>1 DEF Typed, Pending
<1>3. writing'[p] \in Writing /\ writing'[p].record = writing[p].record
      /\ writing'[p].done = "newline"
  BY <1>1, <1>2 DEF Typed, Writing
<1>4. \A q \in Process : q # p => writing'[q] = writing[q]
  BY <1>1 DEF Typed
<1>5. /\ ~Pending(p)'
      /\ \A q \in Process : q # p => (Pending(q)' <=> Pending(q))
  BY <1>3, <1>4 DEF Pending
<1>6. CASE cut
  BY <1>1, <1>6 DEF Accounted
<1>7. CASE HasBlank \/ terminated
  <2>1. HasBlank'
    <3>1. CASE terminated
      <4>1. journal' = Append(journal, Blank) /\ journal \in Seq(FileLine)
        BY <1>1, <3>1 DEF Typed
      <4>2. Len(journal') \in 1..Len(journal') /\ journal'[Len(journal')] = Blank
        BY <4>1
      <4> QED
        BY <4>2 DEF HasBlank
    <3>2. CASE ~terminated
      BY <1>1, <1>7, <3>2 DEF HasBlank
    <3> QED
      BY <3>1, <3>2
  <2> QED
    BY <2>1 DEF Accounted
<1>8. CASE Surplus /\ ~terminated
  <2>1. PICK q \in Process : q # p /\ Pending(q)
    BY <1>8 DEF Surplus
  <2>2. Surplus'
    BY <1>1, <1>5, <2>1 DEF Surplus
  <2> QED
    BY <2>2 DEF Accounted
<1>9. CASE AllWhole /\ ~terminated
  <2>1. journal' = journal
    BY <1>1, <1>9
  <2>2. \A q \in Process : ~Pending(q)'
    BY <1>1, <1>5, <1>9 DEF AllWhole
  <2>3. {writing'[q].record : q \in Writer'} = {writing[q].record : q \in Writer}
    <3>1. Writer' = Writer /\ \A q \in Writer : writing'[q].record = writing[q].record
      BY <1>1, <1>3, <1>4, FileAssumed DEF Writer, Pending
    <3> QED
      BY <3>1
  <2>4. AllWhole'
    BY <1>1, <1>9, <2>1, <2>2, <2>3 DEF AllWhole
  <2> QED
    BY <2>4 DEF Accounted
<1> QED
  BY <1>6, <1>7, <1>8, <1>9 DEF Accounted

\* Every step keeps each acknowledged record accounted for.
LEMMA AccountedNext == TypeOK /\ Typed /\ Accounted /\ [Next]_vars => Accounted'
<1> SUFFICES ASSUME TypeOK, Typed, Accounted, [Next]_vars PROVE Accounted'
  OBVIOUS
<1>1. ASSUME UNCHANGED <<writing, acked, journal, terminated, cut>> PROVE Accounted'
  BY <1>1, AccountedKept DEF Pending, Writer
<1>2. ASSUME NEW p \in Process, NEW env \in Environment, Start(p, env) \/ StartFails(p, env)
      PROVE  Accounted'
  BY <1>1, <1>2 DEF Start, StartFails, fileVars, vars, processVars
<1>3. ASSUME NEW p \in Process, Bind(p) PROVE Accounted'
  <2>1. phase[p] = "opened" /\ UNCHANGED <<journal, terminated, acked, cut>>
    BY <1>3 DEF Bind, fileVars
  <2>2. writing[p] = None
    BY <2>1 DEF TypeOK, Serving
  <2>3. writing' = writing
    BY <1>3, <2>2 DEF Bind, Gone, Typed
  <2> QED
    BY <1>1, <2>1, <2>3
<1>4. ASSUME NEW p \in Process, Crash(p) PROVE Accounted'
  <2>1. /\ writing' = [writing EXCEPT ![p] = None]
        /\ cut' = (cut \/ Pending(p))
        /\ UNCHANGED <<journal, terminated, acked>>
    BY <1>4 DEF Crash, Gone, fileVars, Pending
  <2>2. CASE cut \/ Pending(p)
    BY <2>1, <2>2 DEF Accounted
  <2>3. CASE ~(cut \/ Pending(p))
    <3>1. \A q \in Process : writing'[q] = IF q = p THEN None ELSE writing[q]
      BY <2>1 DEF Typed
    <3>2. \A q \in Process : Pending(q)' <=> Pending(q)
      BY <2>3, <3>1 DEF Pending
    <3>3. {writing'[q].record : q \in Writer'} \subseteq {writing[q].record : q \in Writer}
      BY <3>1 DEF Writer
    <3> QED
      BY <2>1, <2>3, <3>2, <3>3, AccountedKept DEF Typed
  <2> QED
    BY <2>2, <2>3
<1>5. ASSUME NEW p \in Process, Apply(p) PROVE Accounted'
  <2>1. /\ writing[p] # None /\ ~Pending(p)
        /\ writing' = [writing EXCEPT ![p] = None]
        /\ acked' = acked \cup {writing[p].record}
        /\ UNCHANGED <<journal, terminated, cut>>
    BY <1>5 DEF Apply, fileVars, Pending
  <2>2. \A q \in Process : writing'[q] = IF q = p THEN None ELSE writing[q]
    BY <2>1 DEF Typed
  <2>3. \A q \in Process : Pending(q)' <=> Pending(q)
    BY <2>1, <2>2 DEF Pending
  <2>4. acked' \cup {writing'[q].record : q \in Writer'} \subseteq
            acked \cup {writing[q].record : q \in Writer}
    BY <2>1, <2>2 DEF Writer
  <2> QED
    BY <2>1, <2>3, <2>4, AccountedKept
<1>6. ASSUME NEW p \in Process, NewlineFails(p) PROVE Accounted'
  BY <1>6 DEF NewlineFails, Accounted
<1>7. ASSUME NEW p \in Process, NEW payload \in Payload, NEW t \in Time,
             NEW kind \in WriteFaults \cap {"torn", "tornUtf8"}, LineTorn(p, payload, t, kind)
      PROVE  Accounted'
  BY <1>7 DEF LineTorn, Accounted
<1>8. CASE UNCHANGED vars
  BY <1>1, <1>8 DEF vars, processVars, fileVars
<1> QED
  BY <1>2, <1>3, <1>4, <1>5, <1>6, <1>7, <1>8, WriteLineAccounted, WriteNewlineAccounted DEF Next

\* Whatever processes wrote to one journal, through each other's lines or from
\* stale memory: once their appends have ended, and if none was cut, a journal that
\* replay accepts holds every acknowledged record on its line (store.rs append
\* takes no lock on the file, replay checks each line and its number).
THEOREM AcceptedJournalIsComplete == Spec => []AcceptedJournalHoldsAcked
<1>1. Init => TypeOK /\ Typed /\ Accounted
  BY InvInit DEF IInv
<1>2. ASSUME Typed, Accounted, \A p \in Process : writing[p] = None, ~cut,
             File!ReplayOK(journal), NEW r \in acked
      PROVE  File!OnDisk(r)
  <2>1. ~HasBlank
    BY <1>2, FileAssumed DEF HasBlank, File!ReplayOK
  <2>2. ~Surplus
    BY <1>2 DEF Surplus, Pending
  <2>3. AllWhole
    BY <1>2, <2>1, <2>2 DEF Accounted
  <2>4. PICK i \in 1..Len(journal) : journal[i] = r
    BY <2>3 DEF AllWhole
  <2>5. r \in File!CommitRecord /\ journal[i].seq = i - 1
    BY <1>2, <2>4, FileAssumed DEF File!ReplayOK, Typed
  <2>6. r.seq = i - 1 /\ Len(journal) \in Nat
    BY <1>2, <2>4, <2>5 DEF Typed
  <2> QED
    BY <2>4, <2>6 DEF File!OnDisk
<1>3. Typed /\ Accounted => AcceptedJournalHoldsAcked
  BY <1>2 DEF AcceptedJournalHoldsAcked
<1> QED
  BY <1>1, <1>3, TypeNext, AccountedNext, PTL DEF Spec

------------------------------------------------------------------------------
(* Apart, the processes are one store.                                       *)

\* What a write makes of the file.
LEMMA LinesAfter ==
    ASSUME NEW r, NEW kind
    PROVE  File!Lines(r, kind) = FileAfter(journal, terminated, File!Piece(r, kind))
BY DEF File!Lines, FileAfter

\* Who writes without overlap is the only one that serves, and all others that
\* live are stale.
LEMMA SoleWriter ==
    ASSUME TypeOK, Apart, ~overlapped, NEW p \in Writer
    PROVE  /\ Serving = {p} /\ Writer = {p}
           /\ \A q \in Process : phase[q] = "opened" => q \in stale
BY DEF TypeOK, Apart, Writer

\* Whoever writes without overlap served alone.
LEMMA SoleServer ==
    ASSUME TypeOK, Apart, NEW p \in Serving, writing[p] = None, NotesOverlap, ~overlapped',
           \/ Serving' = Serving /\ stale' = WrittenBehind(p)
           \/ Serving' = Serving \ {p} /\ stale' = WrittenBehind(p) \ {p}
    PROVE  Serving = {p} /\ Writer = {}
<1>1. ~overlapped /\ stale' \cap Serving' = {}
  BY NotedIsNoted
<1>2. \A q \in Serving : q = p
  BY <1>1 DEF WrittenBehind, Live, Serving
<1>3. Serving = {p}
  BY <1>2
<1>4. \A q \in Writer : q = p
  BY <1>1, <1>3, SoleWriter
<1> QED
  BY <1>3, <1>4 DEF Writer

\* A process that is gone leaves the others apart.
LEMMA GoneApart ==
    ASSUME TypeOK, Typed, Apart, NEW p \in Process, Gone(p), UNCHANGED <<journal, terminated>>
    PROVE  Apart'
<1> SUFFICES ASSUME ~overlapped PROVE Apart'
  BY DEF Gone, Apart
<1>1. /\ Serving' = Serving \ {p} /\ Writer' = Writer \ {p}
      /\ \A q \in Process : q # p =>
            log'[q] = log[q] /\ writing'[q] = writing[q] /\ phase'[q] = phase[q]
      /\ phase'[p] = "off" /\ stale' = stale \ {p}
  BY DEF Gone, Serving, Writer, TypeOK, Typed
<1>2. \A q, r \in Serving' : log'[q] = log'[r]
  BY <1>1 DEF Apart, Serving
<1>3. ASSUME NEW q \in Writer'
      PROVE  /\ Serving' = {q}
             /\ Len(log'[q]) < MaxEntries /\ Len(writing'[q].lines) < MaxEntries
             /\ journal' = FileAfter(writing'[q].lines, writing'[q].ended, writing'[q].record)
             /\ terminated' = (writing'[q].done = "newline")
  BY <1>1 DEF Apart, Writer
<1>4. ASSUME NEW q \in Process, phase'[q] = "opened", q \notin stale'
      PROVE  Writer' = {} /\ File!ReplayOK(journal)' /\ log'[q] = File!Replayed(journal')
  <2>1. q # p
    BY <1>1, <1>4
  <2>2. Writer = {} /\ File!ReplayOK(journal) /\ log[q] = File!Replayed(journal)
    BY <1>1, <1>4, <2>1 DEF Apart
  <2> QED
    BY <1>1, <2>1, <2>2
<1> QED
  BY <1>2, <1>3, <1>4 DEF Apart

\* Every step keeps the processes apart, or notes that they overlapped.
LEMMA ApartNext == TypeOK /\ Typed /\ Apart /\ [Next]_vars => Apart'
<1> SUFFICES ASSUME TypeOK, Typed, Apart, [Next]_vars, ~overlapped' PROVE Apart'
  BY DEF Apart
<1>1. CASE UNCHANGED vars
  BY <1>1 DEF vars, processVars, fileVars, Apart, Serving, Writer
<1>2. ASSUME NEW p \in Process, NEW env \in Environment, StartFails(p, env)
      PROVE  Apart'
  BY <1>1, <1>2 DEF StartFails
<1>3. ASSUME NEW p \in Process, NEW env \in Environment, Start(p, env)
      PROVE  Apart'
  <2>1. /\ phase[p] = "off" /\ phase' = [phase EXCEPT ![p] = "opened"]
        /\ File!ReplayOK(journal) /\ log' = [log EXCEPT ![p] = File!Replayed(journal)]
        /\ stale' = IF Writer # {} THEN stale \cup {p} ELSE stale \ {p}
        /\ UNCHANGED <<writing, journal, terminated, overlapped>>
    BY <1>3, SameFile DEF Start, fileVars, Writer
  <2>2. /\ Serving' = Serving /\ Writer' = Writer /\ p \notin Serving /\ p \notin Writer
        /\ \A q \in Process : q # p => log'[q] = log[q] /\ phase'[q] = phase[q]
    BY <2>1 DEF Serving, Writer, TypeOK, Typed
  <2>3. log'[p] = File!Replayed(journal)
    BY <2>1 DEF Typed
  <2>4. \A q, r \in Serving' : log'[q] = log'[r]
    BY <2>1, <2>2 DEF Apart, Serving
  <2>5. ASSUME NEW q \in Writer'
        PROVE  /\ Serving' = {q}
               /\ Len(log'[q]) < MaxEntries /\ Len(writing'[q].lines) < MaxEntries
               /\ journal' = FileAfter(writing'[q].lines, writing'[q].ended, writing'[q].record)
               /\ terminated' = (writing'[q].done = "newline")
    BY <2>1, <2>2 DEF Apart, Writer
  <2>6. ASSUME NEW q \in Process, phase'[q] = "opened", q \notin stale'
        PROVE  Writer' = {} /\ File!ReplayOK(journal)' /\ log'[q] = File!Replayed(journal')
    BY <2>1, <2>2, <2>3, <2>6 DEF Apart
  <2> QED
    BY <2>4, <2>5, <2>6 DEF Apart
<1>4. ASSUME NEW p \in Process, Bind(p) PROVE Apart'
  <2>1. phase[p] = "opened" /\ UNCHANGED <<journal, terminated>>
    BY <1>4 DEF Bind, fileVars
  <2>2. CASE Taken(address[p])
    BY <1>4, <2>1, <2>2, GoneApart DEF Bind
  <2>3. CASE ~Taken(address[p])
    <3>1. /\ phase' = [phase EXCEPT ![p] = "serving"]
          /\ UNCHANGED <<address, log, writing, stale>>
          /\ NotesOverlap
      BY <1>4, <2>3 DEF Bind
    <3>2. Serving' = Serving \cup {p} /\ Writer' = Writer
      BY <2>1, <3>1 DEF Serving, Writer, TypeOK
    <3>3. ~overlapped /\ p \notin stale /\ \A q, r \in Serving' : log'[q] = log'[r]
      BY <3>1, <3>2, NotedIsNoted
    <3>4. Writer' = {}
      BY <2>1, <3>2, <3>3 DEF Apart
    <3>5. \A q \in Process : phase'[q] = "opened" => phase[q] = "opened"
      BY <3>1 DEF TypeOK
    <3> QED
      BY <2>1, <3>1, <3>3, <3>4, <3>5 DEF Apart
  <2> QED
    BY <2>2, <2>3
<1>5. ASSUME NEW p \in Process, Crash(p) PROVE Apart'
  BY <1>5, GoneApart DEF Crash, fileVars
<1>6. ASSUME NEW p \in Process, NEW payload \in Payload, NEW t \in Time, WriteLine(p, payload, t)
      PROVE  Apart'
  <2> DEFINE r == Store(p)!NewRecord(payload, t)
             w == [record |-> r, done |-> "line", lines |-> journal, ended |-> terminated]
  <2>1. /\ phase[p] = "serving" /\ writing[p] = None
        /\ Len(log[p]) < MaxEntries /\ Len(journal) < MaxEntries
        /\ journal' = File!Lines(r, "unterminated") /\ terminated' = FALSE
        /\ writing' = [writing EXCEPT ![p] = w]
        /\ stale' = WrittenBehind(p)
        /\ UNCHANGED <<phase, log>>
        /\ NotesOverlap
    BY <1>6, SameFile DEF WriteLine, CanAppend
  <2>2. Serving' = Serving /\ p \in Serving
    BY <2>1 DEF Serving
  <2>3. Serving = {p} /\ Writer = {}
    BY <2>1, <2>2, SoleServer
  <2>4. File!Piece(r, "unterminated") = r
    BY Zenon DEF File!Piece
  <2>5. journal' = FileAfter(w.lines, w.ended, w.record)
    BY <2>1, <2>4, LinesAfter
  <2> HIDE DEF w
  <2>6. writing'[p] = w /\ Writer' \subseteq {p}
    BY <2>1, <2>3 DEF Typed, Writer
  <2>7. w.done # "newline" /\ w.lines = journal
    BY DEF w
  <2>8. \A q \in Process : phase'[q] = "opened" => q \in stale'
    BY <2>1 DEF WrittenBehind, Live
  <2>9. \A q \in Writer' :
           /\ Serving' = {q}
           /\ Len(log'[q]) < MaxEntries /\ Len(writing'[q].lines) < MaxEntries
           /\ journal' = FileAfter(writing'[q].lines, writing'[q].ended, writing'[q].record)
           /\ terminated' = (writing'[q].done = "newline")
    BY <2>1, <2>2, <2>3, <2>5, <2>6, <2>7
  <2> QED
    BY <2>2, <2>3, <2>8, <2>9 DEF Apart
<1>7. ASSUME NEW p \in Process, WriteNewline(p) PROVE Apart'
  <2>1. /\ writing[p] # None /\ writing[p].done = "line"
        /\ journal' = IF terminated THEN Append(journal, Blank) ELSE journal
        /\ terminated' = TRUE
        /\ writing' = [writing EXCEPT ![p].done = "newline"]
        /\ UNCHANGED <<phase, log, stale, overlapped>>
    BY <1>7 DEF WriteNewline
  <2>2. p \in Writer
    BY <2>1 DEF Writer
  <2>3. Serving = {p} /\ Writer = {p} /\ \A q \in Process : phase[q] = "opened" => q \in stale
    BY <2>1, <2>2, SoleWriter
  <2>4. journal' = journal /\ Serving' = Serving
    BY <2>1, <2>2 DEF Apart, Serving
  <2>5. writing[p] \in Writing
    BY <2>1 DEF Typed
  <2>6. /\ writing'[p].done = "newline" /\ writing'[p].record = writing[p].record
        /\ writing'[p].lines = writing[p].lines /\ writing'[p].ended = writing[p].ended
    BY <2>1, <2>5 DEF Typed, Writing
  <2>7. \A q \in Process : q # p => writing'[q] = writing[q]
    BY <2>1 DEF Typed
  <2>8. Writer' \subseteq {p}
    BY <2>3, <2>7 DEF Writer
  <2>9. \A q \in Writer' :
           /\ Serving' = {q}
           /\ Len(log'[q]) < MaxEntries /\ Len(writing'[q].lines) < MaxEntries
           /\ journal' = FileAfter(writing'[q].lines, writing'[q].ended, writing'[q].record)
           /\ terminated' = (writing'[q].done = "newline")
    BY <2>1, <2>2, <2>3, <2>4, <2>6, <2>8 DEF Apart
  <2> QED
    BY <2>1, <2>3, <2>4, <2>9 DEF Apart
<1>8. ASSUME NEW p \in Process, Apply(p) \/ NewlineFails(p) PROVE Apart'
  <2>1. /\ writing[p] # None
        /\ writing' = [writing EXCEPT ![p] = None]
        /\ UNCHANGED <<phase, stale, overlapped>>
    BY <1>8 DEF Apply, NewlineFails
  <2>2. Serving = {p} /\ Writer = {p} /\ \A q \in Process : phase[q] = "opened" => q \in stale
    BY <2>1, SoleWriter DEF Writer
  <2>3. Serving' = {p} /\ Writer' = {}
    BY <2>1, <2>2 DEF Serving, Writer, Typed
  <2> QED
    BY <2>1, <2>2, <2>3 DEF Apart
<1>9. ASSUME NEW p \in Process, NEW payload \in Payload, NEW t \in Time,
             NEW kind \in WriteFaults \cap {"torn", "tornUtf8"}, LineTorn(p, payload, t, kind)
      PROVE  Apart'
  <2>1. /\ phase[p] = "serving" /\ writing[p] = None /\ writing' = writing
        /\ NotesOverlap
        /\ \/ UNCHANGED <<phase, log>> /\ stale' = WrittenBehind(p)
           \/ phase' = [phase EXCEPT ![p] = "off"] /\ stale' = WrittenBehind(p) \ {p}
    BY <1>9 DEF LineTorn, CanAppend, processVars
  <2>2. /\ p \in Serving
        /\ \/ Serving' = Serving /\ stale' = WrittenBehind(p)
           \/ Serving' = Serving \ {p} /\ stale' = WrittenBehind(p) \ {p}
    BY <2>1 DEF Serving, TypeOK
  <2>3. Serving = {p} /\ Writer = {}
    BY <2>1, <2>2, SoleServer
  <2>4. Writer' = {}
    BY <2>1, <2>3 DEF Writer
  <2>5. \A q \in Process : phase'[q] = "opened" => q \in stale'
    BY <2>1 DEF WrittenBehind, Live, TypeOK
  <2> QED
    BY <2>2, <2>3, <2>4, <2>5 DEF Apart
<1> QED
  BY <1>1, <1>2, <1>3, <1>4, <1>5, <1>6, <1>7, <1>8, <1>9 DEF Next

\* Every step keeps the invariant.
LEMMA InvNext == IInv /\ [Next]_vars => IInv'
BY TypeNext, AccountedNext, ApartNext DEF IInv

\* The inductive invariant always holds.
LEMMA Invariant == Spec => []IInv
BY InvInit, InvNext, PTL DEF Spec

\* The one store: what is served, and the file before the append under way.
OneStatus == IF Serving = {} THEN "down" ELSE "up"
OneLog    == IF Serving = {} THEN <<>> ELSE log[TheServer]
OneFile   == IF Writer = {} THEN journal ELSE writing[TheWriter].lines
OneEnded  == IF Writer = {} THEN terminated ELSE writing[TheWriter].ended

\* The one store stands still exactly if what it is made of does.
LEMMA OneVars ==
    UNCHANGED One!vars <=> UNCHANGED <<OneStatus, OneLog, OneFile, OneEnded, acked>>
BY DEF One!vars, OneStatus, OneLog, OneFile, OneEnded

\* What it serves and what its file is, with one process or none to look at.
LEMMA OneIs ==
    /\ \A p \in Process : Serving = {p} => OneStatus = "up" /\ OneLog = log[p]
    /\ \A p \in Process :
          Writer = {p} => OneFile = writing[p].lines /\ OneEnded = writing[p].ended
    /\ Serving = {} => OneStatus = "down" /\ OneLog = <<>>
    /\ Writer = {} => OneFile = journal /\ OneEnded = terminated
BY DEF OneStatus, OneLog, OneFile, OneEnded, TheServer, TheWriter

\* Those that serve have one log.
LEMMA OneLogIs ==
    ASSUME \A q, r \in Serving : log[q] = log[r], NEW p \in Serving
    PROVE  OneStatus = "up" /\ OneLog = log[p]
<1>1. TheServer \in Serving
  BY DEF TheServer
<1> QED
  BY <1>1 DEF OneStatus, OneLog

\* An append of the one store, by how much of it is written and how it ends.
LEMMA OneAppends ==
    ASSUME NEW r \in File!CommitRecord, NEW kind \in {"full", "torn", "tornUtf8", "unterminated"},
           OneStatus = "up", r.seq = Len(OneLog),
           Len(OneLog) < MaxEntries, Len(OneFile) < MaxEntries,
           OneFile' = FileAfter(OneFile, OneEnded, File!Piece(r, kind)),
           OneEnded' = (kind = "full"),
           \/ /\ kind = "full"
              /\ OneStatus' = OneStatus /\ OneLog' = Append(OneLog, r)
              /\ acked' = acked \cup {r}
           \/ /\ kind \in WriteFaults
              /\ UNCHANGED <<OneStatus, OneLog, acked>>
           \/ /\ kind \in WriteFaults \cup {"full"}
              /\ OneStatus' = "down" /\ OneLog' = <<>>
              /\ acked' = acked
    PROVE  One!Next
<1> DEFINE p == r.payload
           t == r.logged_at
<1>1. p \in Payload /\ t \in Time
  BY DEF File!CommitRecord
<1>2. r = [seq |-> Len(OneLog), logged_at |-> t, payload |-> p]
  BY DEF File!CommitRecord
<1>3. One!NewRecord(p, t) = r
  BY <1>2 DEF One!NewRecord, OneLog
<1>4. One!Write(r, kind)
  <2>1. One!Lines(r, kind) = FileAfter(OneFile, OneEnded, File!Piece(r, kind))
    BY DEF One!Lines, FileAfter, One!Piece, File!Piece, One!Splice, File!Splice, OneFile, OneEnded
  <2> QED
    BY <2>1 DEF One!Write, OneFile, OneEnded
<1>5. One!Room
  BY DEF One!Room, OneLog, OneFile
<1> HIDE DEF p, t
<1>6. CASE kind = "full" /\ OneStatus' = OneStatus /\ OneLog' = Append(OneLog, r)
                         /\ acked' = acked \cup {r}
  BY <1>1, <1>3, <1>4, <1>5, <1>6 DEF One!AppendEntry, One!Next, OneStatus, OneLog
<1>7. CASE kind \in WriteFaults /\ UNCHANGED <<OneStatus, OneLog, acked>>
  BY <1>1, <1>3, <1>4, <1>5, <1>7 DEF One!AppendFails, One!Next, OneStatus, OneLog
<1>8. CASE kind \in WriteFaults \cup {"full"} /\ OneStatus' = "down" /\ OneLog' = <<>>
                                              /\ acked' = acked
  BY <1>1, <1>3, <1>4, <1>5, <1>8 DEF One!CrashInAppend, One!Next, OneStatus, OneLog
<1> QED
  BY <1>6, <1>7, <1>8

\* The same of the next state.
LEMMA OneWillBe ==
    /\ \A p \in Process : Serving' = {p} => OneStatus' = "up" /\ OneLog' = log'[p]
    /\ \A p \in Process :
          Writer' = {p} => OneFile' = writing'[p].lines /\ OneEnded' = writing'[p].ended
    /\ Serving' = {} => OneStatus' = "down" /\ OneLog' = <<>>
    /\ Writer' = {} => OneFile' = journal' /\ OneEnded' = terminated'
BY DEF OneStatus, OneLog, OneFile, OneEnded, TheServer, TheWriter

\* Steps that are none of the one store's.
LEMMA OneKept ==
    ASSUME Serving' = Serving, Writer' = Writer, UNCHANGED <<journal, terminated, acked>>,
           \A q \in Serving : log'[q] = log[q], \A q \in Writer : writing'[q] = writing[q]
    PROVE  UNCHANGED One!vars
<1>1. /\ Serving # {} => TheServer \in Serving
      /\ Writer # {} => TheWriter \in Writer
  BY DEF TheServer, TheWriter
<1>2. TheServer' = TheServer /\ TheWriter' = TheWriter
  BY DEF TheServer, TheWriter
<1> HIDE DEF TheServer, TheWriter
<1> QED
  BY <1>1, <1>2, OneVars DEF OneStatus, OneLog, OneFile, OneEnded

\* A process is gone: it was not serving, or one of several, or the one store is
\* down from then on, in the middle of an append or not.
LEMMA GoneSteps ==
    ASSUME "unterminated" \in WriteFaults, IInv, ~overlapped, NEW p \in Process, Gone(p),
           UNCHANGED <<journal, terminated, acked>>
    PROVE  One!Next \/ UNCHANGED One!vars
<1>1. /\ Serving' = Serving \ {p} /\ Writer' = Writer \ {p}
      /\ \A q \in Process : q # p => log'[q] = log[q] /\ writing'[q] = writing[q]
  BY DEF IInv, Gone, Serving, Writer, TypeOK, Typed
<1>2. Serving \subseteq Process /\ Writer \subseteq Serving
  BY DEF IInv, TypeOK, Serving, Writer
<1>3. CASE p \notin Serving
  <2>1. Serving' = Serving /\ Writer' = Writer
    BY <1>1, <1>2, <1>3
  <2> QED
    BY <1>1, <1>2, <1>3, <2>1, OneKept
<1>4. CASE p \in Writer
  <2> DEFINE r == writing[p].record
             kind == IF writing[p].done = "line" THEN "unterminated" ELSE "full"
  <2>1. Serving = {p} /\ Writer = {p} /\ Serving' = {} /\ Writer' = {}
    BY <1>1, <1>4, SoleWriter DEF IInv
  <2>2. writing[p] \in Writing /\ r.seq = Len(log[p])
    BY <1>4 DEF IInv, TypeOK, Typed, Writer
  <2>3. r \in File!CommitRecord /\ writing[p].done \in {"line", "newline"}
    BY <2>2 DEF Writing
  <2>4. File!Piece(r, kind) = r
    <3>1. File!Piece(r, "unterminated") = r /\ File!Piece(r, "full") = r
      BY Zenon DEF File!Piece
    <3> QED
      BY <3>1
  <2>5. /\ OneStatus = "up" /\ OneLog = log[p]
        /\ OneFile = writing[p].lines /\ OneEnded = writing[p].ended
    BY <2>1, OneIs
  <2>6. /\ OneStatus' = "down" /\ OneLog' = <<>>
        /\ OneFile' = journal /\ OneEnded' = terminated
    BY <2>1, OneWillBe
  <2>7. /\ Len(log[p]) < MaxEntries /\ Len(writing[p].lines) < MaxEntries
        /\ journal = FileAfter(writing[p].lines, writing[p].ended, r)
        /\ terminated = (writing[p].done = "newline")
    BY <1>4 DEF IInv, Apart
  <2> HIDE DEF r
  <2>8. /\ OneEnded' = (kind = "full")
        /\ kind \in {"full", "torn", "tornUtf8", "unterminated"}
        /\ kind \in WriteFaults \cup {"full"}
    BY <2>3, <2>6, <2>7
  <2>9. OneFile' = FileAfter(OneFile, OneEnded, File!Piece(r, kind))
    BY <2>4, <2>5, <2>6, <2>7
  <2> HIDE DEF kind
  <2> QED
    BY <2>2, <2>3, <2>5, <2>6, <2>7, <2>8, <2>9, OneAppends DEF r
<1>5. CASE p \in Serving /\ p \notin Writer
  <2>1. Writer = {} /\ Writer' = {}
    BY <1>1, <1>5, <1>2, SoleWriter DEF IInv
  <2>2. OneFile' = OneFile /\ OneEnded' = OneEnded
    BY <2>1, OneIs, OneWillBe
  <2>3. CASE Serving = {p}
    <3>1. OneStatus = "up" /\ OneStatus' = "down" /\ OneLog' = <<>>
      BY <1>1, <2>3, OneIs, OneWillBe
    <3>2. One!Crash
      BY <2>2, <3>1 DEF One!Crash, OneStatus, OneLog, OneFile, OneEnded
    <3> QED
      BY <3>2 DEF One!Next
  <2>4. CASE Serving # {p}
    <3>1. PICK q \in Serving : q # p
      BY <1>5, <2>4
    <3>2. q \in Serving'
      BY <1>1, <3>1
    <3>3. \A s, u \in Serving : log[s] = log[u]
      BY DEF IInv, Apart
    <3>4. \A s, u \in Serving' : log'[s] = log'[u]
      BY <1>1, <1>2, <3>3
    <3>5. OneStatus = "up" /\ OneLog = log[q]
      BY <3>1, <3>3, OneLogIs
    <3>6. OneStatus' = "up" /\ OneLog' = log'[q]
      <4>1. TheServer' \in Serving'
        BY <3>2 DEF TheServer
      <4> QED
        BY <3>2, <3>4, <4>1 DEF OneStatus, OneLog
    <3> QED
      BY <1>1, <1>2, <2>2, <3>1, <3>5, <3>6, OneVars
  <2> QED
    BY <2>3, <2>4
<1> QED
  BY <1>3, <1>4, <1>5

\* A start that replays, waits and binds is one Open, in the step that binds.
LEMMA BindSteps ==
    ASSUME "unterminated" \in WriteFaults, IInv, ~overlapped', NEW p \in Process, Bind(p)
    PROVE  One!Next \/ UNCHANGED One!vars
<1>1. phase[p] = "opened" /\ UNCHANGED <<journal, terminated, acked>>
  BY DEF Bind, fileVars
<1>2. CASE Taken(address[p])
  BY <1>1, <1>2, GoneSteps DEF Bind, Gone
<1>3. CASE ~Taken(address[p])
  <2>1. /\ phase' = [phase EXCEPT ![p] = "serving"]
        /\ UNCHANGED <<address, log, writing, stale>>
        /\ NotesOverlap
    BY <1>3 DEF Bind
  <2>2. Serving' = Serving \cup {p} /\ Writer' = Writer
    BY <1>1, <2>1 DEF Serving, Writer, IInv, TypeOK
  <2>3. /\ ~overlapped /\ p \notin stale
        /\ \A q, r \in Serving' : log[q] = log[r]
    BY <2>1, <2>2, NotedIsNoted
  <2>4. Writer = {} /\ File!ReplayOK(journal) /\ log[p] = File!Replayed(journal)
    BY <1>1, <2>3 DEF IInv, Apart
  <2>5. OneFile = journal /\ OneEnded = terminated /\ OneFile' = OneFile /\ OneEnded' = OneEnded
    BY <1>1, <2>2, <2>4, OneIs, OneWillBe
  <2>6. OneStatus' = "up" /\ OneLog' = log[p]
    <3>1. TheServer' \in Serving'
      BY <2>2 DEF TheServer
    <3> QED
      BY <2>1, <2>2, <2>3, <3>1 DEF OneStatus, OneLog
  <2>7. CASE Serving = {}
    <3>1. OneStatus = "down"
      BY <2>7, OneIs
    <3>2. One!ReplayOK(journal) /\ One!Replayed(journal) = log[p]
      BY <2>4 DEF One!ReplayOK, File!ReplayOK, One!Replayed, File!Replayed,
                  One!CommitRecord, File!CommitRecord
    <3>3. One!Open
      BY <1>1, <2>5, <2>6, <3>1, <3>2 DEF One!Open, OneStatus, OneLog, OneFile, OneEnded
    <3> QED
      BY <3>3 DEF One!Next
  <2>8. CASE Serving # {}
    <3>1. PICK q \in Serving : TRUE
      BY <2>8
    <3>2. OneStatus = "up" /\ OneLog = log[q] /\ log[q] = log[p]
      BY <2>2, <2>3, <3>1, OneLogIs
    <3> QED
      BY <1>1, <2>5, <2>6, <3>2, OneVars
  <2> QED
    BY <2>7, <2>8
<1> QED
  BY <1>2, <1>3

\* The two writes of an append are none of the one store's steps, its end is.
LEMMA EndSteps ==
    ASSUME "unterminated" \in WriteFaults, IInv, ~overlapped, NEW p \in Process,
           Apply(p) \/ NewlineFails(p)
    PROVE  One!Next
<1> DEFINE r == writing[p].record
<1>1. /\ p \in Writer
      /\ writing' = [writing EXCEPT ![p] = None]
      /\ UNCHANGED <<phase, journal, terminated>>
  BY DEF Apply, NewlineFails, fileVars, Writer
<1>2. Serving = {p} /\ Writer = {p}
  BY <1>1, SoleWriter DEF IInv
<1>3. Serving' = {p} /\ Writer' = {}
  BY <1>1, <1>2 DEF Serving, Writer, IInv, Typed
<1>4. writing[p] \in Writing /\ r.seq = Len(log[p])
  BY <1>1 DEF IInv, TypeOK, Typed, Writer
<1>5. r \in File!CommitRecord
  BY <1>4 DEF Writing
<1>6. /\ OneStatus = "up" /\ OneLog = log[p]
      /\ OneFile = writing[p].lines /\ OneEnded = writing[p].ended
  BY <1>2, OneIs
<1>7. /\ OneStatus' = "up" /\ OneLog' = log'[p]
      /\ OneFile' = journal /\ OneEnded' = terminated
  BY <1>1, <1>3, OneWillBe
<1>8. /\ Len(log[p]) < MaxEntries /\ Len(writing[p].lines) < MaxEntries
      /\ journal = FileAfter(writing[p].lines, writing[p].ended, r)
      /\ terminated = (writing[p].done = "newline")
  BY <1>1 DEF IInv, Apart
<1>9. File!Piece(r, "unterminated") = r /\ File!Piece(r, "full") = r
  BY Zenon DEF File!Piece
<1>10. CASE Apply(p)
  <2>1. writing[p].done = "newline" /\ acked' = acked \cup {r}
        /\ log' = [log EXCEPT ![p] = Append(@, r)]
    BY <1>10 DEF Apply
  <2>2. log'[p] = Append(log[p], r)
    BY <2>1 DEF IInv, Typed
  <2> HIDE DEF r
  <2>3. OneFile' = FileAfter(OneFile, OneEnded, File!Piece(r, "full"))
    BY <1>6, <1>7, <1>8, <1>9
  <2>4. OneStatus' = OneStatus /\ OneLog' = Append(OneLog, r) /\ OneEnded' = TRUE
    BY <1>6, <1>7, <1>8, <2>1, <2>2
  <2> QED
    BY <1>4, <1>5, <1>6, <1>8, <2>1, <2>3, <2>4, OneAppends
<1>11. CASE NewlineFails(p)
  <2>1. writing[p].done = "line" /\ UNCHANGED <<acked, log>>
    BY <1>11 DEF NewlineFails
  <2> HIDE DEF r
  <2>2. OneFile' = FileAfter(OneFile, OneEnded, File!Piece(r, "unterminated"))
    BY <1>6, <1>7, <1>8, <1>9
  <2>3. OneStatus' = OneStatus /\ OneLog' = OneLog /\ OneEnded' = FALSE
    BY <1>6, <1>7, <1>8, <2>1
  <2> QED
    BY <1>4, <1>5, <1>6, <1>8, <2>1, <2>2, <2>3, OneAppends
<1> QED
  BY <1>10, <1>11

\* A line that is cut short is a failed append, or the end of the one store.
LEMMA LineTornSteps ==
    ASSUME IInv, ~overlapped', NEW p \in Process, NEW payload \in Payload, NEW t \in Time,
           NEW kind \in WriteFaults \cap {"torn", "tornUtf8"}, LineTorn(p, payload, t, kind)
    PROVE  One!Next
<1> DEFINE r == Store(p)!NewRecord(payload, t)
<1>1. r \in File!CommitRecord /\ r.seq = Len(log[p])
  BY NewRecordIs DEF IInv
<1> HIDE DEF r
<1>2. /\ phase[p] = "serving" /\ writing[p] = None
      /\ Len(log[p]) < MaxEntries /\ Len(journal) < MaxEntries
      /\ journal' = File!Lines(r, kind) /\ terminated' = FALSE
      /\ UNCHANGED <<writing, acked>>
      /\ NotesOverlap
      /\ \/ UNCHANGED <<phase, log>> /\ stale' = WrittenBehind(p)
         \/ phase' = [phase EXCEPT ![p] = "off"] /\ stale' = WrittenBehind(p) \ {p}
  BY SameFile DEF LineTorn, CanAppend, processVars, r
<1>3. /\ p \in Serving
      /\ \/ Serving' = Serving /\ log' = log /\ stale' = WrittenBehind(p)
         \/ Serving' = Serving \ {p} /\ stale' = WrittenBehind(p) \ {p}
  BY <1>2 DEF Serving, IInv, TypeOK
<1>4. Serving = {p} /\ Writer = {} /\ Writer' = {}
  BY <1>2, <1>3, SoleServer DEF IInv, Writer
<1>5. /\ OneStatus = "up" /\ OneLog = log[p] /\ OneFile = journal /\ OneEnded = terminated
      /\ OneFile' = journal' /\ OneEnded' = FALSE
  BY <1>2, <1>4, OneIs, OneWillBe
<1>6. OneFile' = FileAfter(OneFile, OneEnded, File!Piece(r, kind))
  BY <1>2, <1>5, LinesAfter
<1>7. \/ OneStatus' = "up" /\ OneLog' = OneLog
      \/ OneStatus' = "down" /\ OneLog' = <<>>
  <2>1. CASE Serving' = Serving /\ log' = log
    BY <1>4, <1>5, <2>1, OneWillBe
  <2>2. CASE Serving' = Serving \ {p}
    BY <1>4, <2>2, OneWillBe
  <2> QED
    BY <1>3, <2>1, <2>2
<1> QED
  BY <1>1, <1>2, <1>5, <1>6, <1>7, OneAppends

\* Until a process serves that another has written behind, or two serve different
\* logs, any number of processes are one LogStore: each append of two writes is
\* one step of it, and so is a start, in the step that binds (api.rs run opens the
\* store before it binds; store.rs append).  That the newline's write can be the
\* one that fails is a fault of LogStore only where it is among WriteFaults.
THEOREM ApartAreOneStore ==
    ASSUME "unterminated" \in WriteFaults
    PROVE  Spec => StepsOfOneStore
<1>1. Init => One!Init
  <2>1. ASSUME Init PROVE Serving = {} /\ Writer = {}
    BY <2>1 DEF Init, Serving, Writer
  <2> QED
    BY <2>1 DEF Init, One!Init
<1>2. ASSUME IInv, Next, ~overlapped' PROVE One!Next \/ UNCHANGED One!vars
  <2>1. ASSUME NEW p \in Process, NEW env \in Environment, Start(p, env)
        PROVE  UNCHANGED One!vars
    <3>1. /\ phase[p] = "off" /\ phase' = [phase EXCEPT ![p] = "opened"]
          /\ \A q \in Process : q # p => log'[q] = log[q]
          /\ UNCHANGED <<writing, journal, terminated, acked>>
      BY <1>2, <2>1 DEF Start, fileVars, IInv, Typed
    <3>2. Serving' = Serving /\ Writer' = Writer /\ p \notin Serving /\ Serving \subseteq Process
      BY <1>2, <3>1 DEF Serving, Writer, IInv, TypeOK
    <3> QED
      BY <3>1, <3>2, OneKept
  <2>2. ASSUME UNCHANGED vars PROVE UNCHANGED One!vars
    BY <2>2, OneKept DEF vars, processVars, fileVars, Serving, Writer
  <2>3. ASSUME NEW p \in Process, NEW env \in Environment, StartFails(p, env)
        PROVE  UNCHANGED One!vars
    BY <2>2, <2>3 DEF StartFails
  <2>4. ASSUME NEW p \in Process, Crash(p) PROVE One!Next \/ UNCHANGED One!vars
    BY <1>2, <2>4, GoneSteps DEF Crash, Gone, fileVars
  <2>5. ASSUME NEW p \in Process, NEW payload \in Payload, NEW t \in Time,
               WriteLine(p, payload, t)
        PROVE  UNCHANGED One!vars
    <3> DEFINE w == [record |-> Store(p)!NewRecord(payload, t), done |-> "line",
                     lines |-> journal, ended |-> terminated]
    <3>1. /\ phase[p] = "serving" /\ writing[p] = None
          /\ writing' = [writing EXCEPT ![p] = w]
          /\ stale' = WrittenBehind(p)
          /\ UNCHANGED <<phase, log, acked>>
          /\ NotesOverlap
      BY <2>5 DEF WriteLine, CanAppend
    <3>2. Serving' = Serving /\ p \in Serving
      BY <3>1 DEF Serving
    <3>3. Serving = {p} /\ Writer = {}
      BY <1>2, <3>1, <3>2, SoleServer DEF IInv
    <3>4. w \in Writing
      BY <1>2, NewRecordIs DEF IInv, Writing, Typed
    <3>5. w.lines = journal /\ w.ended = terminated /\ w # None
      BY <3>4, FileAssumed
    <3> HIDE DEF w
    <3>6. writing'[p] = w /\ Writer' = {p}
      BY <1>2, <3>1, <3>3, <3>5 DEF IInv, Typed, Writer
    <3>7. /\ OneStatus = "up" /\ OneLog = log[p] /\ OneFile = journal /\ OneEnded = terminated
      BY <3>3, OneIs
    <3>8. /\ OneStatus' = "up" /\ OneLog' = log'[p]
          /\ OneFile' = w.lines /\ OneEnded' = w.ended
      BY <3>2, <3>3, <3>6, OneWillBe
    <3> QED
      BY <3>1, <3>5, <3>7, <3>8, OneVars
  <2>6. ASSUME NEW p \in Process, WriteNewline(p) PROVE UNCHANGED One!vars
    <3>1. /\ p \in Writer
          /\ writing' = [writing EXCEPT ![p].done = "newline"]
          /\ UNCHANGED <<phase, log, acked, overlapped>>
      BY <2>6 DEF WriteNewline, Writer
    <3>2. Serving = {p} /\ Writer = {p} /\ Serving' = {p}
      BY <1>2, <3>1, SoleWriter DEF IInv, Serving
    <3>3. writing[p] \in Writing
      BY <1>2, <3>1 DEF IInv, Typed, Writer
    <3>4. /\ writing'[p] \in Writing
          /\ writing'[p].lines = writing[p].lines /\ writing'[p].ended = writing[p].ended
      BY <1>2, <3>1, <3>3 DEF IInv, Typed, Writing
    <3>5. Writer' = {p}
      BY <1>2, <3>1, <3>2, <3>4, FileAssumed DEF IInv, Typed, Writer
    <3>6. /\ OneStatus = "up" /\ OneLog = log[p]
          /\ OneFile = writing[p].lines /\ OneEnded = writing[p].ended
      BY <3>2, OneIs
    <3>7. /\ OneStatus' = "up" /\ OneLog' = log'[p]
          /\ OneFile' = writing'[p].lines /\ OneEnded' = writing'[p].ended
      BY <3>2, <3>5, OneWillBe
    <3> QED
      BY <3>1, <3>4, <3>6, <3>7, OneVars
  <2>7. ASSUME NEW p \in Process, Apply(p) \/ NewlineFails(p) PROVE One!Next
    <3>1. ~overlapped
      BY <1>2, <2>7 DEF Apply, NewlineFails
    <3> QED
      BY <1>2, <2>7, <3>1, EndSteps
  <2> QED
    BY <1>2, <2>1, <2>3, <2>4, <2>5, <2>6, <2>7, BindSteps, LineTornSteps DEF Next
<1>3. IInv /\ [Next]_vars => [~overlapped' => (One!Next \/ UNCHANGED One!vars)]_vars
  BY <1>2
<1> QED
  BY <1>1, <1>3, Invariant, PTL DEF Spec, StepsOfOneStore
==============================================================================
