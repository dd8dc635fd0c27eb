--------------------------- MODULE LogServiceProofs ---------------------------
(***************************************************************************)
(* What the HTTP service guarantees for every set of handlers and readers, *)
(* with or without a journal, whatever writes are interrupted.             *)
(***************************************************************************)
EXTENDS LogService, TLAPS

\* What is proved of the store, over the same constants and variables.
P == INSTANCE LogStoreProofs

------------------------------------------------------------------------------
(* The inductive invariant.                                                  *)

\* Head x is the one log has for some number of its entries.
IsHeadOf(x, log) == x.size \in 1..Len(log) /\ x = HeadOf(log, x.size)

\* The record of a submission says which head of log it was for, and keeps no
\* response to anything else.
IsRecordOf(x, log) ==
    /\ x.tree_size = x.digest.size
    /\ IsHeadOf(x.digest, log)
    /\ x.response \in {x.digest, None}

\* A handler holds the receipt of an entry of the running log, no two of them
\* of the same, and submits a head that covers it.
HandlersHold ==
    /\ phase \in [Handler -> {"idle", "mint", "submit", "respond"}]
    /\ receipt = [h \in Handler |-> receipt[h]]
    /\ head = [h \in Handler |-> head[h]]
    /\ \A h \in Handler :
          /\ receipt[h] # None =>
                /\ phase[h] # "idle"
                /\ IsHeadOf(receipt[h].head, entries)
                /\ receipt[h].record = entries[receipt[h].head.size]
          /\ IF phase[h] = "submit" THEN IsHeadOf(head[h], entries) ELSE head[h] = None
          /\ phase[h] = "submit" /\ receipt[h] # None =>
                receipt[h].head.size <= head[h].size
          /\ phase[h] = "mint" => TsaConfigured
    /\ \A g, h \in Handler :
          g # h /\ receipt[g] # None /\ receipt[h] # None =>
              receipt[g].head.size # receipt[h].head.size

RecordHolds == tsa # None => IsRecordOf(tsa, entries) /\ tsa.digest \in submitted

ViewsHold ==
    /\ view = [q \in Reader |-> view[q]]
    /\ \A q \in Reader : view[q] # None =>
          /\ view[q] = [head |-> view[q].head, record |-> view[q].record]
          /\ IsHeadOf(view[q].head, entries)
          /\ view[q].record \notin {Unread, None} => IsRecordOf(view[q].record, entries)

\* Only a running process has anything of this.
IdleWhenDown ==
    status # "up" =>
        /\ tsa = None
        /\ \A h \in Handler : phase[h] = "idle" /\ receipt[h] = None /\ head[h] = None
        /\ \A q \in Reader : view[q] = None

ReleasedAreHeads == \A x \in released : IsHead(x)

Holds ==
    /\ HandlersHold /\ RecordHolds /\ ViewsHold /\ IdleWhenDown
    /\ EveryAppendCovered /\ ReleasedAreHeads

IInv == Store!TypeOK /\ P!Bounded /\ Holds

------------------------------------------------------------------------------
(* The store of the service is the store that LogStoreProofs is about.       *)

\* The service's assumption on its constants gives the store's.
LEMMA StoreAssumed == P!StoreAssumption
BY ServiceAssumption
   DEF P!StoreAssumption, Store!StoreAssumption, P!CommitRecord, Store!CommitRecord

\* The store in the service and the one of the store's proofs have one set of types,
LEMMA SameTypes ==
    /\ Store!CommitRecord = P!CommitRecord
    /\ Store!Line = P!Line
    /\ Store!TypeOK <=> P!TypeOK
BY DEF Store!CommitRecord, P!CommitRecord, Store!Line, P!Line, Store!TypeOK, P!TypeOK

\* one way to write,
LEMMA SameWrite ==
    ASSUME NEW r, NEW kind
    PROVE  Store!Write(r, kind) <=> P!Write(r, kind)
<1>1. Store!Lines(r, kind) = P!Lines(r, kind)
  BY DEF Store!Lines, P!Lines, Store!Piece, P!Piece, Store!Splice, P!Splice
<1> QED
  BY <1>1 DEF Store!Write, P!Write

\* one append,
LEMMA SameAppend ==
    ASSUME NEW p, NEW t, NEW kind
    PROVE  /\ Store!AppendEntry(p, t) <=> P!AppendEntry(p, t)
           /\ Store!AppendFails(p, t, kind) <=> P!AppendFails(p, t, kind)
           /\ Store!CrashInAppend(p, t, kind) <=> P!CrashInAppend(p, t, kind)
<1>1. Store!NewRecord(p, t) = P!NewRecord(p, t) /\ (Store!Room <=> P!Room)
  BY DEF Store!NewRecord, P!NewRecord, Store!Room, P!Room
<1> QED
  BY <1>1, SameWrite
     DEF Store!AppendEntry, P!AppendEntry, Store!AppendFails, P!AppendFails,
         Store!CrashInAppend, P!CrashInAppend

\* and so the same behaviours: the store's theorems hold in the service.
LEMMA SameStore ==
    /\ Store!Init <=> P!Init
    /\ Store!Next <=> P!Next
    /\ [Store!Next]_(Store!vars) <=> [P!Next]_(P!vars)
<1>1. Store!Open <=> P!Open
  BY DEF Store!Open, P!Open, Store!ReplayOK, P!ReplayOK, Store!Replayed, P!Replayed,
         Store!CommitRecord, P!CommitRecord
<1>2. Store!Crash <=> P!Crash
  BY DEF Store!Crash, P!Crash
<1>3. Store!Next <=> P!Next
  BY <1>1, <1>2, SameAppend DEF Store!Next, P!Next
<1> QED
  BY <1>3 DEF Store!Init, P!Init, Store!vars, P!vars

\* Every step of the service is one of the store's, or leaves the store alone.
LEMMA StepOfStore == [Next]_vars => [Store!Next]_(Store!vars)
<1> SUFFICES ASSUME [Next]_vars PROVE Store!Next \/ UNCHANGED storeVars
  BY DEF Store!vars, storeVars
<1>1. ASSUME NEW h \in Handler, Post(h) PROVE Store!Next
  BY <1>1 DEF Post, CommitAppend, CommitFails, StopInAppend, Store!Next
<1>2. ASSUME NEW h \in Handler,
             MintHead(h) \/ Respond(h) \/ Disconnect(h) \/ \E answer \in Answers(h) : SubmitDone(h, answer)
      PROVE  UNCHANGED storeVars
  BY <1>2 DEF MintHead, Respond, Disconnect, SubmitDone
<1>3. ASSUME NEW q \in Reader, ReadHead(q) \/ ReadRecord(q) PROVE UNCHANGED storeVars
  BY <1>3 DEF ReadHead, ReadRecord
<1>4. ASSUME NEW seq \in 0..(MaxEntries - 1), ServeReceipt(seq) PROVE UNCHANGED storeVars
  BY <1>4 DEF ServeReceipt
<1>5. CASE Start \/ Stop
  BY <1>5 DEF Start, Stop, Store!Next
<1>6. CASE UNCHANGED vars
  BY <1>6 DEF vars
<1> QED
  BY <1>1, <1>2, <1>3, <1>4, <1>5, <1>6 DEF Next

\* Concurrent handlers are to the log what one caller is (api.rs commit keeps
\* append and receipt under one lock and carries no state of the store across
\* the await): the theorems of the store can be used here.
LEMMA BehavesAsStore == Spec => Store!Spec
<1>1. Init => Store!Init
  BY DEF Init
<1> QED
  BY <1>1, StepOfStore, PTL DEF Spec, Store!Spec

\* Under the service as without it: every record an append returned Ok for is on
\* its own line of the journal, until an append runs into a torn line.
THEOREM ServiceKeepsAcked ==
    ASSUME Journaled
    PROVE  Spec => []Store!AckedDurableUnlessSpliced
<1>1. P!Spec => []P!AckedDurableUnlessSpliced
  BY StoreAssumed, P!AckedSurvive
<1>2. Store!Spec => P!Spec
  BY SameStore, PTL DEF Store!Spec, P!Spec
<1>3. P!AckedDurableUnlessSpliced => Store!AckedDurableUnlessSpliced
  BY SameTypes
     DEF P!AckedDurableUnlessSpliced, Store!AckedDurableUnlessSpliced, P!HoleFree, Store!HoleFree,
         P!AckedDurable, Store!AckedDurable, P!OnDisk, Store!OnDisk
<1> QED
  BY <1>1, <1>2, <1>3, BehavesAsStore, PTL

------------------------------------------------------------------------------
(* The life of a process.                                                    *)

Extends(longer, log) ==
    Len(log) <= Len(longer) /\ \A i \in 1..Len(log) : longer[i] = log[i]

\* The head over the first n entries is the same for ever.
LEMMA HeadsOfExtension ==
    ASSUME NEW log \in Seq(P!CommitRecord), NEW longer \in Seq(P!CommitRecord),
           Extends(longer, log), NEW x
    PROVE  /\ IsHeadOf(x, log) => IsHeadOf(x, longer)
           /\ IsRecordOf(x, log) => IsRecordOf(x, longer)
           /\ IsHeadOf(x, log) => longer[x.size] = log[x.size]
<1>1. ASSUME NEW y, IsHeadOf(y, log)
      PROVE  IsHeadOf(y, longer) /\ longer[y.size] = log[y.size]
  <2>1. y.size \in 1..Len(log) /\ y.size \in 1..Len(longer)
    BY <1>1 DEF IsHeadOf, Extends
  <2>2. \A i \in 1..y.size : longer[i] = log[i]
    BY <2>1 DEF Extends
  <2>3. longer[y.size] = log[y.size]
    BY <2>1 DEF Extends
  <2> QED
    BY <1>1, <2>1, <2>2, <2>3 DEF IsHeadOf, HeadOf
<1> QED
  BY <1>1 DEF IsRecordOf

\* A head of a log that has its types is one a handler or reader may hold.
LEMMA HeadsHaveTypes ==
    ASSUME NEW log \in Seq(P!CommitRecord), Len(log) <= MaxEntries, NEW x, IsHeadOf(x, log)
    PROVE  IsHead(x)
<1>1. x.size \in 1..Len(log) /\ x = HeadOf(log, x.size)
  BY DEF IsHeadOf
<1> DEFINE n == x.size
<1>2. n \in 1..MaxEntries
  BY <1>1, StoreAssumed DEF P!StoreAssumption
<1>3. \A i \in 1..n : log[i] \in P!CommitRecord
  BY <1>1
<1>4. \A i \in 1..n : log[i].logged_at \in Time /\ log[i].payload \in Payload
  BY <1>3 DEF P!CommitRecord
<1>5. x = [size |-> n, timestamp |-> log[n].logged_at, root |-> [i \in 1..n |-> log[i].payload]]
  BY <1>1 DEF HeadOf
<1>6. log[n].logged_at \in Time
  BY <1>1, <1>4
<1>7. [i \in 1..n |-> log[i].payload] \in [1..n -> Payload]
  BY <1>4
<1> QED
  BY <1>2, <1>5, <1>6, <1>7 DEF IsHead

\* The heads a handler or reader derives under the store lock.
LEMMA DerivedHeads ==
    ASSUME NEW log \in Seq(P!CommitRecord), Len(log) <= MaxEntries, NEW n \in 1..Len(log)
    PROVE  /\ HeadOf(log, n).size = n
           /\ IsHeadOf(HeadOf(log, n), log)
           /\ IsHead(HeadOf(log, n))
           /\ n = Len(log) => /\ ReceiptOf(log).head = HeadOf(log, n)
                              /\ ReceiptOf(log).record = log[n]
<1>1. HeadOf(log, n).size = n
  BY DEF HeadOf
<1>2. IsHeadOf(HeadOf(log, n), log)
  BY <1>1 DEF IsHeadOf
<1>3. IsHead(HeadOf(log, n))
  BY <1>2, HeadsHaveTypes
<1>4. n = Len(log) => ReceiptOf(log) = [record |-> log[n], head |-> HeadOf(log, n)]
  BY DEF ReceiptOf
<1> QED
  BY <1>1, <1>2, <1>3, <1>4

\* A service that has just started on an empty file holds nothing.
LEMMA InvInit == Init => IInv
<1> SUFFICES ASSUME Init PROVE IInv
  OBVIOUS
<1>1. Store!TypeOK /\ P!Bounded
  BY SameStore, SameTypes, StoreAssumed, P!TypeInit
     DEF Init, Store!Init, P!Bounded, P!StoreAssumption
<1>2. HandlersHold /\ RecordHolds /\ ViewsHold /\ IdleWhenDown
  BY DEF Init, HandlersHold, RecordHolds, ViewsHold, IdleWhenDown
<1>3. EveryAppendCovered /\ ReleasedAreHeads
  BY DEF Init, EveryAppendCovered, ReleasedAreHeads
<1> QED
  BY <1>1, <1>2, <1>3 DEF IInv, Holds

\* The store stays in its types and bounds.
LEMMA StoreTyped ==
    ASSUME Store!TypeOK, P!Bounded, [Next]_vars
    PROVE  Store!TypeOK' /\ P!Bounded'
<1>1. [P!Next]_(P!vars)
  BY StepOfStore, SameStore
<1>2. P!TypeOK' /\ P!Bounded'
  BY <1>1, SameTypes, StoreAssumed, P!TypeNext, P!BoundedNext
<1>3. (Store!TypeOK <=> P!TypeOK)'
  BY SameTypes, PTL
<1> QED
  BY <1>2, <1>3

\* What a log that is extended leaves true of what was held before.
LEMMA Kept ==
    ASSUME IInv, Store!TypeOK', Extends(entries', entries)
    PROVE  /\ UNCHANGED handlerVars => HandlersHold'
           /\ UNCHANGED <<tsa, submitted>> => RecordHolds'
           /\ UNCHANGED view => ViewsHold'
           /\ UNCHANGED <<phase, receipt, submitted>> => EveryAppendCovered'
<1>1. entries \in Seq(P!CommitRecord) /\ entries' \in Seq(P!CommitRecord)
  BY SameTypes DEF IInv, Store!TypeOK
<1>2. UNCHANGED handlerVars => HandlersHold'
  BY <1>1, HeadsOfExtension DEF IInv, Holds, HandlersHold, handlerVars
<1>3. UNCHANGED <<tsa, submitted>> => RecordHolds'
  BY <1>1, HeadsOfExtension DEF IInv, Holds, RecordHolds
<1>4. UNCHANGED view => ViewsHold'
  BY <1>1, HeadsOfExtension DEF IInv, Holds, ViewsHold
<1>5. UNCHANGED <<phase, receipt, submitted>> => EveryAppendCovered'
  BY DEF IInv, Holds, EveryAppendCovered
<1> QED
  BY <1>2, <1>3, <1>4, <1>5

\* Every step of a handler, a reader or the store keeps the invariant.
LEMMA InvNext == IInv /\ [Next]_vars => IInv'
<1> SUFFICES ASSUME IInv, [Next]_vars PROVE Holds'
  BY StoreTyped DEF IInv
<1>1. /\ entries \in Seq(P!CommitRecord) /\ entries' \in Seq(P!CommitRecord)
      /\ Len(entries) <= MaxEntries /\ Len(entries') <= MaxEntries
      /\ status # "up" => entries = <<>>
      /\ Store!TypeOK'
  BY StoreTyped, SameTypes DEF IInv, Store!TypeOK, P!Bounded
<1>2. entries # <<>> => Len(entries) \in 1..Len(entries)
  BY <1>1
<1>3. ASSUME UNCHANGED <<status, entries>>
      PROVE  Extends(entries', entries)
  BY <1>1, <1>3 DEF Extends
<1>4. ASSUME Forget, status' # "up"
      PROVE  Holds'
  BY <1>4
     DEF Forget, IInv, Holds, HandlersHold, RecordHolds, ViewsHold, IdleWhenDown,
         EveryAppendCovered, ReleasedAreHeads
<1>5. ASSUME NEW h \in Handler, NEW p \in Payload, NEW t \in Time, CommitAppend(h, p, t)
      PROVE  Holds'
  <2>1. /\ status' = "up" /\ entries' = Append(entries, Store!NewRecord(p, t))
        /\ phase[h] = "idle" /\ receipt[h] = None
        /\ receipt' = [receipt EXCEPT ![h] = ReceiptOf(entries')]
        /\ phase' = [phase EXCEPT ![h] = AfterAppend]
        /\ UNCHANGED <<head, tsa, submitted, view, released>>
    BY <1>5 DEF CommitAppend, Store!AppendEntry, IInv, Holds, HandlersHold
  <2>2. Extends(entries', entries) /\ Len(entries') = Len(entries) + 1
    <3>1. Store!NewRecord(p, t) \in P!CommitRecord
      BY <1>1 DEF Store!NewRecord, P!CommitRecord
    <3> QED
      BY <1>1, <2>1, <3>1 DEF Extends
  <2> DEFINE new == ReceiptOf(entries')
  <2>3. /\ new.head.size = Len(entries) + 1
        /\ IsHeadOf(new.head, entries')
        /\ new.record = entries'[new.head.size]
    <3>1. Len(entries') \in 1..Len(entries')
      BY <1>1, <2>2
    <3> QED
      BY <1>1, <2>2, <3>1, DerivedHeads
  <2> HIDE DEF new
  <2>4. HandlersHold'
    <3>1. ASSUME NEW g \in Handler, receipt[g] # None
          PROVE  /\ IsHeadOf(receipt[g].head, entries')
                 /\ receipt[g].record = entries'[receipt[g].head.size]
                 /\ receipt[g].head.size # Len(entries) + 1
                 /\ g # h
      <4>1. /\ IsHeadOf(receipt[g].head, entries)
            /\ receipt[g].record = entries[receipt[g].head.size]
        BY <3>1 DEF IInv, Holds, HandlersHold
      <4>2. receipt[g].head.size \in 1..Len(entries)
        BY <4>1 DEF IsHeadOf
      <4>3. receipt[g].head.size # Len(entries) + 1
        BY <1>1, <4>2
      <4> DEFINE x == receipt[g].head
      <4>4. IsHeadOf(x, entries') /\ entries'[x.size] = entries[x.size]
        BY <1>1, <2>2, <4>1, HeadsOfExtension
      <4>5. g # h
        BY <2>1, <3>1
      <4> QED
        BY <4>1, <4>3, <4>4, <4>5
    <3>2. \A g \in Handler : phase[g] = "submit" => IsHeadOf(head[g], entries')
      BY <1>1, <2>2, HeadsOfExtension DEF IInv, Holds, HandlersHold
    <3>3. AfterAppend \in {"mint", "respond"} /\ (AfterAppend = "mint" => TsaConfigured)
      BY DEF AfterAppend
    <3>4. receipt' = [receipt EXCEPT ![h] = new]
      BY <2>1 DEF new
    <3>5. ASSUME NEW g \in Handler
          PROVE  /\ receipt'[g] # None =>
                       /\ phase'[g] # "idle"
                       /\ IsHeadOf(receipt'[g].head, entries')
                       /\ receipt'[g].record = entries'[receipt'[g].head.size]
                 /\ IF phase'[g] = "submit" THEN IsHeadOf(head'[g], entries') ELSE head'[g] = None
                 /\ phase'[g] = "submit" /\ receipt'[g] # None =>
                       receipt'[g].head.size <= head'[g].size
                 /\ phase'[g] = "mint" => TsaConfigured
      <4>1. CASE g = h
        BY <2>1, <2>3, <3>3, <3>4, <4>1 DEF IInv, Holds, HandlersHold
      <4>2. CASE g # h
        <5>1. receipt'[g] = receipt[g] /\ phase'[g] = phase[g] /\ head'[g] = head[g]
          BY <2>1, <4>2 DEF IInv, Holds, HandlersHold
        <5> QED
          BY <3>1, <3>2, <5>1 DEF IInv, Holds, HandlersHold
      <4> QED
        BY <4>1, <4>2
    <3>6. ASSUME NEW f \in Handler, NEW g \in Handler,
                 f # g, receipt'[f] # None, receipt'[g] # None
          PROVE  receipt'[f].head.size # receipt'[g].head.size
      <4>1. \A e \in Handler : receipt'[e] = IF e = h THEN new ELSE receipt[e]
        BY <3>4 DEF IInv, Holds, HandlersHold
      <4>2. CASE f = h
        BY <2>3, <3>1, <3>6, <4>1, <4>2
      <4>3. CASE g = h
        BY <2>3, <3>1, <3>6, <4>1, <4>3
      <4>4. CASE f # h /\ g # h
        BY <3>6, <4>1, <4>4 DEF IInv, Holds, HandlersHold
      <4> QED
        BY <4>2, <4>3, <4>4
    <3>7. /\ phase' \in [Handler -> {"idle", "mint", "submit", "respond"}]
          /\ receipt' = [g \in Handler |-> receipt'[g]]
          /\ head' = [g \in Handler |-> head'[g]]
      BY <2>1, <3>3, <3>4 DEF IInv, Holds, HandlersHold
    <3> QED
      BY <3>5, <3>6, <3>7 DEF HandlersHold
  <2>5. RecordHolds' /\ ViewsHold'
    BY <1>1, <2>1, <2>2, Kept
  <2>6. EveryAppendCovered'
    BY <2>1 DEF IInv, Holds, HandlersHold, EveryAppendCovered, AfterAppend
  <2>7. IdleWhenDown' /\ ReleasedAreHeads'
    BY <2>1 DEF IInv, Holds, IdleWhenDown, ReleasedAreHeads
  <2> QED
    BY <2>4, <2>5, <2>6, <2>7 DEF Holds
<1>6. ASSUME NEW h \in Handler, NEW p \in Payload, NEW t \in Time,
             NEW kind \in WriteFaults \cup {"nothing"}, CommitFails(h, p, t, kind)
      PROVE  Holds'
  <2>1. /\ UNCHANGED <<status, entries>> /\ status = "up"
        /\ phase[h] = "idle" /\ receipt[h] = None
        /\ phase' = [phase EXCEPT ![h] = AfterAppend]
        /\ UNCHANGED <<receipt, head, tsa, submitted, view, released>>
    BY <1>6 DEF CommitFails, Store!AppendFails, IInv, Holds, HandlersHold
  <2>2. HandlersHold' /\ EveryAppendCovered'
    BY <2>1 DEF IInv, Holds, HandlersHold, EveryAppendCovered, AfterAppend
  <2>3. RecordHolds' /\ ViewsHold'
    BY <1>1, <1>3, <2>1, Kept
  <2>4. IdleWhenDown' /\ ReleasedAreHeads'
    BY <2>1 DEF IInv, Holds, IdleWhenDown, ReleasedAreHeads
  <2> QED
    BY <2>2, <2>3, <2>4 DEF Holds
<1>7. ASSUME NEW h \in Handler, MintHead(h)
      PROVE  Holds'
  <2>1. /\ UNCHANGED <<storeVars, receipt, tsa, submitted, view, released>>
        /\ UNCHANGED <<status, entries>>
        /\ phase[h] = "mint" /\ status = "up"
    BY <1>7 DEF MintHead, storeVars, IInv, Holds, IdleWhenDown
  <2>2. RecordHolds' /\ ViewsHold'
    BY <1>1, <1>3, <2>1, Kept
  <2>3. IdleWhenDown' /\ ReleasedAreHeads'
    BY <2>1 DEF IInv, Holds, IdleWhenDown, ReleasedAreHeads
  <2>4. CASE entries = <<>>
    <3>1. phase' = [phase EXCEPT ![h] = "respond"] /\ UNCHANGED head
      BY <1>7, <2>4 DEF MintHead
    <3>2. receipt[h] = None
      BY <2>4 DEF IInv, Holds, HandlersHold, IsHeadOf
    <3>3. HandlersHold' /\ EveryAppendCovered'
      BY <2>1, <3>1, <3>2 DEF IInv, Holds, HandlersHold, EveryAppendCovered
    <3> QED
      BY <2>2, <2>3, <3>3 DEF Holds
  <2>5. CASE entries # <<>>
    <3> DEFINE x == HeadOf(entries, Len(entries))
    <3>1. phase' = [phase EXCEPT ![h] = "submit"] /\ head' = [head EXCEPT ![h] = x]
      BY <1>7, <2>5 DEF MintHead
    <3>2. IsHeadOf(x, entries) /\ x.size = Len(entries)
      BY <1>1, <1>2, <2>5, DerivedHeads
    <3>3. receipt[h] # None => receipt[h].head.size <= Len(entries)
      BY <1>1 DEF IInv, Holds, HandlersHold, IsHeadOf
    <3> HIDE DEF x
    <3>4. HandlersHold' /\ EveryAppendCovered'
      BY <2>1, <3>1, <3>2, <3>3 DEF IInv, Holds, HandlersHold, EveryAppendCovered
    <3> QED
      BY <2>2, <2>3, <3>4 DEF Holds
  <2> QED
    BY <2>4, <2>5
<1>8. ASSUME NEW h \in Handler, NEW answer \in Answers(h), SubmitDone(h, answer)
      PROVE  Holds'
  <2>1. /\ UNCHANGED <<storeVars, receipt, view, released>>
        /\ UNCHANGED <<status, entries>>
        /\ phase[h] = "submit" /\ status = "up"
        /\ tsa' = RecordOf(head[h], answer)
        /\ submitted' = submitted \cup {head[h]}
        /\ phase' = [phase EXCEPT ![h] = "respond"]
        /\ head' = [head EXCEPT ![h] = None]
    BY <1>8 DEF SubmitDone, storeVars, IInv, Holds, IdleWhenDown
  <2>2. IsHeadOf(head[h], entries)
    BY <2>1 DEF IInv, Holds, HandlersHold
  <2>3. RecordHolds'
    <3>1. IsRecordOf(RecordOf(head[h], answer), entries) /\ RecordOf(head[h], answer).digest = head[h]
      BY <2>2 DEF RecordOf, IsRecordOf
    <3> QED
      BY <2>1, <3>1 DEF RecordHolds
  <2>4. ViewsHold'
    BY <1>1, <1>3, <2>1, Kept
  <2>5. HandlersHold'
    BY <2>1 DEF IInv, Holds, HandlersHold
  <2>6. EveryAppendCovered'
    <3>1. receipt[h] # None => head[h].size >= receipt[h].head.size
      BY <1>1, <2>1, <2>2 DEF IInv, Holds, HandlersHold, IsHeadOf
    <3> QED
      BY <2>1, <3>1 DEF IInv, Holds, HandlersHold, EveryAppendCovered
  <2>7. IdleWhenDown' /\ ReleasedAreHeads'
    BY <2>1 DEF IInv, Holds, IdleWhenDown, ReleasedAreHeads
  <2> QED
    BY <2>3, <2>4, <2>5, <2>6, <2>7 DEF Holds
<1>9. ASSUME NEW h \in Handler, Respond(h) \/ Disconnect(h)
      PROVE  Holds'
  <2>1. /\ UNCHANGED <<storeVars, tsa, submitted, view>>
        /\ UNCHANGED <<status, entries>>
        /\ phase[h] # "idle" /\ status = "up"
        /\ phase' = [phase EXCEPT ![h] = "idle"]
        /\ receipt' = [receipt EXCEPT ![h] = None]
        /\ head' = [head EXCEPT ![h] = None]
    BY <1>9 DEF Respond, Disconnect, storeVars, IInv, Holds, IdleWhenDown, HandlersHold
  <2>2. RecordHolds' /\ ViewsHold'
    BY <1>1, <1>3, <2>1, Kept
  <2>3. HandlersHold' /\ EveryAppendCovered'
    BY <2>1 DEF IInv, Holds, HandlersHold, EveryAppendCovered
  <2>4. IdleWhenDown'
    BY <2>1 DEF IInv, Holds, IdleWhenDown
  <2>5. ReleasedAreHeads'
    <3>1. receipt[h] # None => IsHead(receipt[h].head)
      BY <1>1, HeadsHaveTypes DEF IInv, Holds, HandlersHold
    <3>2. released' = released \/ (receipt[h] # None /\ released' = released \cup {receipt[h].head})
      BY <1>9 DEF Respond, Disconnect
    <3> QED
      BY <3>1, <3>2 DEF IInv, Holds, ReleasedAreHeads
  <2> QED
    BY <2>2, <2>3, <2>4, <2>5 DEF Holds
<1>10. ASSUME NEW q \in Reader, ReadHead(q)
       PROVE  Holds'
  <2> DEFINE x == HeadOf(entries, Len(entries))
  <2>1. /\ UNCHANGED <<storeVars, handlerVars, tsa, submitted, released>>
        /\ UNCHANGED <<status, entries, phase, receipt>>
        /\ status = "up" /\ entries # <<>>
        /\ view' = [view EXCEPT ![q] = [head |-> x, record |-> Unread]]
    BY <1>10 DEF ReadHead, storeVars, handlerVars
  <2>2. IsHeadOf(x, entries)
    BY <1>1, <1>2, <2>1, DerivedHeads
  <2> HIDE DEF x
  <2>3. ViewsHold'
    BY <2>1, <2>2 DEF IInv, Holds, ViewsHold
  <2>4. HandlersHold' /\ RecordHolds' /\ EveryAppendCovered'
    BY <1>1, <1>3, <2>1, Kept
  <2>5. IdleWhenDown' /\ ReleasedAreHeads'
    BY <2>1 DEF IInv, Holds, IdleWhenDown, ReleasedAreHeads
  <2> QED
    BY <2>3, <2>4, <2>5 DEF Holds
<1>11. ASSUME NEW q \in Reader, ReadRecord(q)
       PROVE  Holds'
  <2>1. /\ UNCHANGED <<storeVars, handlerVars, tsa, submitted>>
        /\ UNCHANGED <<status, entries, phase, receipt, head>>
        /\ view[q] # None /\ status = "up"
        /\ view' = [view EXCEPT ![q] = [view[q] EXCEPT !.record = tsa]]
        /\ released' = released \cup {view[q].head}
    BY <1>11 DEF ReadRecord, storeVars, handlerVars, IInv, Holds, IdleWhenDown
  <2>2. ViewsHold'
    <3> DEFINE x == view[q].head
    <3>1. /\ view[q] = [head |-> x, record |-> view[q].record]
          /\ IsHeadOf(x, entries)
      BY <2>1 DEF IInv, Holds, ViewsHold
    <3>2. [view[q] EXCEPT !.record = tsa] = [head |-> x, record |-> tsa]
      BY <3>1
    <3>3. view' = [view EXCEPT ![q] = [head |-> x, record |-> tsa]]
      BY <2>1, <3>2, Zenon
    <3>4. tsa # None => IsRecordOf(tsa, entries)
      BY DEF IInv, Holds, RecordHolds
    <3> HIDE DEF x
    <3> QED
      BY <2>1, <3>1, <3>3, <3>4 DEF IInv, Holds, ViewsHold
  <2>3. HandlersHold' /\ RecordHolds' /\ EveryAppendCovered'
    BY <1>1, <1>3, <2>1, Kept
  <2>4. ReleasedAreHeads'
    <3>1. IsHead(view[q].head)
      BY <1>1, <2>1, HeadsHaveTypes DEF IInv, Holds, ViewsHold
    <3> QED
      BY <2>1, <3>1 DEF IInv, Holds, ReleasedAreHeads
  <2>5. IdleWhenDown'
    BY <2>1 DEF IInv, Holds, IdleWhenDown
  <2> QED
    BY <2>2, <2>3, <2>4, <2>5 DEF Holds
<1>12. ASSUME NEW seq \in 0..(MaxEntries - 1), ServeReceipt(seq)
       PROVE  Holds'
  <2>1. /\ UNCHANGED <<storeVars, handlerVars, tsa, submitted, view>>
        /\ UNCHANGED <<status, entries, phase, receipt, head>>
        /\ seq < Len(entries)
        /\ released' = released \cup {HeadOf(entries, seq + 1)}
    BY <1>12 DEF ServeReceipt, storeVars, handlerVars
  <2>2. seq + 1 \in 1..Len(entries)
    BY <1>1, <2>1
  <2>3. IsHead(HeadOf(entries, seq + 1))
    BY <1>1, <2>2, DerivedHeads
  <2>4. HandlersHold' /\ RecordHolds' /\ ViewsHold' /\ EveryAppendCovered'
    BY <1>1, <1>3, <2>1, Kept
  <2>5. IdleWhenDown' /\ ReleasedAreHeads'
    BY <2>1, <2>3 DEF IInv, Holds, IdleWhenDown, ReleasedAreHeads
  <2> QED
    BY <2>4, <2>5 DEF Holds
<1>13. CASE Start
  <2>1. /\ UNCHANGED <<handlerVars, tsa, submitted, view, released>>
        /\ UNCHANGED <<phase, receipt, head>>
        /\ status # "up"
    BY <1>13 DEF Start, Store!Open, handlerVars
  <2>2. Extends(entries', entries)
    BY <1>1, <2>1 DEF Extends
  <2>3. HandlersHold' /\ RecordHolds' /\ ViewsHold' /\ EveryAppendCovered'
    BY <1>1, <2>1, <2>2, Kept
  <2>4. IdleWhenDown' /\ ReleasedAreHeads'
    BY <2>1 DEF IInv, Holds, IdleWhenDown, ReleasedAreHeads
  <2> QED
    BY <2>3, <2>4 DEF Holds
<1>14. CASE Stop
  BY <1>4, <1>14 DEF Stop, Store!Crash
<1>15. ASSUME NEW h \in Handler, NEW p \in Payload, NEW t \in Time,
              NEW kind \in WriteFaults \cup {"full"}, StopInAppend(h, p, t, kind)
       PROVE  Holds'
  BY <1>4, <1>15 DEF StopInAppend, Store!CrashInAppend
<1>16. CASE UNCHANGED vars
  <2>1. UNCHANGED <<storeVars, handlerVars, tsa, submitted, view, released>>
    BY <1>16 DEF vars
  <2>2. UNCHANGED <<status, entries, phase, receipt, head>>
    BY <2>1 DEF storeVars, handlerVars
  <2>3. HandlersHold' /\ RecordHolds' /\ ViewsHold' /\ EveryAppendCovered'
    BY <1>1, <1>3, <2>1, <2>2, Kept
  <2>4. IdleWhenDown' /\ ReleasedAreHeads'
    BY <2>1, <2>2 DEF IInv, Holds, IdleWhenDown, ReleasedAreHeads
  <2> QED
    BY <2>3, <2>4 DEF Holds
<1> QED
  BY <1>5, <1>6, <1>7, <1>8, <1>9, <1>10, <1>11, <1>12, <1>13, <1>14, <1>15, <1>16 DEF Next, Post

\* The inductive invariant always holds.
LEMMA Invariant == Spec => []IInv
BY InvInit, InvNext, PTL DEF Spec

------------------------------------------------------------------------------
(* What the invariant gives.                                                 *)

\* In every reachable state the handlers, readers and the record have their
\* types, and what a handler holds agrees with its phase (api.rs commit).
THEOREM ServiceTypeCorrect == Spec => []TypeOK
<1>1. IInv => TypeOK
  <2> SUFFICES ASSUME IInv PROVE TypeOK
    OBVIOUS
  <2>1. entries \in Seq(P!CommitRecord) /\ Len(entries) <= MaxEntries
    BY SameTypes DEF IInv, Store!TypeOK, P!Bounded
  <2>2. \A h \in Handler :
          /\ receipt[h] # None => phase[h] # "idle" /\ IsHead(receipt[h].head)
          /\ IF phase[h] = "submit" THEN IsHead(head[h]) ELSE head[h] = None
    BY <2>1, HeadsHaveTypes DEF IInv, Holds, HandlersHold
  <2>3. tsa # None => IsHead(tsa.digest) /\ tsa.digest \in submitted
    BY <2>1, HeadsHaveTypes DEF IInv, Holds, RecordHolds, IsRecordOf
  <2>4. \A q \in Reader : view[q] # None => IsHead(view[q].head)
    BY <2>1, HeadsHaveTypes DEF IInv, Holds, ViewsHold
  <2>5. status # "up" => tsa = None /\ phase = [h \in Handler |-> "idle"]
    BY DEF IInv, Holds, IdleWhenDown, HandlersHold
  <2> QED
    BY <2>2, <2>3, <2>4, <2>5 DEF IInv, Holds, HandlersHold, ReleasedAreHeads, TypeOK
<1> QED
  BY <1>1, Invariant, PTL

\* A receipt that waits behind the TSA still carries a head and an entry of the
\* running log, and no other handler answers with its number (api.rs commit
\* derives the receipt under the lock that appended).
THEOREM ReceiptsAlwaysStand == Spec => []ReceiptsStand
<1>1. IInv => ReceiptsStand
  <2> SUFFICES ASSUME IInv, NEW h \in Handler, receipt[h] # None
               PROVE  /\ Serves(receipt[h].head)
                      /\ receipt[h].record = entries[receipt[h].head.size]
                      /\ \A g \in Handler \ {h} : receipt[g] # None =>
                            receipt[g].record.seq # receipt[h].record.seq
    BY DEF ReceiptsStand
  <2>1. ASSUME NEW g \in Handler, receipt[g] # None
        PROVE  /\ receipt[g].head.size \in 1..Len(entries)
               /\ receipt[g].head = HeadOf(entries, receipt[g].head.size)
               /\ receipt[g].record = entries[receipt[g].head.size]
               /\ receipt[g].record.seq = receipt[g].head.size - 1
    BY <2>1 DEF IInv, Holds, HandlersHold, IsHeadOf, Store!TypeOK
  <2>2. \A g \in Handler \ {h} : receipt[g] # None =>
           receipt[g].head.size # receipt[h].head.size
    BY DEF IInv, Holds, HandlersHold
  <2>3. Serves(receipt[h].head)
    BY <2>1 DEF Serves
  <2> QED
    BY <2>1, <2>2, <2>3
<1> QED
  BY <1>1, Invariant, PTL

\* An answer that shows its head as anchored carries that head's digest and a
\* response bound to it, although head and record are read under two locks
\* (api.rs tree_head, external_anchor_view; tsa.rs submit_anchor).
THEOREM AnchoredIsThisHead == Spec => []AnchoredMeansThisHead
<1>1. IInv => AnchoredMeansThisHead
  <2> SUFFICES ASSUME IInv, NEW q \in Reader, ShownAnchored(view[q])
               PROVE  /\ view[q].record.digest = view[q].head
                      /\ view[q].record.response = view[q].head
    BY DEF AnchoredMeansThisHead
  <2>1. IsHeadOf(view[q].head, entries) /\ IsRecordOf(view[q].record, entries)
    BY DEF IInv, Holds, ViewsHold, ShownAnchored
  <2> QED
    BY <2>1 DEF IsRecordOf, IsHeadOf, ShownAnchored
<1> QED
  BY <1>1, Invariant, PTL

\* A submitter that gets its receipt knows that a head which covers its entry
\* was submitted to the TSA (api.rs commit: append, mint, submit, respond).
THEOREM AppendsAreCovered == Spec => []EveryAppendCovered
<1>1. IInv => EveryAppendCovered
  BY DEF IInv, Holds
<1> QED
  BY <1>1, Invariant, PTL

------------------------------------------------------------------------------
(* Across processes.  Where no write is interrupted part-way, the journal is  *)
(* whole lines, what is released is a head of the journal, and the journal is *)
(* only ever extended.                                                        *)

ReleasedStay == P!WholeLines /\ \A x \in released : IsHeadOf(x, journal)

\* A file of whole lines is replayed as it is.
LEMMA WholeJournal ==
    ASSUME P!WholeLines
    PROVE  /\ journal \in Seq(P!CommitRecord)
           /\ P!Replayed(journal) = journal
           /\ status = "up" => entries = journal
<1>1. journal \in Seq(P!Line) /\ \A i \in 1..Len(journal) : journal[i] \in P!CommitRecord
  BY DEF P!WholeLines, P!IInv, P!TypeOK, P!HoleFree
<1>2. journal \in Seq(P!CommitRecord)
  BY <1>1
<1>3. P!Replayed(journal) = journal
  BY StoreAssumed, P!WholeLinesReplayed
<1>4. status = "up" => entries = journal
  BY <1>3, StoreAssumed, P!InvImplies DEF P!WholeLines, P!LiveMatchesReplay
<1> QED
  BY <1>2, <1>3, <1>4

\* With whole lines, a step of the store leaves the file or extends it.
LEMMA JournalExtended ==
    ASSUME Journaled, WriteFaults = {}, P!WholeLines, [Next]_vars
    PROVE  P!WholeLines' /\ Extends(journal', journal)
<1>1. [P!Next]_(P!vars)
  BY StepOfStore, SameStore
<1>2. P!WholeLines'
  BY <1>1, StoreAssumed, P!WholeLinesNext
<1>3. P!AOL!Next \/ UNCHANGED P!AOL!logVars
  BY <1>1, <1>2, StoreAssumed, P!StepSequences
<1>4. journal \in Seq(P!CommitRecord) /\ P!Replayed(journal) = journal
  BY WholeJournal
<1>5. (journal \in Seq(P!CommitRecord) /\ P!Replayed(journal) = journal)'
  BY <1>2, WholeJournal, PTL
<1>6. journal' = journal \/ \E e : journal' = Append(journal, e)
  BY <1>3, <1>4, <1>5 DEF P!AOL!Next, P!AOL!Sequence, P!AOL!logVars
<1>7. Extends(journal', journal)
  BY <1>4, <1>5, <1>6 DEF Extends
<1> QED
  BY <1>2, <1>7

\* A head is only ever released by a running process, from its log.
LEMMA ReleasedFromLog ==
    ASSUME IInv, [Next]_vars, NEW x \in released', x \notin released
    PROVE  status = "up" /\ IsHeadOf(x, entries)
<1>1. entries \in Seq(P!CommitRecord) /\ Len(entries) <= MaxEntries
  BY SameTypes DEF IInv, Store!TypeOK, P!Bounded
<1>2. ASSUME NEW h \in Handler, Respond(h)
      PROVE  status = "up" /\ IsHeadOf(x, entries)
  <2>1. phase[h] = "respond" /\ receipt[h] # None /\ x = receipt[h].head
    BY <1>2 DEF Respond
  <2> QED
    BY <2>1 DEF IInv, Holds, HandlersHold, IdleWhenDown
<1>3. ASSUME NEW q \in Reader, ReadRecord(q)
      PROVE  status = "up" /\ IsHeadOf(x, entries)
  <2>1. view[q] # None /\ x = view[q].head
    BY <1>3 DEF ReadRecord
  <2> QED
    BY <2>1 DEF IInv, Holds, ViewsHold, IdleWhenDown
<1>4. ASSUME NEW seq \in 0..(MaxEntries - 1), ServeReceipt(seq)
      PROVE  status = "up" /\ IsHeadOf(x, entries)
  <2>1. status = "up" /\ seq + 1 \in 1..Len(entries) /\ x = HeadOf(entries, seq + 1)
    BY <1>1, <1>4 DEF ServeReceipt
  <2> QED
    BY <1>1, <2>1, DerivedHeads
<1>5. UNCHANGED released => FALSE
  OBVIOUS
<1> QED
  BY <1>2, <1>3, <1>4, <1>5
     DEF Next, Post, CommitAppend, CommitFails, StopInAppend, MintHead, SubmitDone, Disconnect,
         ReadHead, Start, Stop, Forget, vars

\* If no write is interrupted part-way, every head that was ever sent, in a
\* receipt or by GET /tree/head, is served again as it was after any number of
\* crashes and restarts (store.rs replay, tree.rs STH pinning).
THEOREM HeadsAlwaysServed ==
    ASSUME Journaled, WriteFaults = {}
    PROVE  Spec => []HeadsStayServed
<1>1. Init => ReleasedStay
  BY SameStore, StoreAssumed, P!WholeLinesInit DEF Init, ReleasedStay
<1>2. IInv /\ ReleasedStay /\ [Next]_vars => ReleasedStay'
  <2> SUFFICES ASSUME IInv, ReleasedStay, [Next]_vars PROVE ReleasedStay'
    OBVIOUS
  <2>1. P!WholeLines /\ P!WholeLines' /\ Extends(journal', journal)
    BY JournalExtended DEF ReleasedStay
  <2>2. journal \in Seq(P!CommitRecord) /\ (status = "up" => entries = journal)
    BY <2>1, WholeJournal
  <2>3. (journal \in Seq(P!CommitRecord))'
    BY <2>1, WholeJournal, PTL
  <2>4. ASSUME NEW x \in released'
        PROVE  IsHeadOf(x, journal')
    <3>1. IsHeadOf(x, journal)
      BY <2>2, <2>4, ReleasedFromLog DEF ReleasedStay
    <3> QED
      BY <2>1, <2>2, <2>3, <3>1, HeadsOfExtension
  <2> QED
    BY <2>1, <2>4 DEF ReleasedStay
<1>3. ReleasedStay => HeadsStayServed
  BY WholeJournal DEF ReleasedStay, HeadsStayServed, Serves, IsHeadOf
<1> QED
  BY <1>1, <1>2, <1>3, Invariant, PTL DEF Spec
==============================================================================
