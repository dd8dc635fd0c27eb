--------------------------- MODULE LogVerifierProofs ---------------------------
(***************************************************************************)
(* What the clients that pin signed heads can rely on, over a log that     *)
(* crashes, loses power and has its writes cut short.                      *)
(***************************************************************************)
EXTENDS LogVerifier, TLAPS

\* What is proved of the store and its disk, over the same constants and variables.
Q == INSTANCE LogPowerProofs

------------------------------------------------------------------------------
(* The inductive invariant of the clients; that of the disk is Q!IInv.       *)

\* What a client can hold as a head.
IsSigned(x) == x.size \in 1..MaxEntries /\ DOMAIN x.root = 1..x.size

\* The log of head x is one that the log of head y begins with.
IsPrefix(x, y) == x.size <= y.size /\ \A i \in 1..x.size : x.root[i] = y.root[i]

\* A client that has pinned no head has accepted none; all it has accepted are
\* prefixes of the head it has pinned.
PinsExtend ==
    /\ pinned = [v \in Verifier |-> pinned[v]]
    /\ accepted = [v \in Verifier |-> accepted[v]]
    /\ \A v \in Verifier :
          /\ pinned[v] = None => accepted[v] = {}
          /\ pinned[v] # None =>
                /\ pinned[v] \in accepted[v]
                /\ \A x \in accepted[v] : IsSigned(x) /\ IsPrefix(x, pinned[v])

\* A head that awaits its proof is no smaller than the pinned one.
FetchedAwait ==
    /\ fetched = [v \in Verifier |-> fetched[v]]
    /\ alarmed = [v \in Verifier |-> alarmed[v]]
    /\ \A v \in Verifier : fetched[v] # None =>
          /\ pinned[v] # None /\ IsSigned(fetched[v])
          /\ pinned[v].size <= fetched[v].size

IInv == PinsExtend /\ FetchedAwait /\ faults \in 0..MaxFaults

------------------------------------------------------------------------------
(* The disk of the verifiers is the disk that LogPowerProofs is about.       *)

\* The verifier's assumption on its constants gives the store's.
LEMMA DiskAssumed == Q!Store!StoreAssumption
BY VerifierAssumption
   DEF Disk!Store!StoreAssumption, Q!Store!StoreAssumption,
       Disk!Store!CommitRecord, Q!Store!CommitRecord

\* The disk under the verifier and the one of its proofs have one set of types,
LEMMA SameDiskTypes ==
    /\ Disk!TypeOK <=> Q!TypeOK
    /\ Disk!WrittenBackServed <=> Q!WrittenBackServed
BY DEF Disk!TypeOK, Q!TypeOK, Disk!Store!TypeOK, Q!Store!TypeOK, Disk!Image, Q!Image,
       Disk!Store!CommitRecord, Q!Store!CommitRecord, Disk!Store!Line, Q!Store!Line,
       Disk!WrittenBackServed, Q!WrittenBackServed, Disk!OnSettledLine, Q!OnSettledLine,
       Disk!Store!OnDisk, Q!Store!OnDisk

\* one way to write,
LEMMA SameWrite ==
    ASSUME NEW r, NEW kind
    PROVE  /\ Disk!Store!Lines(r, kind) = Q!Store!Lines(r, kind)
           /\ Disk!Store!Write(r, kind) <=> Q!Store!Write(r, kind)
           /\ Disk!Cached(r, kind) <=> Q!Cached(r, kind)
<1>1. ASSUME NEW k PROVE Disk!Store!Lines(r, k) = Q!Store!Lines(r, k)
  BY DEF Disk!Store!Lines, Q!Store!Lines, Disk!Store!Piece, Q!Store!Piece,
         Disk!Store!Splice, Q!Store!Splice
<1>2. Disk!UpTo(kind) = Q!UpTo(kind)
  BY DEF Disk!UpTo, Q!UpTo
<1>3. Disk!Store!Write(r, kind) <=> Q!Store!Write(r, kind)
  BY <1>1 DEF Disk!Store!Write, Q!Store!Write
<1>4. Disk!Cached(r, kind) <=> Q!Cached(r, kind)
  BY <1>1, <1>2 DEF Disk!Cached, Q!Cached, Disk!Image, Q!Image
<1> QED
  BY <1>1, <1>3, <1>4

\* one append,
LEMMA SameAppend ==
    ASSUME NEW p, NEW t, NEW kind
    PROVE  /\ Disk!AppendEntry(p, t) <=> Q!AppendEntry(p, t)
           /\ Disk!AppendFails(p, t, kind) <=> Q!AppendFails(p, t, kind)
           /\ Disk!CrashInAppend(p, t, kind) <=> Q!CrashInAppend(p, t, kind)
<1>1. /\ Disk!Store!NewRecord(p, t) = Q!Store!NewRecord(p, t)
      /\ Disk!Store!Room <=> Q!Store!Room
  BY DEF Disk!Store!NewRecord, Q!Store!NewRecord, Disk!Store!Room, Q!Store!Room
<1>2. /\ Disk!Store!AppendEntry(p, t) <=> Q!Store!AppendEntry(p, t)
      /\ Disk!Store!AppendFails(p, t, kind) <=> Q!Store!AppendFails(p, t, kind)
      /\ Disk!Store!CrashInAppend(p, t, kind) <=> Q!Store!CrashInAppend(p, t, kind)
  BY <1>1, SameWrite
     DEF Disk!Store!AppendEntry, Q!Store!AppendEntry, Disk!Store!AppendFails,
         Q!Store!AppendFails, Disk!Store!CrashInAppend, Q!Store!CrashInAppend
<1> QED
  BY <1>1, <1>2, SameWrite
     DEF Disk!AppendEntry, Q!AppendEntry, Disk!AppendFails, Q!AppendFails,
         Disk!CrashInAppend, Q!CrashInAppend

\* and so the same behaviours: the disk's theorems hold here.
LEMMA SameDisk ==
    /\ Disk!Init <=> Q!Init
    /\ [Disk!Next]_(Disk!vars) <=> [Q!Next]_(Q!vars)
<1>1. Disk!Init <=> Q!Init
  BY DEF Disk!Init, Q!Init, Disk!Store!Init, Q!Store!Init, Disk!Image, Q!Image
<1>2. Disk!Open <=> Q!Open
  BY DEF Disk!Open, Q!Open, Disk!Store!Open, Q!Store!Open, Disk!Store!ReplayOK, Q!Store!ReplayOK,
         Disk!Store!Replayed, Q!Store!Replayed, Disk!Store!CommitRecord, Q!Store!CommitRecord
<1>3. Disk!Crash <=> Q!Crash
  BY DEF Disk!Crash, Q!Crash, Disk!Store!Crash, Q!Store!Crash
<1>4. Disk!Writeback <=> Q!Writeback
  BY DEF Disk!Writeback, Q!Writeback, Disk!Image, Q!Image, Disk!OnSettledLine, Q!OnSettledLine,
         Disk!Store!OnDisk, Q!Store!OnDisk, Disk!storeVars, Q!storeVars
<1>5. Disk!PowerFail <=> Q!PowerFail
  BY DEF Disk!PowerFail, Q!PowerFail
<1>6. Disk!Next <=> Q!Next
  BY <1>2, <1>3, <1>4, <1>5, SameAppend DEF Disk!Next, Q!Next
<1>7. Disk!vars = Q!vars /\ Disk!vars' = Q!vars'
  BY DEF Disk!vars, Q!vars, Disk!storeVars, Q!storeVars
<1> QED
  BY <1>1, <1>6, <1>7

\* Every step is one of the disk's and the store's, or leaves them alone.
LEMMA StepOfDisk == [Next]_vars => [Disk!Next]_(Disk!vars)
<1> SUFFICES ASSUME [Next]_vars PROVE Disk!Next \/ UNCHANGED diskVars
  BY DEF Disk!vars, Disk!storeVars, diskVars
<1>1. ASSUME NEW p \in Payload, NEW t \in Time,
             AppendOther(p, t) \/ \E v \in Verifier : AppendForClient(v, p, t)
      PROVE  Disk!Next
  BY <1>1 DEF AppendOther, AppendForClient, Disk!Next
<1>2. ASSUME NEW v \in Verifier, FetchHead(v) \/ FetchProof(v)
      PROVE  UNCHANGED diskVars
  BY <1>2 DEF FetchHead, FetchProof
<1>3. CASE Quiet
  BY <1>3 DEF Quiet, Disk!Next
<1>4. CASE Fault
  BY <1>4 DEF Fault, Disk!Next
<1>5. CASE UNCHANGED vars
  BY <1>5 DEF vars
<1> QED
  BY <1>1, <1>2, <1>3, <1>4, <1>5 DEF Next

\* The disk's invariant always holds.
LEMMA DiskInvariant == Spec => []Q!IInv
<1>1. Init => Q!Init
  BY SameDisk DEF Init
<1>2. [Next]_vars => [Q!Next]_(Q!vars)
  BY StepOfDisk, SameDisk
<1>3. Q!Spec => []Q!IInv
  BY DiskAssumed, Q!Invariant
<1> QED
  BY <1>1, <1>2, <1>3, PTL DEF Spec, Q!Spec

\* What was acknowledged and written back stays on its line of the journal, and
\* is served by every process that starts (store.rs append and replay).
THEOREM WrittenBackStaysServed == Spec => []WrittenBackServed
<1>1. Q!IInv => WrittenBackServed
  BY Q!InvImplies, DiskAssumed, SameDiskTypes DEF WrittenBackServed
<1> QED
  BY <1>1, DiskInvariant, PTL

------------------------------------------------------------------------------
(* Heads and answers.                                                        *)

\* What the clients need to know of the log.
LogTyped ==
    /\ entries \in Seq(Disk!Store!CommitRecord)
    /\ Len(entries) \in 0..MaxEntries

\* What is served is a sequence of records.
LEMMA LogIsTyped == Q!IInv => LogTyped
<1> SUFFICES ASSUME Q!IInv PROVE LogTyped
  OBVIOUS
<1>1. Q!TypeOK /\ Len(entries) <= MaxEntries
  BY Q!InvImplies DEF Q!P!Bounded
<1>2. entries \in Seq(Disk!Store!CommitRecord)
  BY <1>1, SameDiskTypes DEF Disk!TypeOK, Disk!Store!TypeOK
<1>3. MaxEntries \in Nat /\ Len(entries) \in Nat
  BY <1>2, VerifierAssumption DEF Disk!Store!StoreAssumption
<1> QED
  BY <1>1, <1>2, <1>3 DEF LogTyped

\* The roots of a log, and the head over all of it.
LEMMA HeadsOfLog ==
    ASSUME NEW log \in Seq(Disk!Store!CommitRecord)
    PROVE  /\ HeadOf(log).size = Len(log)
           /\ DOMAIN HeadOf(log).root = 1..Len(log)
           /\ \A i \in 1..Len(log) : HeadOf(log).root[i] = log[i].payload
           /\ HeadOf(log) # None
<1>1. HeadOf(log) = [size |-> Len(log), root |-> [i \in 1..Len(log) |-> log[i].payload]]
  BY DEF HeadOf
<1>2. \A i \in 1..Len(log) : log[i].payload \in Payload
  <2>1. \A i \in 1..Len(log) : log[i] \in Disk!Store!CommitRecord
    OBVIOUS
  <2> QED
    BY <2>1 DEF Disk!Store!CommitRecord
<1>3. [i \in 1..Len(log) |-> log[i].payload] \in Seq(Payload)
  BY <1>2
<1>4. HeadOf(log) \in [size : Nat, root : Seq(Payload)]
  BY <1>1, <1>3
<1> QED
  BY <1>1, <1>4, VerifierAssumption

\* There is an answer for every size the log has reached.
LEMMA AnswerIs ==
    ASSUME LogTyped, NEW from \in Nat
    PROVE  /\ from > Len(entries) => ConsistencyAnswer(from) = None
           /\ from <= Len(entries) =>
                 /\ ConsistencyAnswer(from) # None
                 /\ ConsistencyAnswer(from).old_root = RootAt(from)
                 /\ ConsistencyAnswer(from).new_size = Len(entries)
                 /\ ConsistencyAnswer(from).new_root = RootAt(Len(entries))
<1>1. CASE from > Len(entries)
  BY <1>1 DEF ConsistencyAnswer, LogTyped
<1>2. CASE from <= Len(entries)
  <2> DEFINE answer == [old_size |-> from, old_root |-> RootAt(from),
                        new_size |-> Len(entries), new_root |-> RootAt(Len(entries))]
  <2>1. ConsistencyAnswer(from) = answer
    BY <1>2 DEF ConsistencyAnswer, LogTyped
  <2>2. \A i \in 1..Len(entries) : entries[i].payload \in Payload
    <3>1. \A i \in 1..Len(entries) : entries[i] \in Disk!Store!CommitRecord
      BY DEF LogTyped
    <3> QED
      BY <3>1 DEF Disk!Store!CommitRecord
  <2>3. ASSUME NEW n \in 0..Len(entries) PROVE RootAt(n) \in Seq(Payload)
    <3>1. \A i \in 1..n : entries[i].payload \in Payload
      BY <2>2 DEF LogTyped
    <3> QED
      BY <3>1 DEF RootAt
  <2>4. answer \in [old_size : Nat, old_root : Seq(Payload),
                     new_size : Nat, new_root : Seq(Payload)]
    BY <1>2, <2>3 DEF LogTyped
  <2>5. answer # None
    BY <2>4, VerifierAssumption
  <2> QED
    BY <1>2, <2>1, <2>5 DEF LogTyped
<1> QED
  BY <1>1, <1>2 DEF LogTyped

\* What a client makes of the answer.
LEMMA ProofOutcome ==
    ASSUME LogTyped, NEW v \in Verifier, FetchProof(v), pinned[v].size \in Nat
    PROVE  \/ pinned[v].size > Len(entries) /\ Alarm(v)
           \/ UNCHANGED <<pinned, alarmed, accepted>>
           \/ /\ pinned[v].size <= Len(entries) /\ fetched[v].size = Len(entries)
              /\ \/ /\ RootAt(pinned[v].size) = pinned[v].root
                    /\ RootAt(Len(entries)) = fetched[v].root
                    /\ Pin(v, fetched[v]) /\ UNCHANGED alarmed
                 \/ /\ RootAt(pinned[v].size) # pinned[v].root
                       \/ RootAt(Len(entries)) # fetched[v].root
                    /\ Alarm(v)
<1> DEFINE answer == ConsistencyAnswer(pinned[v].size)
<1>1. \/ answer = None /\ Alarm(v)
      \/ UNCHANGED <<pinned, alarmed, accepted>>
      \/ /\ answer # None /\ answer.new_size = fetched[v].size
         /\ IF Verifies(pinned[v], fetched[v], answer)
            THEN Pin(v, fetched[v]) /\ UNCHANGED alarmed
            ELSE Alarm(v)
  BY Zenon DEF FetchProof
<1> QED
  BY <1>1, AnswerIs DEF Verifies, LogTyped

------------------------------------------------------------------------------
(* The invariant holds initially, and no step leaves it.                     *)

\* A client that takes a head that extends the one it has pinned.
LEMMA PinKeeps ==
    ASSUME MaxEntries \in Nat, PinsExtend, NEW v \in Verifier, NEW x, IsSigned(x), x # None,
           pinned[v] = None \/ IsPrefix(pinned[v], x), Pin(v, x)
    PROVE  PinsExtend'
<1>1. /\ pinned' = [pinned EXCEPT ![v] = x]
      /\ accepted' = [accepted EXCEPT ![v] = @ \cup {x}]
  BY DEF Pin
<1>2. /\ pinned' = [w \in Verifier |-> IF w = v THEN x ELSE pinned[w]]
      /\ accepted' = [w \in Verifier |-> IF w = v THEN accepted[w] \cup {x} ELSE accepted[w]]
  BY <1>1 DEF PinsExtend
<1>3. IsPrefix(x, x)
  BY DEF IsPrefix, IsSigned
<1>4. ASSUME NEW y \in accepted[v]
      PROVE  IsSigned(y) /\ IsPrefix(y, x)
  <2>1. pinned[v] # None /\ pinned[v] \in accepted[v]
    BY DEF PinsExtend
  <2>2. IsSigned(y) /\ IsPrefix(y, pinned[v]) /\ IsSigned(pinned[v])
    BY <2>1 DEF PinsExtend
  <2>3. IsPrefix(pinned[v], x)
    BY <2>1
  <2> QED
    BY <2>2, <2>3 DEF IsPrefix, IsSigned
<1> QED
  BY <1>2, <1>3, <1>4 DEF PinsExtend

\* A client that does anything else to what it has pinned.
LEMMA AlarmKeeps ==
    ASSUME PinsExtend, UNCHANGED <<pinned, accepted>>
    PROVE  PinsExtend'
BY DEF PinsExtend

\* The head over a log that is not empty is one that a client can hold.
LEMMA HeadIsSigned ==
    ASSUME NEW log \in Seq(Disk!Store!CommitRecord), log # <<>>, Len(log) \in 0..MaxEntries,
           MaxEntries \in Nat
    PROVE  IsSigned(HeadOf(log)) /\ HeadOf(log) # None
<1>1. Len(log) \in 1..MaxEntries
  OBVIOUS
<1> QED
  BY <1>1, HeadsOfLog DEF IsSigned

\* A client that has just started has pinned nothing.
LEMMA InvInit == Init => IInv
BY VerifierAssumption DEF Init, IInv, PinsExtend, FetchedAwait

\* An append whose receipt reaches a client.
LEMMA AppendForClientKeeps ==
    ASSUME IInv, LogTyped', NEW v \in Verifier, NEW p \in Payload, NEW t \in Time,
           AppendForClient(v, p, t)
    PROVE  IInv'
<1>1. MaxEntries \in Nat
  BY VerifierAssumption DEF Disk!Store!StoreAssumption
<1>2. /\ pinned[v] = None /\ Pin(v, HeadOf(entries'))
      /\ UNCHANGED <<fetched, alarmed, faults>>
      /\ entries' = Append(entries, Disk!Store!NewRecord(p, t))
  BY DEF AppendForClient, Disk!AppendEntry, Disk!Store!AppendEntry
<1>3. entries' \in Seq(Disk!Store!CommitRecord) /\ Len(entries') \in 0..MaxEntries
  BY DEF LogTyped
<1>4. entries' # <<>>
  BY <1>2
<1>5. IsSigned(HeadOf(entries')) /\ HeadOf(entries') # None
  BY <1>1, <1>3, <1>4, HeadIsSigned
<1>6. PinsExtend'
  BY <1>1, <1>2, <1>5, PinKeeps DEF IInv
<1>7. fetched[v] = None
  BY <1>2 DEF IInv, FetchedAwait
<1>8. \A w \in Verifier : w # v => pinned'[w] = pinned[w]
  BY <1>2 DEF Pin, IInv, PinsExtend
<1>9. FetchedAwait'
  BY <1>2, <1>7, <1>8 DEF IInv, FetchedAwait
<1> QED
  BY <1>2, <1>6, <1>9 DEF IInv

\* The first head a client fetches, and each that it fetches to be proved.
LEMMA FetchHeadKeeps ==
    ASSUME IInv, LogTyped, NEW v \in Verifier, FetchHead(v)
    PROVE  IInv'
<1>1. MaxEntries \in Nat
  BY VerifierAssumption DEF Disk!Store!StoreAssumption
<1>2. faults' = faults /\ fetched[v] = None
  BY DEF FetchHead
<1>3. CASE pinned[v] = None
  <2>1. entries # <<>> /\ Pin(v, HeadOf(entries)) /\ UNCHANGED <<fetched, alarmed>>
    BY <1>3 DEF FetchHead
  <2>2. IsSigned(HeadOf(entries)) /\ HeadOf(entries) # None
    BY <1>1, <2>1, HeadIsSigned DEF LogTyped
  <2>3. PinsExtend'
    BY <1>1, <1>3, <2>1, <2>2, PinKeeps DEF IInv
  <2>4. \A w \in Verifier : w # v => pinned'[w] = pinned[w]
    BY <2>1 DEF Pin, IInv, PinsExtend
  <2>5. FetchedAwait'
    BY <1>2, <2>1, <2>4 DEF IInv, FetchedAwait
  <2> QED
    BY <1>2, <2>3, <2>5 DEF IInv
<1>4. CASE pinned[v] # None /\ Len(entries) < pinned[v].size
  <2>1. Alarm(v) /\ UNCHANGED fetched
    BY <1>4 DEF FetchHead
  <2>2. PinsExtend'
    BY <2>1, AlarmKeeps DEF Alarm, IInv
  <2>3. FetchedAwait'
    BY <2>1 DEF Alarm, IInv, FetchedAwait
  <2> QED
    BY <1>2, <2>2, <2>3 DEF IInv
<1>5. CASE pinned[v] # None /\ ~(Len(entries) < pinned[v].size)
  <2>1. /\ fetched' = [fetched EXCEPT ![v] = HeadOf(entries)]
        /\ UNCHANGED <<pinned, alarmed, accepted>>
    BY <1>5 DEF FetchHead
  <2>2. IsSigned(pinned[v])
    BY <1>5 DEF IInv, PinsExtend
  <2>3. entries # <<>>
    BY <1>5, <2>2 DEF IsSigned
  <2>4. IsSigned(HeadOf(entries)) /\ HeadOf(entries) # None /\ HeadOf(entries).size = Len(entries)
    BY <1>1, <2>3, HeadIsSigned, HeadsOfLog DEF LogTyped
  <2>5. PinsExtend'
    BY <2>1, AlarmKeeps DEF IInv
  <2>6. pinned[v].size <= HeadOf(entries).size
    BY <1>5, <2>2, <2>4 DEF IsSigned, LogTyped
  <2> HIDE DEF HeadOf
  <2>7. fetched' = [w \in Verifier |-> IF w = v THEN HeadOf(entries) ELSE fetched[w]]
    BY <2>1 DEF IInv, FetchedAwait
  <2>8. FetchedAwait'
    BY <1>5, <2>1, <2>4, <2>6, <2>7 DEF IInv, FetchedAwait
  <2> QED
    BY <1>2, <2>5, <2>8 DEF IInv
<1> QED
  BY <1>3, <1>4, <1>5

\* The proof: the head is taken only when the pinned root and the fetched one are
\* roots of one log, so that it extends the pinned one.
LEMMA FetchProofKeeps ==
    ASSUME IInv, LogTyped, NEW v \in Verifier, FetchProof(v)
    PROVE  IInv'
<1>1. MaxEntries \in Nat
  BY VerifierAssumption DEF Disk!Store!StoreAssumption
<1>2. /\ fetched[v] # None
      /\ fetched' = [fetched EXCEPT ![v] = None]
      /\ faults' = faults
  BY DEF FetchProof
<1>3. /\ pinned[v] # None /\ IsSigned(fetched[v]) /\ pinned[v].size <= fetched[v].size
      /\ IsSigned(pinned[v])
  BY <1>2 DEF IInv, FetchedAwait, PinsExtend
<1>4. fetched' = [w \in Verifier |-> IF w = v THEN None ELSE fetched[w]]
  BY <1>2 DEF IInv, FetchedAwait
<1>5. pinned[v].size \in Nat
  BY <1>3 DEF IsSigned
<1>6. CASE UNCHANGED <<pinned, accepted>> /\ alarmed' = [w \in Verifier |-> alarmed'[w]]
  <2>1. PinsExtend'
    BY <1>6, AlarmKeeps DEF IInv
  <2>2. FetchedAwait'
    BY <1>4, <1>6 DEF IInv, FetchedAwait
  <2> QED
    BY <1>2, <2>1, <2>2 DEF IInv
<1>7. CASE /\ pinned[v].size <= Len(entries) /\ fetched[v].size = Len(entries)
           /\ RootAt(pinned[v].size) = pinned[v].root
           /\ RootAt(Len(entries)) = fetched[v].root
           /\ Pin(v, fetched[v]) /\ UNCHANGED alarmed
  <2>1. \A i \in 1..pinned[v].size : pinned[v].root[i] = fetched[v].root[i]
    <3>1. \A i \in 1..pinned[v].size : RootAt(pinned[v].size)[i] = entries[i].payload
      BY DEF RootAt
    <3>2. \A i \in 1..pinned[v].size : RootAt(Len(entries))[i] = entries[i].payload
      BY <1>5, <1>7 DEF RootAt, LogTyped
    <3> QED
      BY <1>7, <3>1, <3>2
  <2>2. IsPrefix(pinned[v], fetched[v])
    BY <1>3, <2>1 DEF IsPrefix
  <2>3. PinsExtend'
    BY <1>1, <1>2, <1>3, <1>7, <2>2, PinKeeps DEF IInv
  <2>4. \A w \in Verifier : w # v => pinned'[w] = pinned[w]
    BY <1>7 DEF Pin, IInv, PinsExtend
  <2>5. FetchedAwait'
    BY <1>4, <1>7, <2>4 DEF IInv, FetchedAwait
  <2> QED
    BY <1>2, <2>3, <2>5 DEF IInv
<1>8. ASSUME Alarm(v) \/ UNCHANGED <<pinned, alarmed, accepted>>
      PROVE  UNCHANGED <<pinned, accepted>> /\ alarmed' = [w \in Verifier |-> alarmed'[w]]
  BY <1>8 DEF Alarm, IInv, FetchedAwait
<1> QED
  BY <1>5, <1>6, <1>7, <1>8, ProofOutcome

\* Every step of a client, the store or the disk keeps the invariant.
LEMMA InvNext ==
    ASSUME IInv, LogTyped, LogTyped', [Next]_vars
    PROVE  IInv'
<1>1. ASSUME UNCHANGED clientVars, faults' \in 0..MaxFaults PROVE IInv'
  BY <1>1 DEF clientVars, IInv, PinsExtend, FetchedAwait
<1>2. ASSUME NEW p \in Payload, NEW t \in Time, AppendOther(p, t) PROVE IInv'
  BY <1>1, <1>2 DEF AppendOther, IInv
<1>3. ASSUME NEW p \in Payload, NEW t \in Time, NEW v \in Verifier, AppendForClient(v, p, t)
      PROVE  IInv'
  BY <1>3, AppendForClientKeeps
<1>4. ASSUME NEW v \in Verifier, FetchHead(v) \/ FetchProof(v) PROVE IInv'
  BY <1>4, FetchHeadKeeps, FetchProofKeeps
<1>5. CASE Quiet
  BY <1>1, <1>5 DEF Quiet, IInv
<1>6. CASE Fault
  <2>1. faults' \in 0..MaxFaults
    BY <1>6, VerifierAssumption DEF Fault, IInv
  <2> QED
    BY <1>1, <1>6, <2>1 DEF Fault
<1>7. CASE UNCHANGED vars
  BY <1>1, <1>7 DEF vars, IInv
<1> QED
  BY <1>2, <1>3, <1>4, <1>5, <1>6, <1>7 DEF Next

\* The invariant of the clients and that of the disk hold together.
LEMMA Invariant == Spec => [](Q!IInv /\ LogTyped /\ IInv)
<1>1. Init => IInv
  BY InvInit
<1>2. Q!IInv => LogTyped
  BY LogIsTyped
<1>3. LogTyped /\ LogTyped' /\ IInv /\ [Next]_vars => IInv'
  BY InvNext
<1> QED
  BY <1>1, <1>2, <1>3, DiskInvariant, PTL DEF Spec

------------------------------------------------------------------------------
(* What the invariant gives.                                                 *)

\* In every reachable state the clients and the disk have their types: what a
\* client has accepted are heads of the bound, the pinned one among them, and one
\* that awaits its proof is no smaller than the pinned one.
THEOREM VerifierTypeCorrect == Spec => []TypeOK
<1>1. Q!IInv => Disk!TypeOK
  BY Q!InvImplies, SameDiskTypes
<1>2. ASSUME IInv, Disk!TypeOK PROVE TypeOK
  BY <1>2 DEF IInv, PinsExtend, FetchedAwait, IsSigned, TypeOK
<1> QED
  BY <1>1, <1>2, Invariant, PTL

\* Of any two heads a client has taken, across every loss and restart of the log,
\* the smaller is the larger one's beginning: signed heads and consistency proofs
\* show a client one log that only grows (api.rs tree_head and consistency, and
\* the client's side of receipt.rs verify_consistency).
THEOREM AcceptedHeadsChain == Spec => []AcceptedHeadsFormChain
<1>1. ASSUME IInv, NEW v \in Verifier, NEW x \in accepted[v], NEW y \in accepted[v],
             x.size <= y.size, NEW i \in 1..x.size
      PROVE  x.root[i] = y.root[i]
  <2>1. pinned[v] # None
    BY <1>1 DEF IInv, PinsExtend
  <2>2. /\ IsSigned(x) /\ IsPrefix(x, pinned[v])
        /\ IsSigned(y) /\ IsPrefix(y, pinned[v])
    BY <1>1, <2>1 DEF IInv, PinsExtend
  <2>3. i \in 1..y.size /\ MaxEntries \in Nat
    BY <1>1, <2>2, VerifierAssumption DEF IsSigned, Disk!Store!StoreAssumption
  <2> QED
    BY <1>1, <2>2, <2>3 DEF IsPrefix
<1>2. IInv => AcceptedHeadsFormChain
  BY <1>1 DEF AcceptedHeadsFormChain
<1> QED
  BY <1>2, Invariant, PTL

\* A head of the log is of a size the log has reached, and its root is the log's.
LEMMA HeadOfLogIs ==
    ASSUME LogTyped, NEW x, IsHeadOf(x, entries)
    PROVE  x.size \in 1..Len(entries) /\ x.root = RootAt(x.size)
<1>1. PICK n \in 1..Len(entries) : x = HeadOf(SubSeq(entries, 1, n))
  BY DEF IsHeadOf
<1> DEFINE log == SubSeq(entries, 1, n)
<1>2. Len(log) = n /\ \A i \in 1..n : log[i] = entries[i]
  BY DEF LogTyped
<1> HIDE DEF log
<1>3. x = [size |-> n, root |-> [i \in 1..n |-> log[i].payload]]
  BY <1>1, <1>2 DEF HeadOf, log
<1>4. [i \in 1..n |-> log[i].payload] = RootAt(n)
  BY <1>2 DEF RootAt
<1> QED
  BY <1>3, <1>4

\* No alarm is false, whatever grows, dies or restarts between the requests of a
\* client: when it raises one it holds a signed head the log does not have.
THEOREM AlarmsAlwaysTrue == Spec => AlarmsAreTrue
<1>1. ASSUME IInv, LogTyped, [Next]_vars, NEW v \in Verifier, alarmed'[v], ~alarmed[v]
      PROVE  \E x \in {pinned[v], fetched[v]} \ {None} : ~IsHeadOf(x, entries)
  <2>1. FetchHead(v) \/ FetchProof(v)
    <3>1. alarmed' # alarmed
      BY <1>1
    <3>2. ASSUME NEW w \in Verifier, FetchHead(w) \/ FetchProof(w), w # v
          PROVE  FALSE
      <4>1. Alarm(w) \/ alarmed' = alarmed
        <5>1. CASE FetchHead(w)
          BY <5>1 DEF FetchHead
        <5>2. CASE FetchProof(w)
          <6>1. fetched[w] # None
            BY <5>2 DEF FetchProof
          <6>2. pinned[w].size \in Nat
            BY <1>1, <6>1 DEF IInv, FetchedAwait, PinsExtend, IsSigned
          <6> QED
            BY <1>1, <5>2, <6>2, ProofOutcome
        <5> QED
          BY <3>2, <5>1, <5>2
      <4>2. alarmed' = alarmed \/ alarmed' = [alarmed EXCEPT ![w] = TRUE]
        BY <4>1 DEF Alarm
      <4> QED
        BY <1>1, <3>1, <3>2, <4>2 DEF IInv, FetchedAwait
    <3>3. ASSUME NEW p \in Payload, NEW t \in Time PROVE ~AppendOther(p, t)
      BY <3>1 DEF AppendOther, clientVars
    <3>4. ASSUME NEW p \in Payload, NEW t \in Time, NEW w \in Verifier
          PROVE  ~AppendForClient(w, p, t)
      BY <3>1 DEF AppendForClient
    <3>5. ~Quiet /\ ~Fault
      BY <3>1 DEF Quiet, Fault, clientVars
    <3>6. Next
      BY <1>1, <3>1 DEF vars, clientVars
    <3> QED
      BY <3>2, <3>3, <3>4, <3>5, <3>6 DEF Next
  <2>2. CASE FetchHead(v)
    <3>1. pinned[v] # None /\ Len(entries) < pinned[v].size
      BY <1>1, <2>2 DEF FetchHead
    <3>2. ~IsHeadOf(pinned[v], entries)
      <4>1. pinned[v].size \in Nat
        BY <1>1, <3>1 DEF IInv, PinsExtend, IsSigned
      <4> QED
        BY <1>1, <3>1, <4>1, HeadOfLogIs DEF LogTyped
    <3> QED
      BY <3>1, <3>2
  <2>3. CASE FetchProof(v)
    <3>1. fetched[v] # None /\ pinned[v] # None
      BY <1>1, <2>3 DEF FetchProof, IInv, FetchedAwait
    <3>2. pinned[v].size \in Nat
      BY <1>1, <3>1 DEF IInv, PinsExtend, IsSigned
    <3>3. \/ pinned[v].size > Len(entries)
          \/ RootAt(pinned[v].size) # pinned[v].root
          \/ fetched[v].size = Len(entries) /\ RootAt(Len(entries)) # fetched[v].root
      BY <1>1, <2>3, <3>2, ProofOutcome
    <3>4. ~IsHeadOf(pinned[v], entries) \/ ~IsHeadOf(fetched[v], entries)
      BY <1>1, <3>2, <3>3, HeadOfLogIs DEF LogTyped
    <3> QED
      BY <3>1, <3>4
  <2> QED
    BY <2>1, <2>2, <2>3
<1>2. ASSUME IInv, LogTyped, [Next]_vars
      PROVE  [\A v \in Verifier :
                 (alarmed[v]' /\ ~alarmed[v]) =>
                     \E x \in {pinned[v], fetched[v]} \ {None} : ~IsHeadOf(x, entries)]_vars
  BY <1>1, <1>2
<1> QED
  BY <1>2, Invariant, PTL DEF Spec, AlarmsAreTrue
==============================================================================
