------------------------------ MODULE LogVerifier ------------------------------
(***************************************************************************)
(* The clients that hold the log to its word (README.md, "Verification";   *)
(* tests/integration.rs, heads_are_monotonic_and_tied_by_consistency_      *)
(* proofs), over a store that crashes and loses power.                     *)
(*                                                                         *)
(* A verifier pins a signed head: the one in the receipt of its own append *)
(* or, having none, the first it fetches.  From then on it takes a newer   *)
(* head only with a consistency proof from its pinned one.  Head and proof *)
(* are two requests, GET /tree/head and GET /tree/consistency?from=N, and  *)
(* the log may grow, die or lose its tail in between.                      *)
(*                                                                         *)
(* A root stands for the commitments under it, and a proof for the two     *)
(* roots it ties together (MerklePaths: RewritesAreRejected).  A signed    *)
(* head is its size and its root, all that these clients compare.          *)
(***************************************************************************)
EXTENDS Naturals, Sequences

CONSTANTS Payload, Time, Journaled, WriteFaults, Garbled, BadUtf8, MaxEntries,
          Verifier,   \* the clients
          None,       \* no head
          MaxFaults   \* bound: failed writes, crashes and power failures

VARIABLES status, entries, journal, terminated, acked,  \* the store, see LogStore
          images, stable,  \* the disk, see LogPower
          pinned,    \* per verifier: the head it trusts, or None
          fetched,   \* per verifier: the newer head that awaits its proof, or None
          alarmed,   \* per verifier: it found the log out
          accepted,  \* history, per verifier: every head it has pinned
          faults     \* how many faults there were

Disk == INSTANCE LogPower

\* The constants are the store's, and None is neither a head nor an answer.
ASSUME VerifierAssumption ==
    /\ Disk!Store!StoreAssumption
    /\ MaxFaults \in Nat
    /\ None \notin [size : Nat, root : Seq(Payload)]
    /\ None \notin [old_size : Nat, old_root : Seq(Payload),
                   new_size : Nat, new_root : Seq(Payload)]

diskVars == <<status, entries, journal, terminated, acked, images, stable>>
clientVars == <<pinned, fetched, alarmed, accepted>>
vars == <<diskVars, clientVars, faults>>

HeadOf(log) == [size |-> Len(log), root |-> [i \in 1..Len(log) |-> log[i].payload]]

\* The root over the first n entries, root_at_size.
RootAt(n) == [i \in 1..n |-> entries[i].payload]

------------------------------------------------------------------------------
(* The answers.                                                              *)

\* Fault: a proof from the current head to itself is refused.
ConsistencyAnswerStrict(from) ==
    IF from >= Len(entries) THEN None
    ELSE [old_size |-> from, old_root |-> RootAt(from),
          new_size |-> Len(entries), new_root |-> RootAt(Len(entries))]

\* GET /tree/consistency?from=N, all of it under the store lock; None is 400.
ConsistencyAnswer(from) ==
    IF from > Len(entries) THEN None
    ELSE [old_size |-> from, old_root |-> RootAt(from),
          new_size |-> Len(entries), new_root |-> RootAt(Len(entries))]

\* verify_consistency of the answer's path, from the pinned root to the root of
\* the fetched head.
Verifies(pin, head, answer) ==
    answer.old_root = pin.root /\ answer.new_root = head.root

------------------------------------------------------------------------------
(* The clients.                                                              *)

Pin(v, x) ==
    /\ pinned' = [pinned EXCEPT ![v] = x]
    /\ accepted' = [accepted EXCEPT ![v] = @ \cup {x}]

Alarm(v) ==
    /\ alarmed' = [alarmed EXCEPT ![v] = TRUE]
    /\ UNCHANGED <<pinned, accepted>>

\* Fault: a smaller head is taken for a fresher one.
FetchHeadUnordered(v) ==
    /\ status = "up" /\ fetched[v] = None /\ ~alarmed[v]
    /\ IF pinned[v] = None
       THEN entries # <<>> /\ Pin(v, HeadOf(entries)) /\ UNCHANGED <<fetched, alarmed>>
       ELSE /\ fetched' = [fetched EXCEPT ![v] = HeadOf(entries)]
            /\ UNCHANGED <<pinned, alarmed, accepted>>
    /\ UNCHANGED <<diskVars, faults>>

\* Fault: a smaller head is waited out.
FetchHeadPatient(v) ==
    /\ status = "up" /\ fetched[v] = None /\ ~alarmed[v]
    /\ IF pinned[v] = None
       THEN entries # <<>> /\ Pin(v, HeadOf(entries)) /\ UNCHANGED <<fetched, alarmed>>
       ELSE /\ Len(entries) >= pinned[v].size
            /\ fetched' = [fetched EXCEPT ![v] = HeadOf(entries)]
            /\ UNCHANGED <<pinned, alarmed, accepted>>
    /\ UNCHANGED <<diskVars, faults>>

\* GET /tree/head, under the store lock.  An empty log has no head to pin.  A
\* head below the pinned one is a log that lost entries.
FetchHead(v) ==
    /\ status = "up" /\ fetched[v] = None /\ ~alarmed[v]
    /\ IF pinned[v] = None
       THEN entries # <<>> /\ Pin(v, HeadOf(entries)) /\ UNCHANGED <<fetched, alarmed>>
       ELSE IF Len(entries) < pinned[v].size
            THEN Alarm(v) /\ UNCHANGED fetched
            ELSE /\ fetched' = [fetched EXCEPT ![v] = HeadOf(entries)]
                 /\ UNCHANGED <<pinned, alarmed, accepted>>
    /\ UNCHANGED <<diskVars, faults>>

\* Fault: the head is kept until a proof to its very size comes.
FetchProofStubborn(v) ==
    /\ status = "up" /\ fetched[v] # None /\ ~alarmed[v]
    /\ LET answer == ConsistencyAnswer(pinned[v].size)
       IN  CASE answer = None -> Alarm(v) /\ UNCHANGED fetched
             [] answer # None /\ answer.new_size # fetched[v].size -> UNCHANGED clientVars
             [] answer # None /\ answer.new_size = fetched[v].size ->
                  IF Verifies(pinned[v], fetched[v], answer)
                  THEN /\ Pin(v, fetched[v])
                       /\ fetched' = [fetched EXCEPT ![v] = None]
                       /\ UNCHANGED alarmed
                  ELSE Alarm(v) /\ UNCHANGED fetched
    /\ UNCHANGED <<diskVars, faults>>

\* Fault: a head of the pinned size is taken without a look at its root.
FetchProofSameSize(v) ==
    /\ status = "up" /\ fetched[v] # None /\ ~alarmed[v]
    /\ fetched' = [fetched EXCEPT ![v] = None]
    /\ LET answer == ConsistencyAnswer(pinned[v].size)
       IN  CASE answer = None -> Alarm(v)
             [] answer # None /\ answer.new_size # fetched[v].size ->
                  UNCHANGED <<pinned, alarmed, accepted>>
             [] answer # None /\ answer.new_size = fetched[v].size ->
                  IF fetched[v].size = pinned[v].size \/ Verifies(pinned[v], fetched[v], answer)
                  THEN Pin(v, fetched[v]) /\ UNCHANGED alarmed
                  ELSE Alarm(v)
    /\ UNCHANGED <<diskVars, faults>>

\* GET /tree/consistency from the pinned size.  An answer to another size than
\* the fetched head's is no answer for it: the client fetches the head again.
FetchProof(v) ==
    /\ status = "up" /\ fetched[v] # None /\ ~alarmed[v]
    /\ fetched' = [fetched EXCEPT ![v] = None]
    /\ LET answer == ConsistencyAnswer(pinned[v].size)
       IN  CASE answer = None -> Alarm(v)
             [] answer # None /\ answer.new_size # fetched[v].size ->
                  UNCHANGED <<pinned, alarmed, accepted>>
             [] answer # None /\ answer.new_size = fetched[v].size ->
                  IF Verifies(pinned[v], fetched[v], answer)
                  THEN Pin(v, fetched[v]) /\ UNCHANGED alarmed
                  ELSE Alarm(v)
    /\ UNCHANGED <<diskVars, faults>>

------------------------------------------------------------------------------
(* The log.                                                                  *)

\* An append; the client keeps its receipt, the head in it is its first pin.
AppendForClient(v, p, t) ==
    /\ pinned[v] = None
    /\ Disk!AppendEntry(p, t)
    /\ Pin(v, HeadOf(entries'))
    /\ UNCHANGED <<fetched, alarmed, faults>>

\* An append of someone else, or whose receipt is lost on its way.
AppendOther(p, t) == Disk!AppendEntry(p, t) /\ UNCHANGED <<clientVars, faults>>

Quiet == (Disk!Open \/ Disk!Writeback) /\ UNCHANGED <<clientVars, faults>>

Fault ==
    /\ faults < MaxFaults
    /\ faults' = faults + 1
    /\ \/ Disk!Crash
       \/ Disk!PowerFail
       \/ \E p \in Payload, t \in Time :
             \/ \E kind \in WriteFaults \cup {"nothing"} : Disk!AppendFails(p, t, kind)
             \/ \E kind \in WriteFaults \cup {"full"} : Disk!CrashInAppend(p, t, kind)
    /\ UNCHANGED clientVars

Init ==
    /\ Disk!Init
    /\ pinned = [v \in Verifier |-> None]
    /\ fetched = [v \in Verifier |-> None]
    /\ alarmed = [v \in Verifier |-> FALSE]
    /\ accepted = [v \in Verifier |-> {}]
    /\ faults = 0

Next ==
    \/ \E p \in Payload, t \in Time :
          AppendOther(p, t) \/ \E v \in Verifier : AppendForClient(v, p, t)
    \/ \E v \in Verifier : FetchHead(v) \/ FetchProof(v)
    \/ Quiet
    \/ Fault

Spec == Init /\ [][Next]_vars

\* Every client polls, and a supervisor starts the service again after it died.
FairSpec ==
    /\ Spec
    /\ WF_vars(Disk!Open /\ UNCHANGED <<clientVars, faults>>)
    /\ \A v \in Verifier : WF_vars(FetchHead(v)) /\ WF_vars(FetchProof(v))

------------------------------------------------------------------------------
(* Properties.                                                               *)

\* The clients' state has its types, and the disk's.
TypeOK ==
    /\ Disk!TypeOK
    /\ \A v \in Verifier :
          /\ \A x \in accepted[v] : x.size \in 1..MaxEntries /\ DOMAIN x.root = 1..x.size
          /\ IF pinned[v] = None THEN accepted[v] = {} ELSE pinned[v] \in accepted[v]
          /\ fetched[v] # None => pinned[v] # None /\ fetched[v].size >= pinned[v].size
    /\ faults \in 0..MaxFaults

\* Head x is a head of log: the one it had at that size.
IsHeadOf(x, log) == \E n \in 1..Len(log) : x = HeadOf(SubSeq(log, 1, n))

\* No false alarm: whatever grows or restarts between a client's two requests,
\* a client that raises the alarm holds a signed head the log does not have.
AlarmsAreTrue ==
    [][\A v \in Verifier :
          (alarmed[v]' /\ ~alarmed[v]) =>
              \E x \in {pinned[v], fetched[v]} \ {None} : ~IsHeadOf(x, entries)]_vars

\* STH pinning: the heads a client has taken over time, across every loss and
\* restart of the log, are the heads of one log that only grew.
AcceptedHeadsFormChain ==
    \A v \in Verifier : \A x, y \in accepted[v] :
        x.size <= y.size => \A i \in 1..x.size : x.root[i] = y.root[i]

\* A log that lost or rewrote what a client pinned (a receipt it was handed, a
\* head it fetched) is found out by that client once the faults end, unless it
\* no longer starts or has the same commitments there again.
LossIsFoundOut ==
    \A v \in Verifier :
        pinned[v] # None ~>
            (alarmed[v] \/ status = "refused" \/ IsHeadOf(pinned[v], entries))

\* Clients do not fall behind for good: once the log is quiet, a client that
\* raised no alarm has pinned the current head.
ClientsCatchUp ==
    \A v \in Verifier :
        []<>(\/ alarmed[v] \/ status = "refused"
             \/ entries = <<>> \/ pinned[v] = HeadOf(entries))

\* What was acknowledged and written back is never lost, see LogPower.
WrittenBackServed == Disk!WrittenBackServed
==============================================================================
