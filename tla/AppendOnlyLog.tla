---------------------------- MODULE AppendOnlyLog ----------------------------
(***************************************************************************)
(* What the transparency log promises, without journal, crash or replay:   *)
(* a log that is only ever extended, whose n-th entry (from 0) carries the *)
(* sequence number n, and a growing set of entries whose sequencing was    *)
(* acknowledged to a submitter.  An entry is acknowledged, if at all, in   *)
(* the step that sequences it (README.md, "Service conventions").          *)
(***************************************************************************)
EXTENDS Naturals, Sequences

CONSTANTS Payload,  \* what a submitter posts: subject, commitment, salt_ref
          Time      \* the wall-clock readings an entry can be stamped with

VARIABLES log,      \* the sequenced entries
          promised  \* the entries a submitter was told are sequenced

logVars == <<log, promised>>

Init ==
    /\ log = <<>>
    /\ promised = {}

\* Sequence p, stamped t; the submitter may never hear of it.
Sequence(p, t) ==
    LET e == [seq |-> Len(log), logged_at |-> t, payload |-> p]
    IN  /\ log' = Append(log, e)
        /\ promised' \in {promised, promised \cup {e}}

Next == \E p \in Payload, t \in Time : Sequence(p, t)

Spec == Init /\ [][Next]_logVars
==============================================================================
