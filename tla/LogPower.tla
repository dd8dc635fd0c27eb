------------------------------- MODULE LogPower -------------------------------
(***************************************************************************)
(* src/store.rs under a power failure.  append calls flush on the journal, *)
(* which does nothing for a File, and never syncs it: what it wrote stays  *)
(* in the page cache until the kernel writes it back.  The store only ever *)
(* appends, so what a power failure leaves is the file as it was after     *)
(* some write since the last write-back, with that write cut anywhere.     *)
(*                                                                         *)
(* Crash in LogStore is the end of the process, which the page cache       *)
(* survives; PowerFail is the end of the machine.                          *)
(***************************************************************************)
EXTENDS Naturals, Sequences

CONSTANTS Payload, Time, Journaled, WriteFaults, Garbled, BadUtf8, MaxEntries

VARIABLES status, entries, journal, terminated, acked,  \* the store, see LogStore
          images,  \* the files [lines, terminated] the disk may hold
          stable   \* history: acknowledged records that were written back

Store == INSTANCE LogStore

storeVars == <<status, entries, journal, terminated, acked>>
vars == <<storeVars, images, stable>>

Image(lines, ended) == [lines |-> lines, terminated |-> ended]

\* How much of a write may reach the disk: all that reached the file, or any
\* shorter part of it.
UpTo(kind) ==
    CASE kind = "full"                 -> WriteFaults \cup {"full"}
      [] kind = "unterminated"         -> WriteFaults
      [] kind \in {"torn", "tornUtf8"} -> WriteFaults \cap {"torn", "tornUtf8"}
      [] kind = "nothing"              -> {}

\* The write of record r stays in the page cache.
Cached(r, kind) ==
    /\ images' = IF Journaled
                 THEN images \cup {Image(Store!Lines(r, k), k = "full") : k \in UpTo(kind)}
                 ELSE images
    /\ UNCHANGED stable

------------------------------------------------------------------------------
\* The steps of the store.
AppendEntry(p, t) ==
    Store!AppendEntry(p, t) /\ Cached(Store!NewRecord(p, t), "full")

AppendFails(p, t, kind) ==
    Store!AppendFails(p, t, kind) /\ Cached(Store!NewRecord(p, t), kind)

CrashInAppend(p, t, kind) ==
    Store!CrashInAppend(p, t, kind) /\ Cached(Store!NewRecord(p, t), kind)

Open == Store!Open /\ UNCHANGED <<images, stable>>

Crash == Store!Crash /\ UNCHANGED <<images, stable>>

\* Record r is on a line that ends in a newline, the one of its number.
OnSettledLine(r) == Store!OnDisk(r) /\ (terminated \/ r.seq + 1 < Len(journal))

\* The kernel writes the file back.
Writeback ==
    /\ images' = {Image(journal, terminated)}
    /\ stable' = {r \in acked : OnSettledLine(r)}
    /\ UNCHANGED storeVars

\* The power fails: the file is one of the images, and nothing else is left.
PowerFail ==
    /\ \E image \in images :
          /\ journal' = image.lines
          /\ terminated' = image.terminated
          /\ images' = {image}
    /\ status' = "down"
    /\ entries' = <<>>
    /\ UNCHANGED <<acked, stable>>

Init ==
    /\ Store!Init
    /\ images = {Image(journal, terminated)}
    /\ stable = {}

Next ==
    \/ Open
    \/ Crash
    \/ Writeback
    \/ PowerFail
    \/ \E p \in Payload, t \in Time :
          \/ AppendEntry(p, t)
          \/ \E kind \in WriteFaults \cup {"nothing"} : AppendFails(p, t, kind)
          \/ \E kind \in WriteFaults \cup {"full"} : CrashInAppend(p, t, kind)

Spec == Init /\ [][Next]_vars

------------------------------------------------------------------------------
\* The state has its types; the file is one of the images of itself.
TypeOK ==
    /\ Store!TypeOK
    /\ stable \subseteq acked
    /\ Image(journal, terminated) \in images
    /\ \A image \in images :
          /\ image.lines \in Seq(Store!Line)
          /\ ~image.terminated => image.lines # <<>>

\* An acknowledged record that was written back is never lost: whatever writes
\* are cut, however often the process or the machine goes down, it stays on its
\* line, and every process that starts serves it under its number (store.rs
\* append only adds to the file, replay drops no line but a damaged last one).
WrittenBackServed ==
    \A r \in stable :
        /\ OnSettledLine(r)
        /\ status = "up" => r.seq < Len(entries) /\ entries[r.seq + 1] = r
==============================================================================
