----------------------------- MODULE LogProcesses -----------------------------
(***************************************************************************)
(* src/api.rs run, src/keyring.rs from_env, src/store.rs: several          *)
(* processes on one journal file, as when a restart overlaps the process   *)
(* it replaces, or a second one is started by hand on another address.     *)
(*                                                                         *)
(* A process reads its environment, derives its key, replays the journal,  *)
(* and only then binds its address, which fails while another process      *)
(* serves there.  No lock is taken on the file.  An append is two writes,  *)
(* the line and its newline, which those of another process can come       *)
(* between, and what is in memory is brought up to date by nobody.         *)
(*                                                                         *)
(* Lines are those of LogStore, and Blank, the empty line that the second  *)
(* of two newlines makes: replay takes it for a damaged line, and for no   *)
(* torn tail.                                                              *)
(***************************************************************************)
EXTENDS Naturals, Sequences, Configuration

CONSTANTS Payload, Time, WriteFaults, Garbled, BadUtf8, MaxEntries,
          Process,      \* the processes that may be started
          Environment,  \* what they may be started with, see Configuration
          Blank,        \* an empty line
          None          \* no write under way

\* All of them name the one journal: LogStore has what happens without any.
ASSUME EnvironmentAssumption ==
    \A env \in Environment : ConfigOf(env).state_file # "none"

VARIABLES phase,       \* per process: "off", "opened" (replayed), or "serving"
          address,     \* per process: Config.bind
          log,         \* per process: LogStore.entries
          writing,     \* per process: the append under way, or None
          journal,     \* the lines of the file
          terminated,  \* the file ends in a newline
          acked,       \* history: the records append returned Ok for, anywhere
          stale,       \* history: processes whose file was written by another
          overlapped,  \* history: a stale process served, or two served different logs
          cut          \* history: a line was left without its newline

processVars == <<phase, address, log, writing>>
fileVars == <<journal, terminated>>
vars == <<processVars, fileVars, acked, stale, overlapped, cut>>

\* LogStore of process p.
Store(p) == INSTANCE LogStore WITH
    Journaled <- TRUE, status <- "up", entries <- log[p]

\* The file alone: LogStore of a process that is down.
File == INSTANCE LogStore WITH
    Journaled <- TRUE, status <- "down", entries <- <<>>

\* The constants are the store's; an empty line is none of its lines.
ASSUME ProcessAssumption ==
    /\ File!StoreAssumption
    /\ Blank \notin File!Line
    /\ None \notin [record : File!CommitRecord, done : {"line", "newline"},
                    lines : Seq(File!Line \cup {Blank}), ended : BOOLEAN]

------------------------------------------------------------------------------
(* Processes.                                                                *)

Live == {p \in Process : phase[p] # "off"}

\* Others have a file that they read before the write of p.
WrittenBehind(p) == stale \cup (Live \ {p})

\* A stale process serves, from the next state on, or two serve different logs.
NotesOverlap ==
    overlapped' =
        \/ overlapped
        \/ \E p \in Process : phase'[p] = "serving" /\
              \/ p \in stale'
              \/ \E q \in Process : phase'[q] = "serving" /\ log'[q] # log'[p]

\* AppState::new: the key, then the replay.
Start(p, env) ==
    /\ phase[p] = "off"
    /\ Usable(env)
    /\ Store(p)!ReplayOK(journal)
    /\ phase' = [phase EXCEPT ![p] = "opened"]
    /\ address' = [address EXCEPT ![p] = ConfigOf(env).bind]
    /\ log' = [log EXCEPT ![p] = Store(p)!Replayed(journal)]
    /\ stale' = IF \E q \in Process : writing[q] # None THEN stale \cup {p} ELSE stale \ {p}
    /\ UNCHANGED <<writing, fileVars, acked, overlapped, cut>>

\* It exits on an error of either, and leaves no trace.
StartFails(p, env) ==
    /\ phase[p] = "off"
    /\ ~Usable(env) \/ ~Store(p)!ReplayOK(journal)
    /\ UNCHANGED vars

Taken(a) == \E q \in Process : phase[q] = "serving" /\ address[q] = a

\* The process is gone, with its memory.
Gone(p) ==
    /\ phase' = [phase EXCEPT ![p] = "off"]
    /\ log' = [log EXCEPT ![p] = <<>>]
    /\ writing' = [writing EXCEPT ![p] = None]
    /\ address' = [address EXCEPT ![p] = "default"]
    /\ stale' = stale \ {p}
    /\ UNCHANGED overlapped

\* Fault: the address is shared (SO_REUSEPORT).
BindShared(p) ==
    /\ phase[p] = "opened"
    /\ phase' = [phase EXCEPT ![p] = "serving"]
    /\ UNCHANGED <<address, log, writing, stale>>
    /\ NotesOverlap
    /\ UNCHANGED <<fileVars, acked, cut>>

\* TcpListener::bind, then serve; the process exits if the address is taken.
Bind(p) ==
    /\ phase[p] = "opened"
    /\ IF Taken(address[p])
       THEN Gone(p)
       ELSE /\ phase' = [phase EXCEPT ![p] = "serving"]
            /\ UNCHANGED <<address, log, writing, stale>>
            /\ NotesOverlap
    /\ UNCHANGED <<fileVars, acked, cut>>

\* The process dies, or is stopped: also between the two writes of an append,
\* or before the append is applied.
Crash(p) ==
    /\ phase[p] # "off"
    /\ Gone(p)
    /\ cut' = (cut \/ (writing[p] # None /\ writing[p].done = "line"))
    /\ UNCHANGED <<fileVars, acked>>

------------------------------------------------------------------------------
(* append, under the store lock of the process.                              *)

CanAppend(p) ==
    /\ phase[p] = "serving" /\ writing[p] = None
    /\ Store(p)!Room

\* The line is written, whole.
WriteLine(p, payload, t) ==
    LET r == Store(p)!NewRecord(payload, t)
    IN  /\ CanAppend(p)
        /\ journal' = Store(p)!Lines(r, "unterminated")
        /\ terminated' = FALSE
        /\ writing' = [writing EXCEPT ![p] =
                          [record |-> r, done |-> "line",
                           lines |-> journal, ended |-> terminated]]
        /\ stale' = WrittenBehind(p)
        /\ UNCHANGED <<phase, address, log, acked, cut>>
        /\ NotesOverlap

\* Its newline, which ends whatever line is last by now.
WriteNewline(p) ==
    /\ writing[p] # None /\ writing[p].done = "line"
    /\ Len(journal) < 2 * MaxEntries
    /\ journal' = IF terminated THEN Append(journal, Blank) ELSE journal
    /\ terminated' = TRUE
    /\ writing' = [writing EXCEPT ![p].done = "newline"]
    /\ UNCHANGED <<phase, address, log, acked, stale, overlapped, cut>>

\* apply, and Ok(record).
Apply(p) ==
    /\ writing[p] # None /\ writing[p].done = "newline"
    /\ log' = [log EXCEPT ![p] = Append(@, writing[p].record)]
    /\ acked' = acked \cup {writing[p].record}
    /\ writing' = [writing EXCEPT ![p] = None]
    /\ UNCHANGED <<phase, address, fileVars, stale, overlapped, cut>>

\* Fault: the newline's failure is not looked at.
NewlineFailsApplied(p) ==
    /\ writing[p] # None /\ writing[p].done = "line"
    /\ log' = [log EXCEPT ![p] = Append(@, writing[p].record)]
    /\ acked' = acked \cup {writing[p].record}
    /\ writing' = [writing EXCEPT ![p] = None]
    /\ cut' = TRUE
    /\ UNCHANGED <<phase, address, fileVars, stale, overlapped>>

\* The write of the newline fails: Err, and nothing is applied.
NewlineFails(p) ==
    /\ writing[p] # None /\ writing[p].done = "line"
    /\ writing' = [writing EXCEPT ![p] = None]
    /\ cut' = TRUE
    /\ UNCHANGED <<phase, address, log, fileVars, acked, stale, overlapped>>

\* The write of the line fails part-way: Err, or the end of the process.
LineTorn(p, payload, t, kind) ==
    /\ CanAppend(p)
    /\ journal' = Store(p)!Lines(Store(p)!NewRecord(payload, t), kind)
    /\ terminated' = FALSE
    /\ cut' = TRUE
    /\ \/ /\ stale' = WrittenBehind(p)
          /\ UNCHANGED processVars
          /\ NotesOverlap
       \/ /\ phase' = [phase EXCEPT ![p] = "off"]
          /\ log' = [log EXCEPT ![p] = <<>>]
          /\ address' = [address EXCEPT ![p] = "default"]
          /\ stale' = WrittenBehind(p) \ {p}
          /\ UNCHANGED writing
          /\ NotesOverlap
    /\ UNCHANGED acked

------------------------------------------------------------------------------
Init ==
    /\ phase = [p \in Process |-> "off"]
    /\ address = [p \in Process |-> "default"]
    /\ log = [p \in Process |-> <<>>]
    /\ writing = [p \in Process |-> None]
    /\ journal = <<>>
    /\ terminated = TRUE
    /\ acked = {}
    /\ stale = {}
    /\ overlapped = FALSE
    /\ cut = FALSE

Next ==
    \E p \in Process :
        \/ \E env \in Environment : Start(p, env) \/ StartFails(p, env)
        \/ Bind(p) \/ Crash(p)
        \/ WriteNewline(p) \/ Apply(p) \/ NewlineFails(p)
        \/ \E payload \in Payload, t \in Time :
              \/ WriteLine(p, payload, t)
              \/ \E kind \in WriteFaults \cap {"torn", "tornUtf8"} : LineTorn(p, payload, t, kind)

Spec == Init /\ [][Next]_vars

------------------------------------------------------------------------------
(* Properties.                                                               *)

Serving == {p \in Process : phase[p] = "serving"}

\* The state has its types; no two processes serve on one address; only a
\* serving process writes.
TypeOK ==
    /\ phase \in [Process -> {"off", "opened", "serving"}]
    /\ address \in [Process -> {ConfigOf(env).bind : env \in Environment} \cup {"default"}]
    /\ \A p, q \in Serving : address[p] = address[q] => p = q
    /\ \A p \in Process : writing[p] # None =>
          p \in Serving /\ writing[p].record.seq = Len(log[p])
    /\ ~terminated => journal # <<>>
    /\ stale \subseteq Live
    /\ stale \cap Serving # {} => overlapped

\* README.md: "the service must not paper over it".  Whatever processes wrote
\* to one journal, through each other's lines or from stale memory: once they
\* are done, and none died or failed inside a write, either the journal holds
\* every acknowledged record on its line, or no process will ever start on it.
AcceptedJournalHoldsAcked ==
    (/\ \A p \in Process : writing[p] = None
     /\ ~cut
     /\ File!ReplayOK(journal))
        => \A r \in acked : File!OnDisk(r)

\* The file before the append under way, and the memory of who serves.
Writer == {p \in Process : writing[p] # None}
TheWriter == CHOOSE p \in Writer : TRUE
TheServer == CHOOSE p \in Serving : TRUE

One == INSTANCE LogStore WITH
    Journaled <- TRUE,
    status <- IF Serving = {} THEN "down" ELSE "up",
    entries <- IF Serving = {} THEN <<>> ELSE log[TheServer],
    journal <- IF Writer = {} THEN journal ELSE writing[TheWriter].lines,
    terminated <- IF Writer = {} THEN terminated ELSE writing[TheWriter].ended

\* Until a process serves that another has written behind, or two serve different
\* logs, all of them together are one LogStore, each append of two writes one step of it, and a start that
\* replays, waits and binds one Open: a restart that overlaps the process it
\* replaces is safe if that one wrote nothing after the replay.
StepsOfOneStore ==
    One!Init /\ [][~overlapped' => (One!Next \/ UNCHANGED One!vars)]_vars
==============================================================================
