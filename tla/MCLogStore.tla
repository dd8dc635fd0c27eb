------------------------------ MODULE MCLogStore ------------------------------
(* LogStore on small sets: two payloads, two clock readings.                 *)
EXTENDS LogStore, TLC

CONSTANTS p1, p2

MCPayload == {p1, p2}
MCTime == {1, 2}
NoFaults == {}
AllFaults == {"torn", "tornUtf8", "unterminated"}
OnlyTorn == {"torn"}
OnlyUtf8 == {"tornUtf8"}
Symmetric == Permutations({p1, p2})
==============================================================================
