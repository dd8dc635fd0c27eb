----------------------------- MODULE MCLogService -----------------------------
(* LogService on small sets: two handlers, at most one reader.               *)
EXTENDS LogService, TLC

CONSTANTS p1, h1, h2, q1

OnePayload == {p1}
OneTime == {1}
TwoTimes == {1, 2}
TwoHandlers == {h1, h2}
OneReader == {q1}
NoReaders == {}
NoFaults == {}
OnlyTorn == {"torn"}
Symmetric == Permutations({h1, h2})
==============================================================================
