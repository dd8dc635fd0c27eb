---------------------------- MODULE MCLogVerifier -----------------------------
(* LogVerifier on small sets: two payloads, one clock reading, one client.   *)
EXTENDS LogVerifier, TLC

CONSTANTS p1, p2, v1

TwoPayloads == {p1, p2}
OneTime == {1}
OneVerifier == {v1}
TornAndWhole == {"torn", "unterminated"}
OnlyTorn == {"torn"}
==============================================================================
