---------------------------- MODULE MCLogProcesses ----------------------------
(* LogProcesses on small sets: two processes, on the default address, on one *)
(* that was meant to be another, on another, or with no key to start with.   *)
EXTENDS LogProcesses, TLC

CONSTANTS p1, p2, o1, o2

TwoPayloads == {p1, p2}
OneTime == {1}
TwoProcesses == {o1, o2}
TornAndWhole == {"torn", "unterminated"}

Plain == [bind |-> "unset", id |-> "unset", suite |-> "unset", seed |-> "unset",
          token |-> "unset", state_file |-> "log.jsonl", tsa_url |-> "unset"]

MCEnvironment ==
    {Plain,
     [Plain EXCEPT !.bind = "unusable"],
     [Plain EXCEPT !.bind = "other"],
     [Plain EXCEPT !.suite = "sm2"]}
==============================================================================
