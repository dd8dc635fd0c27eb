----------------------------- MODULE Configuration -----------------------------
(***************************************************************************)
(* src/api.rs Config::from_env, src/keyring.rs OperatorConfig::from_env    *)
(* and Operator::from_config: what a process makes of its environment.     *)
(*                                                                         *)
(* An environment gives each variable "unset", "empty", "blank" (spaces    *)
(* only), "unusable" (it does not parse), or a value.  The defaults of the *)
(* program are the values "default".                                       *)
(***************************************************************************)

\* Values that a filter takes for no value: of an empty string, of a blank one.
IsEmpty(x) == x \in {"unset", "empty"}
IsBlank(x) == x \in {"unset", "empty", "blank"}

\* Config::from_env.  An address that does not parse is ignored (an empty one
\* does not); an empty token leaves appends open, a blank one is a token.
ConfigOf(env) ==
    [bind             |-> IF env.bind \in {"unset", "empty", "blank", "unusable"}
                          THEN "default" ELSE env.bind,
     log_id           |-> IF IsBlank(env.id) THEN "default" ELSE env.id,
     suite            |-> IF IsBlank(env.suite) THEN "ed25519" ELSE env.suite,
     seed             |-> IF IsEmpty(env.seed) THEN "default" ELSE env.seed,
     append_token     |-> IF IsEmpty(env.token) THEN "none" ELSE env.token,
     state_file       |-> IF IsEmpty(env.state_file) THEN "none" ELSE env.state_file,
     external_tsa_url |-> IF IsBlank(env.tsa_url) THEN "none" ELSE env.tsa_url]

\* OperatorConfig::from_env: an identity that is too long or not printable, or
\* an unknown suite, ends the process.
EnvironmentParses(env) == env.id # "unusable" /\ env.suite # "unusable"

\* Operator::from_config: the suites there are keys for.
KeyDerives(config) == config.suite \in {"ed25519", "ecdsa-p256"}

\* The process comes up to its replay.
Usable(env) == EnvironmentParses(env) /\ KeyDerives(ConfigOf(env))

\* Operator: the identity and key that the suite and the seed give.
OperatorOf(config) ==
    [log_id |-> config.log_id, suite |-> config.suite, key_id |-> config.seed]
==============================================================================
