---------------------------- MODULE MCLogExchange -----------------------------
(* LogExchange on every kind of request body against one answer of the TSA,  *)
(* and on one request against every kind of answer.                          *)
EXTENDS LogExchange

W == INSTANCE WireViews

Bytes32(b) == [i \in 1..32 |-> b]
MCDigest == Bytes32(7)
MCSignature == <<0, 10, 171, 255>>
MCNames == {"name"}

CONSTANT c1
MCCommitments == {c1}

Unconfigured ==
    [bind |-> "unset", id |-> "unset", suite |-> "unset", seed |-> "unset",
     token |-> "unset", state_file |-> "log.jsonl", tsa_url |-> "unset"]

Guarded == [Unconfigured EXCEPT !.token = "secret", !.suite = "ecdsa-p256", !.id = "log-2"]
Unjournaled == [Unconfigured EXCEPT !.state_file = "empty"]
WithTsa == [Unconfigured EXCEPT !.tsa_url = "tsa", !.token = "empty", !.id = "blank"]

Named(bytes, padded) == W!Str(W!Plain("name", bytes, padded))

Subjects ==
    {W!Missing, W!Null, W!Num(7), Named(0, FALSE), Named(0, TRUE), Named(1, FALSE),
     Named(512, FALSE), Named(512, TRUE), Named(513, FALSE)}
Commitments ==
    {W!Missing, W!Str(W!HexText(c1)), W!Str([W!HexText(c1) EXCEPT !.padded = TRUE]),
     W!Str(W!Plain("name", 64, FALSE))}
Salts == {W!Missing, W!Null, W!Num(0), W!Num(7), W!Num(W!NotU64), Named(1, FALSE)}

\* The object with these fields, without the missing ones.
BodyWith(f) == W!Obj([k \in {x \in DOMAIN f : f[x] # W!Missing} |-> f[k]])

Bodies ==
    {BodyWith([subject |-> s, commitment |-> c, salt_ref |-> n]) :
        s \in Subjects, c \in Commitments, n \in Salts}
    \cup {None, W!Null, W!Arr(<<>>)}

GoodBody ==
    BodyWith([subject |-> Named(1, FALSE), commitment |-> W!Str(W!HexText(c1)),
              salt_ref |-> W!Num(7)])

Url(scheme, host, port) == [scheme |-> scheme, host |-> host, port |-> port]
TsaUrl == Url("http", "tsa", "80")

Plan(digest, status, filler, form, framing, first) ==
    [digest |-> digest, status |-> status, filler |-> filler, form |-> form,
     framing |-> framing, spelling |-> "usual", first |-> first, url |-> TsaUrl]

\* Contents of 46, 127, 128, 255 and 256 bytes, in every form that holds them.
Shapes ==
    {<<0, 0>>, <<0, 1>>, <<0, 3>>, <<0, 4>>, <<81, 0>>, <<82, 1>>, <<209, 1>>, <<210, 2>>}
Framings == {<<"close", 0>>, <<"length", 0>>, <<"chunked", 5>>, <<"chunked", 47>>}

OnePlan == Plan(Bytes32(7), 200, 0, 0, "close", 0)
Plans ==
    {Plan(Bytes32(7), 200, s[1], s[2], f[1], f[2]) : s \in Shapes, f \in Framings}
    \cup {Plan(Bytes32(9), 200, 82, 1, "length", 0), Plan(Bytes32(7), 500, 0, 0, "close", 0)}
    \cup {[Plan(Bytes32(7), 200, 82, 1, framing, 5) EXCEPT !.spelling = "other"] :
             framing \in {"length", "chunked"}}
    \cup {[OnePlan EXCEPT !.url = u] :
             u \in {Url("https", "tsa", "443"), Url("http", "", "80"), Url("http", "tsa", "bad")}}

Case(e, bearer, body, n, p) ==
    [env |-> e, request |-> [bearer |-> bearer, body |-> body], earlier |-> n, plan |-> p]

MCCases ==
    {Case(e, bearer, body, n, OnePlan) :
        e \in {Unconfigured, Guarded}, bearer \in {"no bearer", "secret"},
        body \in Bodies, n \in {0, 3}}
    \cup {Case(Unjournaled, "no bearer", GoodBody, n, OnePlan) : n \in {0, 3}}
    \cup {Case(WithTsa, "no bearer", GoodBody, 0, OnePlan)}
    \cup {Case(WithTsa, "no bearer", GoodBody, 1, p) : p \in Plans}
==============================================================================
