------------------------------ MODULE MCProviders -----------------------------
(* Small instances of Providers for TLC. *)
EXTENDS Providers, TLC

CONSTANTS r1, r2

Entry(target, access) == [target |-> target, access |-> access]

\* Two things to judge; one and the network; one that nobody can judge.
SomeDemands == {
    [known |-> TRUE, network |-> "absent",
     entries |-> {Entry("path", "read"), Entry("glob", "write"), Entry("path", "deny")}],
    [known |-> TRUE, network |-> "on", entries |-> {Entry("path", "write")}],
    [known |-> TRUE, network |-> "absent",
     entries |-> {Entry("special", "read"), Entry("path", "write")}]}

\* Every script of up to two different steps that may wait or end early.
SomeScripts ==
    {s \in UNION {[1..n -> Requests \cup {"sleep", "hang", "crash", "fail"}] : n \in 0..2} :
        \A i, j \in DOMAIN s : s[i] = s[j] => i = j}

===============================================================================
