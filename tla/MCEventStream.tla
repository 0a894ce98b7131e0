---------------------------- MODULE MCEventStream ----------------------------
(* Small instances of EventStream for TLC. *)
EXTENDS EventStream, TLC

CONSTANTS c1, c2, i1, i2, i3

\* Readers of the first run, of the last run, or one of each.
SameRun == [c \in Readers |-> 1]
LastRun == [c \in Readers |-> NumRuns]
EachRun == [c \in Readers |-> IF c = c1 THEN 1 ELSE NumRuns]

Symmetry == Permutations(Streams)

=============================================================================
