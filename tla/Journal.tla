-------------------------------- MODULE Journal -------------------------------
(***************************************************************************)
(* What the store promises to whoever follows a session: a log that only   *)
(* grows, and every event of this process told once, in the order of the   *)
(* log and never before it is there for good (store/index.ts:188-192).     *)
(***************************************************************************)
EXTENDS Naturals, Sequences, SequencesExt

VARIABLES
    log,    \* the events that are committed
    base,   \* how many there were when this process started
    told    \* the events this process has told its listeners

journal == <<log, base, told>>

Init == log = <<>> /\ base = 0 /\ told = <<>>

\* A transaction adds its events together.
Commit ==
    /\ IsStrictPrefix(log, log')
    /\ UNCHANGED <<base, told>>

Tell ==
    LET next == base + Len(told) + 1
    IN  /\ next <= Len(log)
        /\ told' = Append(told, log[next])
        /\ UNCHANGED <<log, base>>

\* Listeners die with the process; their successors read the log.
Restart ==
    /\ base' = Len(log)
    /\ told' = <<>>
    /\ UNCHANGED log

Next == Commit \/ Tell \/ Restart

Safety == Init /\ [][Next]_journal

\* Whoever listens is told in the end.
Spec == Safety /\ WF_journal(Tell)

===============================================================================
