-------------------------------- MODULE FakeRun -------------------------------
(***************************************************************************)
(* One run of the scripted agent of providers/fake/index.ts, which the     *)
(* daemon offers where no real agent is wanted.  It lives in the daemon    *)
(* itself: it goes on within a macrotask until it must wait, for a verdict *)
(* or for a timer.                                                         *)
(***************************************************************************)
EXTENDS Integers, Sequences, FiniteSets

CONSTANTS
    Requests,   \* bound: the permissions a script asks for
    Scripts,    \* bound: the scripts considered, sequences of steps
    None

VARIABLES
    start, started, aborted, work, report, outcome, verdict, told,   \* see Provider
    script,     \* the steps to come
    waits,      \* "no", "verdict", "sleep" or "hang"
    cancelled   \* this.cancelled

shared == <<start, started, aborted, work, report, outcome, verdict, told>>
private == <<script, waits, cancelled>>
vars == <<shared, private>>

Yes == {"once", "session"}
Ask(r) == <<r, "command">>
Questions == {Ask(r) : r \in Requests}

Init == script \in Scripts /\ waits = "no" /\ cancelled = FALSE

\* Slip: a script that was cancelled ends as if it had run to its end.
EndsCarelessly(steps, off) ==
    IF steps = <<>> \/ off THEN "succeeded"
    ELSE CASE Head(steps) = "crash" -> "rejected" [] Head(steps) = "fail" -> "failed"
           [] OTHER -> None

\* How execute() ends at its next step, if it does.  Nothing looks at `cancelled` after
\* the last step.
EndOf(steps, off) ==
    IF steps = <<>> THEN "succeeded"
    ELSE IF off THEN "cancelled"
    ELSE CASE Head(steps) = "crash" -> "rejected" [] Head(steps) = "fail" -> "failed"
           [] OTHER -> None

\* execute() goes on with these steps until it waits or ends.  Steps that only print are
\* not in the script.
Proceed(steps, off, known) ==
    LET end == EndOf(steps, off)
        asks == end = None /\ Head(steps) \in Requests
    IN  /\ script' = steps
        /\ outcome' = end
        /\ report' = IF steps = <<>> THEN "completed"
                     ELSE IF Head(steps) = "fail" /\ ~off THEN "failed" ELSE "none"
        /\ waits' = IF end # None THEN "no" ELSE IF asks THEN "verdict" ELSE Head(steps)
        /\ verdict' = IF asks THEN [known EXCEPT ![Ask(Head(steps))] = "asked"] ELSE known

\* start() returns a run that is under way already.
Begin ==
    /\ start = "pending"
    /\ start' = "returned" /\ started' = TRUE /\ work' = TRUE
    /\ Proceed(script, FALSE, verdict)
    /\ UNCHANGED <<aborted, told, cancelled>>

\* A sleep is over.
Wakes ==
    /\ waits = "sleep"
    /\ Proceed(Tail(script), cancelled, verdict)
    /\ UNCHANGED <<start, started, aborted, work, told, cancelled>>

\* decide() returns; what is refused is passed over.
GatewayDecides ==
    /\ waits = "verdict"
    /\ \E v \in {"no"} \cup IF aborted THEN {} ELSE Yes :
        LET q == Ask(Head(script)) IN
        /\ told' = [told EXCEPT ![q] = IF v \in Yes THEN "yes" ELSE "no"]
        /\ Proceed(Tail(script), cancelled, [verdict EXCEPT ![q] = v])
    /\ UNCHANGED <<start, started, aborted, work, cancelled>>

\* cancel(): interrupt() wakes a script that sleeps or hangs.
Cancel ==
    /\ start = "returned" /\ ~aborted /\ outcome = None
    /\ aborted' = TRUE /\ cancelled' = TRUE
    /\ CASE waits = "sleep" -> Proceed(Tail(script), TRUE, verdict)
         [] waits = "hang" -> /\ outcome' = "cancelled" /\ waits' = "no"
                              /\ UNCHANGED <<script, report, verdict>>
         [] OTHER -> UNCHANGED <<script, outcome, report, waits, verdict>>
    /\ UNCHANGED <<start, started, work, told>>

Next == Begin \/ Wakes \/ GatewayDecides \/ Cancel

===============================================================================
