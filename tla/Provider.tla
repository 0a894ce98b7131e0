------------------------------- MODULE Provider -------------------------------
(***************************************************************************)
(* What the gateway takes for granted of the adapter of an agent: the      *)
(* types of providers/types.ts as execute() in core/gateway.ts relies on   *)
(* them.  It says nothing of how an adapter talks to its agent, only what  *)
(* the promises and callbacks of one run may do.                           *)
(***************************************************************************)
CONSTANTS
    Questions,   \* what the agent may ask about
    None         \* `done` has not settled

VARIABLES
    start,     \* the promise of start(): "pending", "returned" or "thrown"
    started,   \* was "started" emitted? the gateway's handedToAgent
    aborted,   \* context.signal
    work,      \* does the agent have the prompt, with everything it was checked for?
    report,    \* how the agent itself said its work ended
    outcome,   \* the state `done` resolved to; "rejected" if it was rejected
    verdict,   \* what context.decide() was asked and returned
    told       \* what the agent was told

vars == <<start, started, aborted, work, report, outcome, verdict, told>>

Yes == {"once", "session"}
Reports == {"none", "completed", "interrupted", "failed"}

TypeOK ==
    /\ start \in {"pending", "returned", "thrown"}
    /\ started \in BOOLEAN /\ aborted \in BOOLEAN /\ work \in BOOLEAN
    /\ report \in Reports
    /\ outcome \in {None, "succeeded", "failed", "cancelled", "outcome_unknown", "rejected"}
    /\ verdict \in [Questions -> {"unasked", "asked", "no"} \cup Yes]
    /\ told \in [Questions -> {"nothing", "yes", "no"}]

Init ==
    /\ start = "pending" /\ outcome = None
    /\ started = FALSE /\ aborted = FALSE /\ work = FALSE
    /\ report = "none"
    /\ verdict = [q \in Questions |-> "unasked"]
    /\ told = [q \in Questions |-> "nothing"]

\* What execute() makes of an error: of start(), or of `done`.
OnError == IF aborted THEN "cancelled" ELSE IF started THEN "outcome_unknown" ELSE "failed"

\* The record that execute() writes says no more than is known.
Vouched(state) ==
    CASE state = "succeeded" -> report = "completed"
      [] state = "failed" -> report = "failed" \/ ~work
      [] state = "cancelled" -> aborted \/ report = "interrupted"
      [] state = "outcome_unknown" -> work

\* start() settles once.
Starts ==
    \/ start' = start
    \/ start = "pending" /\ start' = "returned"
    \/ start = "pending" /\ start' = "thrown" /\ Vouched(OnError)'

\* `done` settles once, and truly; nobody reads it when start() threw.
Ends ==
    \/ outcome' = outcome
    \/ outcome = None /\ start' = "thrown"
    \/ outcome = None /\ outcome' = "rejected" /\ Vouched(OnError)'
    \/ outcome = None /\ outcome' # "rejected" /\ Vouched(outcome)'

\* The agent gets the work after, or as, the gateway is told, and not after the end.
Works ==
    \/ work' = work
    \/ work' /\ started' /\ outcome = None /\ start' # "thrown"

\* A question is put once and decided once.
Decides ==
    \A q \in Questions :
        \/ verdict'[q] = verdict[q]
        \/ verdict[q] \in {"unasked", "asked"} /\ verdict'[q] \in {"asked", "no"} \cup Yes

\* The agent is told once, yes only if that was the verdict, and not after the end.
Tells ==
    \A q \in Questions :
        \/ told'[q] = told[q]
        \/ told[q] = "nothing" /\ told'[q] = "no"
        \/ told[q] = "nothing" /\ told'[q] = "yes" /\ verdict'[q] \in Yes /\ outcome = None

Next ==
    /\ Starts /\ Ends /\ Works /\ Decides /\ Tells
    /\ started => started'
    /\ aborted => aborted'
    /\ report # "none" => report' = report

Spec == Init /\ [][Next]_vars

===============================================================================
