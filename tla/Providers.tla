------------------------------- MODULE Providers ------------------------------
(***************************************************************************)
(* The adapters of the agents beside each other: a run belongs to one of   *)
(* them, its session's `agent`, and each must keep what the gateway takes  *)
(* for granted (Provider).                                                 *)
(***************************************************************************)
EXTENDS Integers, Sequences, FiniteSets

CONSTANTS
    Agents,     \* the adapters considered: "codex", "claude", "fake"
    Requests,   \* bound: the questions of one run
    Demands,    \* bound: the permission requests considered
    Scripts,    \* bound: the scripts of the scripted agent
    WireMax,    \* bound: messages an agent wrote that are not read yet
    None

ASSUME ProvidersAssumption ==
    /\ Agents \subseteq {"codex", "claude", "fake"}
    /\ IsFiniteSet(Requests)
    /\ WireMax \in Nat \ {0}
    /\ <<>> \in Scripts
    /\ None \notin {"succeeded", "failed", "cancelled", "outcome_unknown", "rejected", "once", "session"}
    /\ Requests \cap {"sleep", "hang", "crash", "fail"} = {}
    /\ \A s \in Scripts :   \* each permission of a script is a question of its own
            /\ s \in Seq(Requests \cup {"sleep", "hang", "crash", "fail"})
            /\ \A i, j \in DOMAIN s : s[i] = s[j] /\ s[i] \in Requests => i = j

VARIABLES
    agent,                                                             \* the adapter of the run
    start, started, aborted, work, report, outcome, verdict, told,     \* see Provider
    step, cached, scout, child, link, pending, owed, wire, turn, request, scope,   \* codex
    stream, feed, result, hook, interrupts,                            \* claude
    script, waits, cancelled                                           \* fake

Questions == Requests \X {"command", "read", "write", "net"}

Codex == INSTANCE CodexRun
Claude == INSTANCE ClaudeRun WITH FeedMax <- WireMax
Fake == INSTANCE FakeRun
Promise == INSTANCE Provider

promise == <<start, started, aborted, work, report, outcome, verdict, told>>
ofCodex == <<step, cached, scout, child, link, pending, owed, wire, turn, request, scope>>
ofClaude == <<stream, feed, result, hook, interrupts>>
ofFake == <<script, waits, cancelled>>
vars == <<agent, promise, ofCodex, ofClaude, ofFake>>

Init ==
    /\ agent \in Agents
    /\ Promise!Init
    /\ Codex!Init /\ Claude!Init /\ Fake!Init
    /\ agent # "codex" => ~cached
    /\ agent # "fake" => script = <<>>

InCodex(A) == agent = "codex" /\ A /\ UNCHANGED <<agent, ofClaude, ofFake>>
InClaude(A) == agent = "claude" /\ A /\ UNCHANGED <<agent, ofCodex, ofFake>>
InFake(A) == agent = "fake" /\ A /\ UNCHANGED <<agent, ofCodex, ofClaude>>

\* A run that is over and all that it started.
Over ==
    /\ start = "thrown" \/ outcome # None
    /\ UNCHANGED vars

Next == InCodex(Codex!Next) \/ InClaude(Claude!Next) \/ InFake(Fake!Next) \/ Over

\* Timers fire, a signal that cannot be caught kills, an exit is noticed, the gateway's
\* grace ends, a script runs.  Nothing is assumed of what an agent says or does.
Fairness ==
    /\ WF_vars(InCodex(Codex!Scouting)) /\ WF_vars(InCodex(Codex!Begin))
    /\ WF_vars(InCodex(Codex!CallTimeout)) /\ WF_vars(InCodex(Codex!KillTimer))
    /\ \A c \in Codex!Interrupts : WF_vars(InCodex(Codex!InterruptTimeout(c)))
    /\ WF_vars(InCodex(child = "killed" /\ Codex!ChildDies)) /\ WF_vars(InCodex(Codex!Exit))
    /\ WF_vars(InCodex(Codex!ForcedClose))
    /\ WF_vars(InClaude(Claude!Begin))
    /\ WF_vars(InFake(Fake!Begin)) /\ WF_vars(InFake(Fake!Wakes))
    /\ WF_vars(InFake(Fake!GatewayDecides))

Spec == Init /\ [][Next]_vars
FairSpec == Spec /\ Fairness

-----------------------------------------------------------------------------
(* What is claimed.                                                        *)

\* Every variable has its type; a call that begin() awaits is one that is pending.
TypeOK ==
    /\ agent \in Agents
    /\ Promise!TypeOK
    /\ step \in {"runtime", "done"} \cup Codex!Calls
    /\ cached \in BOOLEAN /\ turn \in BOOLEAN
    /\ scout \in {"none", "greeting", "listing", "closing", "left"}
    /\ child \in {"none", "alive", "terminating", "killed", "dead"}
    /\ link \in {"none", "open", "faulted", "closed"}
    /\ pending \subseteq Codex!Calls /\ owed \subseteq Codex!Calls
    /\ step \in Codex!Calls => pending = {step}
    /\ Len(wire) <= WireMax /\ Len(feed) <= WireMax + 1
    /\ stream \in {"none", "live", "over", "closed"}
    /\ result \in Promise!Reports
    /\ hook \in [Requests -> {"idle", "deciding", "answered"}]
    /\ waits \in {"no", "verdict", "sleep", "hang"}

\* Whatever the adapter, its promises are those the gateway relies on: start() and
\* `done` settle once; the record says no more than is known, so that a run is "failed"
\* only if its agent never had the work or said so, and "unknown" only if it had; and a
\* yes reaches the agent only as the gateway's verdict and before the end
\* (core/gateway.ts:630, 646; docs/security.md:62).
Contract == Promise!Spec

\* Codex: what a permission request gets was understood as a whole, and is granted for
\* the session only if every verdict was (index.ts:546, 578, 742).
GrantsExact ==
    \A r \in Requests :
        LET demand == request[r].demand
            granted == {p \in request[r].granted : told[<<r, p>>] = "yes"}
        IN  demand # None /\ granted # {} =>
                /\ \A e \in demand.entries :
                        e.target # "special" /\ e.access \in {"read", "write", "deny"}
                /\ scope[r] = "session" => \A p \in granted : verdict[<<r, p>>] = "session"

\* Codex: a request it has withdrawn, or that the end of the run has closed, is never
\* granted, and not answered at all but for one way: of a permission request in several
\* parts the rest is put to the gateway all the same, and if that fails a decline goes
\* out (index.ts:523, 607, 635).
WithdrawnUngranted ==
    [][\A r \in Requests : request[r].withdrawn =>
            \A q \in Questions : q[1] = r /\ told'[q] # told[q] =>
                /\ told'[q] = "no"
                /\ request[r].demand # None /\ Len(Codex!Sought(request[r].demand)) > 1]_vars

\* start() returns or throws, whatever the agent does.
StartSettles == <>(start # "pending")

\* A run that is cancelled ends, unless its agent is claude and hangs in the interrupt.
CancelEnds ==
    agent # "claude" => [](aborted => <>(outcome # None \/ start = "thrown"))

\* Codex: the processes of a run that is over are gone in the end, but for one that did
\* not say what it can do (index.ts:105).
ChildStops ==
    (outcome # None \/ start = "thrown") ~> child \in {"none", "dead"} /\ scout \in {"none", "left"}

===============================================================================
