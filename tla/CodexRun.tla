------------------------------- MODULE CodexRun -------------------------------
(***************************************************************************)
(* One run of the Codex adapter: CodexProvider.start() and CodexRun of     *)
(* providers/codex/index.ts on top of CodexRpc of providers/codex/rpc.ts.  *)
(*                                                                         *)
(* An action is one macrotask of the daemon (a message taken from the      *)
(* child's output, a timer, the child's exit, a call of the gateway) with  *)
(* the microtasks it lets run, or one act of the child.  What the child    *)
(* wrote and the daemon has not read is `wire`.                            *)
(***************************************************************************)
EXTENDS Integers, Sequences, FiniteSets

CONSTANTS
    Requests,   \* bound: the approval requests of the turn
    Demands,    \* bound: the permission requests considered, see Translate
    WireMax,    \* bound: unread messages
    None

VARIABLES
    start, started, aborted, work, report, outcome, verdict, told,   \* see Provider
    step,      \* what start() awaits: "runtime", a call of begin(), or "done"
    cached,    \* is the binary in runtimeCache?
    scout,     \* the child runtime() starts to ask what this Codex can do
    child,     \* the child of the run
    link,      \* its CodexRpc: "none", "open", "faulted" or "closed"
    pending,   \* the calls in CodexRpc.pending
    owed,      \* the calls the child has not answered
    wire,      \* what it wrote and the daemon has not read
    turn,      \* does the child work on the turn?
    request,   \* what onRequest() does about each approval request
    scope      \* the scope the child was given with its permissions

shared == <<start, started, aborted, work, report, outcome, verdict, told>>
private == <<step, cached, scout, child, link, pending, owed, wire, turn, request, scope>>
vars == <<shared, private>>

Yes == {"once", "session"}
Parts == {"command", "read", "write", "net"}
Questions == Requests \X Parts
Interrupts == {"onAbort", "interrupt"}
AfterCall == [initialize |-> "account", account |-> "thread", thread |-> "inventory",
              inventory |-> "turn"]
Calls == {"initialize", "account", "thread", "inventory", "turn"} \cup Interrupts
Running == {"alive", "terminating"}

Idle == [phase |-> "idle", demand |-> None, todo |-> <<>>, withdrawn |-> FALSE,
         granted |-> {}, session |-> TRUE]

Init ==
    /\ step = "runtime" /\ cached \in BOOLEAN /\ scout = "none"
    /\ child = "none" /\ link = "none"
    /\ pending = {} /\ owed = {} /\ wire = <<>> /\ turn = FALSE
    /\ request = [r \in Requests |-> Idle]
    /\ scope = [r \in Requests |-> None]

-----------------------------------------------------------------------------
(* Approval requests.                                                      *)

\* Slip: a target nobody can judge is only left out.
RefusedLeniently(demand) == ~demand.known \/ demand.network = "malformed"

\* translatePermissions() refuses as a whole what it cannot translate.
Refused(demand) ==
    \/ ~demand.known
    \/ \E e \in demand.entries : e.target = "special" \/ e.access \notin {"read", "write", "deny"}
    \/ demand.network = "malformed"

\* What is put to the gateway of a request, in this order.
Sought(demand) ==
    LET Wants(access) == \E e \in demand.entries : e.access = access
    IN  (IF Wants("read") THEN <<"read">> ELSE <<>>)
        \o (IF Wants("write") THEN <<"write">> ELSE <<>>)
        \o (IF demand.network = "on" THEN <<"net">> ELSE <<>>)

\* A new request: a command or file change (None), or permissions.  What is refused, and
\* what asks for nothing, is answered at once.
Opened(demand) ==
    LET todo == IF demand = None THEN <<"command">>
                ELSE IF Refused(demand) THEN <<>> ELSE Sought(demand)
    IN  [Idle EXCEPT !.demand = demand, !.todo = todo,
                     !.phase = IF todo = <<>> THEN "over" ELSE "deciding"]

\* Slip: a yes for once does not narrow the scope.
JudgedLoosely(q, v) ==
    [q EXCEPT !.granted = IF v \in Yes THEN @ \cup {Head(q.todo)} ELSE @,
              !.todo = Tail(@),
              !.phase = IF Len(q.todo) = 1 THEN "over" ELSE @]

\* judge() has an answer for the part at hand and goes on to the next.
Judged(q, v) ==
    [q EXCEPT !.granted = IF v \in Yes THEN @ \cup {Head(q.todo)} ELSE @,
              !.session = @ /\ v # "once",
              !.todo = Tail(@),
              !.phase = IF Len(q.todo) = 1 THEN "over" ELSE @]

\* The controller of the request is aborted: the wait for the part at hand ends
\* with null.  The parts after it are asked all the same, by a decide() that
\* listens to a signal which has fired already.
Withdrawn(q) ==
    IF q.phase = "deciding" /\ ~q.withdrawn THEN [Judged(q, "no") EXCEPT !.withdrawn = TRUE]
    ELSE q

\* Slip: the loop does not look at the controller before it answers.
AnsweredAnyway(old, new) == link = "open" /\ old.phase # "over" /\ new.phase = "over"

\* answer() is called when the last part is judged, unless withdrawn.  It reaches nobody
\* on a link that is gone.
Answered(old, new) ==
    link = "open" /\ old.phase # "over" /\ new.phase = "over" /\ ~new.withdrawn

\* A command is accepted once, whatever the verdict's scope; permissions are
\* granted for the session only when every part that was granted is.
ScopeOf(q) == IF q.granted \notin {{}, {"command"}} /\ q.session THEN "session" ELSE "once"

\* The requests become `new`; `known` are the verdicts so far.
Decide(new, known) ==
    /\ request' = new
    /\ verdict' = [q \in Questions |->
            IF known[q] = "unasked" /\ new[q[1]].todo # <<>> /\ Head(new[q[1]].todo) = q[2]
            THEN "asked" ELSE known[q]]
    /\ told' = [q \in Questions |->
            IF Answered(request[q[1]], new[q[1]]) /\ known[q] # "unasked"
            THEN IF q[2] \in new[q[1]].granted THEN "yes" ELSE "no"
            ELSE told[q]]
    /\ scope' = [r \in Requests |->
            IF Answered(request[r], new[r]) THEN ScopeOf(new[r]) ELSE scope[r]]

NoDecision == UNCHANGED <<request, verdict, told, scope>>

-----------------------------------------------------------------------------
(* How a run ends.                                                         *)

\* Slip: a lost agent is a failed one.
LossFailed == IF aborted THEN "cancelled" ELSE "failed"

\* lostContact().
Loss == IF aborted THEN "cancelled" ELSE IF started THEN "outcome_unknown" ELSE "failed"

\* Slip: only a forced close reaches the child.
ClosingByForce(force) ==
    IF child \notin Running \/ ~force THEN child ELSE "killed"

\* rpc.close(), forced or not.
Closing(force) ==
    IF child \notin Running THEN child ELSE IF force THEN "killed" ELSE "terminating"

\* finish(): every request still open is withdrawn.
Finish(state) ==
    IF outcome # None THEN NoDecision /\ UNCHANGED outcome
    ELSE /\ outcome' = state
         /\ Decide([r \in Requests |-> Withdrawn(request[r])], verdict)

\* begin() throws while it awaits a call, and start() with it.
Throw == start' = "thrown" /\ step' = "done"
NoThrow == UNCHANGED <<start, step>>

\* A fault or the exit of the child: what was not read is dropped, every call is
\* rejected, and with it begin() if it awaits one.
LoseLink(state) ==
    /\ link' = state /\ wire' = <<>> /\ pending' = {}
    /\ Finish(Loss)
    /\ IF step \in Calls THEN Throw ELSE NoThrow

-----------------------------------------------------------------------------
(* start(), before the child of the run: what does this Codex offer?       *)

NoRun == UNCHANGED <<child, link, pending, owed, wire, turn, report, started, work,
                     aborted, outcome, request, verdict, told, scope>>

ScoutStarts ==
    /\ step = "runtime" /\ ~cached /\ scout = "none"
    /\ scout' = "greeting"
    /\ NoRun /\ UNCHANGED <<start, step, cached>>

ScoutGreeted ==
    /\ scout = "greeting"
    /\ scout' = "listing"
    /\ NoRun /\ UNCHANGED <<start, step, cached>>

\* initialize() is outside the try: if it times out or is refused the child stays.
ScoutNotGreeted ==
    /\ scout = "greeting"
    /\ scout' \in {"left", "none"}
    /\ Throw /\ NoRun /\ UNCHANGED cached

ScoutListed ==
    /\ scout = "listing"
    /\ scout' = "closing"
    /\ \/ cached' = TRUE /\ NoThrow
       \/ UNCHANGED cached /\ Throw
    /\ NoRun

ScoutGone ==
    /\ scout = "closing"
    /\ scout' = "none"
    /\ NoRun /\ UNCHANGED <<start, step, cached>>

\* begin(): spawn, listen, first call.
Begin ==
    /\ step = "runtime" /\ cached
    /\ step' = "initialize"
    /\ child' = "alive" /\ link' = "open"
    /\ pending' = {"initialize"} /\ owed' = {"initialize"}
    /\ NoDecision
    /\ UNCHANGED <<start, started, aborted, work, report, outcome, cached, scout, wire, turn>>

-----------------------------------------------------------------------------
(* The child.                                                              *)

Write(message) ==
    /\ child \in Running /\ link = "open" /\ Len(wire) < WireMax
    /\ wire' = Append(wire, message)
    /\ NoDecision
    /\ UNCHANGED <<start, started, aborted, work, outcome, step, cached, scout, child, link, pending>>

\* "bad": an answer begin() does not accept, such as a model that is not offered, an
\* account that is not signed in, a weaker approval binding, a foreign MCP server.
ChildAnswers(c) ==
    /\ c \in owed
    /\ owed' = owed \ {c}
    /\ \E as \in {"ok", "error"} \cup IF c \in DOMAIN AfterCall THEN {"bad"} ELSE {} :
        /\ Write([kind |-> "answer", call |-> c, as |-> as])
        /\ turn' = (turn \/ (c = "turn" /\ as = "ok"))
    /\ UNCHANGED report

ChildAsks(r) ==
    /\ turn /\ request[r].phase = "idle"
    /\ \A i \in DOMAIN wire : wire[i].kind = "request" => wire[i].from # r
    /\ \E d \in Demands \cup {None} : Write([kind |-> "request", from |-> r, demand |-> d])
    /\ UNCHANGED <<owed, turn, report>>

\* It withdraws a question, which the daemon may just be answering.
ChildWithdraws(r) ==
    /\ turn /\ request[r].phase = "deciding" /\ ~request[r].withdrawn
    /\ \A i \in DOMAIN wire : wire[i].kind # "withdrawal"
    /\ Write([kind |-> "withdrawal", from |-> r])
    /\ UNCHANGED <<owed, turn, report>>

ChildCompletes(how) ==
    /\ turn
    /\ turn' = FALSE /\ report' = how
    /\ Write([kind |-> "completed", as |-> how])
    /\ UNCHANGED owed

\* It crashes, stops when told to, or is killed.
ChildDies ==
    /\ child \in Running \cup {"killed"}
    /\ child' = "dead" /\ owed' = {} /\ turn' = FALSE
    /\ NoDecision
    /\ UNCHANGED <<start, started, aborted, work, report, outcome, step, cached, scout, link,
                   pending, wire>>

-----------------------------------------------------------------------------
(* What the daemon makes of it.                                            *)

Readable(kind) == link = "open" /\ wire # <<>> /\ Head(wire).kind = kind
Read == wire' = Tail(wire)

\* An answer nobody waits for any more: its call timed out.
LateAnswer ==
    /\ Readable("answer") /\ Head(wire).call \notin pending
    /\ Read /\ NoDecision
    /\ UNCHANGED <<start, started, aborted, work, report, outcome, step, cached, scout, child,
                   link, pending, owed, turn>>

\* begin() goes on to its next call.
Proceed ==
    /\ Readable("answer") /\ Head(wire).call \in pending \cap {"initialize", "account", "thread"}
    /\ Head(wire).as = "ok"
    /\ step' = AfterCall[step]
    /\ pending' = {step'} /\ owed' = owed \cup {step'}
    /\ Read /\ NoDecision
    /\ UNCHANGED <<start, started, aborted, work, report, outcome, cached, scout, child, link, turn>>

\* The tool surface is right: "started", then the turn, unless the run was cancelled.
HandOver ==
    /\ Readable("answer") /\ Head(wire).call \in pending \cap {"inventory"}
    /\ Head(wire).as = "ok"
    /\ started' = TRUE
    /\ IF aborted
       THEN /\ Finish("cancelled") /\ child' = Closing(FALSE)
            /\ start' = "returned" /\ step' = "done" /\ pending' = {}
            /\ UNCHANGED <<work, owed>>
       ELSE /\ step' = "turn" /\ work' = TRUE
            /\ pending' = {"turn"} /\ owed' = owed \cup {"turn"}
            /\ NoDecision /\ UNCHANGED <<start, outcome, child>>
    /\ Read
    /\ UNCHANGED <<aborted, report, cached, scout, link, turn>>

\* start() returns.  Without a turn id until now, an abort was not passed on to the
\* child; the gateway closes a handle it no longer wants.
Returns ==
    /\ Readable("answer") /\ Head(wire).call \in pending \cap {"turn"}
    /\ Head(wire).as = "ok"
    /\ start' = "returned" /\ step' = "done" /\ pending' = {}
    /\ IF aborted THEN Finish("cancelled") /\ child' = Closing(FALSE)
       ELSE NoDecision /\ UNCHANGED <<outcome, child>>
    /\ Read
    /\ UNCHANGED <<started, aborted, work, report, cached, scout, link, owed, turn>>

\* begin() does not accept the answer: start() closes the run by force and throws.
Fails ==
    /\ Readable("answer") /\ Head(wire).call \in pending \ Interrupts
    /\ Head(wire).as # "ok"
    /\ Throw /\ Finish("cancelled") /\ child' = Closing(TRUE)
    /\ pending' = {}
    /\ Read
    /\ UNCHANGED <<started, aborted, work, report, cached, scout, link, owed, turn>>

\* interrupt() returns; an error of the child's own is no reason to end the run.
Interrupted ==
    /\ Readable("answer") /\ Head(wire).call \in pending \cap Interrupts
    /\ pending' = pending \ {Head(wire).call}
    /\ Read /\ NoDecision
    /\ UNCHANGED <<start, started, aborted, work, report, outcome, step, cached, scout, child,
                   link, owed, turn>>

\* onRequest().
OnRequest ==
    /\ Readable("request")
    /\ Decide([request EXCEPT ![Head(wire).from] = Opened(Head(wire).demand)], verdict)
    /\ Read
    /\ UNCHANGED <<start, started, aborted, work, report, outcome, step, cached, scout, child,
                   link, pending, owed, turn>>

\* serverRequest/resolved.
OnWithdrawal ==
    /\ Readable("withdrawal")
    /\ Decide([request EXCEPT ![Head(wire).from] = Withdrawn(@)], verdict)
    /\ Read
    /\ UNCHANGED <<start, started, aborted, work, report, outcome, step, cached, scout, child,
                   link, pending, owed, turn>>

OutcomeOf == [completed |-> "succeeded", interrupted |-> "cancelled", failed |-> "failed"]

\* onTurnCompleted().
OnTurnCompleted ==
    /\ Readable("completed")
    /\ Finish(OutcomeOf[Head(wire).as])
    /\ child' = IF outcome = None THEN Closing(FALSE) ELSE child
    /\ Read
    /\ UNCHANGED <<start, started, aborted, work, report, step, cached, scout, link, pending,
                   owed, turn>>

\* decide() of the gateway returns.  It has no yes for a run that may not act.
GatewayDecides(r) ==
    LET q == request[r] IN
    /\ q.phase = "deciding"
    /\ \E v \in {"no"} \cup IF aborted \/ outcome # None THEN {} ELSE Yes :
        Decide([request EXCEPT ![r] = Judged(q, v)], [verdict EXCEPT ![<<r, Head(q.todo)>>] = v])
    /\ UNCHANGED <<start, started, aborted, work, report, outcome, step, cached, scout, child,
                   link, pending, owed, wire, turn>>

\* ... or rejects.  onRequest() gives the whole request up and declines it, without a look
\* at whether it was withdrawn: that may be so if this is not its first part.
GatewayRejects(r) ==
    /\ request[r].phase = "deciding"
    /\ request' = [request EXCEPT ![r].phase = "over", ![r].todo = <<>>, ![r].granted = {}]
    /\ told' = [q \in Questions |->
            IF q[1] = r /\ verdict[q] # "unasked" /\ link = "open" THEN "no" ELSE told[q]]
    /\ UNCHANGED <<start, started, aborted, work, report, outcome, verdict, step, cached, scout,
                   child, link, pending, owed, wire, turn, scope>>

\* ... or has taken too long.
ApprovalTimeout(r) ==
    /\ request[r].phase = "deciding"
    /\ Decide([request EXCEPT ![r] = Judged(@, "no")], verdict)
    /\ UNCHANGED <<start, started, aborted, work, report, outcome, step, cached, scout, child,
                   link, pending, owed, wire, turn>>

-----------------------------------------------------------------------------
(* Time limits, faults, exit.                                              *)

\* Slip: only the first call has a time limit.
FirstCallTimeout ==
    /\ step \in pending \cap {"initialize"}
    /\ Throw /\ Finish("cancelled") /\ child' = Closing(TRUE)
    /\ pending' = {}
    /\ UNCHANGED <<started, aborted, work, report, cached, scout, link, owed, wire, turn>>

\* A call of begin() gets no answer.
CallTimeout ==
    /\ step \in pending
    /\ Throw /\ Finish("cancelled") /\ child' = Closing(TRUE)
    /\ pending' = {}
    /\ UNCHANGED <<started, aborted, work, report, cached, scout, link, owed, wire, turn>>

\* Slip: the interrupt of the gateway has no time limit.
AbortTimeout(c) ==
    /\ c \in pending \cap {"onAbort"}
    /\ pending' = pending \ {c}
    /\ NoDecision
    /\ UNCHANGED <<start, started, aborted, work, report, outcome, step, cached, scout, child,
                   link, owed, wire, turn>>

\* The child does not answer the interrupt.
InterruptTimeout(c) ==
    /\ c \in pending \cap Interrupts
    /\ pending' = pending \ {c}
    /\ Finish("cancelled")
    /\ child' = IF outcome = None THEN Closing(FALSE) ELSE child
    /\ UNCHANGED <<start, started, aborted, work, report, step, cached, scout, link, owed, wire, turn>>

\* Garbage, an overlong line, a truncated tail, a handler that throws, closed input.
Fault ==
    /\ link = "open" /\ child # "none"
    /\ LoseLink("faulted") /\ child' = Closing(TRUE)
    /\ UNCHANGED <<started, aborted, work, report, cached, scout, owed, turn>>

\* The exit event may come before everything the child wrote was read.
Exit ==
    /\ child = "dead" /\ link \in {"open", "faulted"}
    /\ LoseLink("closed")
    /\ UNCHANGED <<started, aborted, work, report, cached, scout, child, owed, turn>>

KillTimer ==
    /\ child = "terminating"
    /\ child' = "killed"
    /\ NoDecision
    /\ UNCHANGED <<start, started, aborted, work, report, outcome, step, cached, scout, link,
                   pending, owed, wire, turn>>

-----------------------------------------------------------------------------
(* The gateway.                                                            *)

\* cancel(): the abort signal, which calls interrupt(), then interrupt() itself.  Without
\* a turn there is nothing to interrupt.
Cancel ==
    /\ ~aborted /\ start # "thrown" /\ outcome = None
    /\ aborted' = TRUE
    /\ IF start = "returned"
       THEN pending' = pending \cup Interrupts /\ owed' = owed \cup Interrupts
       ELSE UNCHANGED <<pending, owed>>
    /\ NoDecision
    /\ UNCHANGED <<start, started, work, report, outcome, step, cached, scout, child, link, wire, turn>>

\* The grace after a cancel is over: handle.close(true).
ForcedClose ==
    /\ aborted /\ start = "returned" /\ outcome = None /\ "interrupt" \notin pending
    /\ Finish("cancelled") /\ child' = Closing(TRUE)
    /\ UNCHANGED <<start, started, aborted, work, report, step, cached, scout, link, pending,
                   owed, wire, turn>>

-----------------------------------------------------------------------------
(* The specification.                                                      *)

Child ==
    \/ \E c \in Calls : ChildAnswers(c)
    \/ \E r \in Requests : ChildAsks(r) \/ ChildWithdraws(r)
    \/ \E how \in {"completed", "interrupted", "failed"} : ChildCompletes(how)
    \/ ChildDies

Reads ==
    \/ LateAnswer \/ Proceed \/ HandOver \/ Returns \/ Fails \/ Interrupted
    \/ OnRequest \/ OnWithdrawal \/ OnTurnCompleted

Timers ==
    \/ CallTimeout \/ KillTimer
    \/ \E c \in Interrupts : InterruptTimeout(c)
    \/ \E r \in Requests : ApprovalTimeout(r)

Scouting ==
    ScoutStarts \/ ScoutGreeted \/ ScoutNotGreeted \/ ScoutListed \/ ScoutGone

Next ==
    \/ Scouting \/ Begin \/ Child \/ Reads \/ Timers \/ Fault \/ Exit
    \/ Cancel \/ ForcedClose
    \/ \E r \in Requests : GatewayDecides(r)
    \/ \E r \in Requests : GatewayRejects(r)

===============================================================================
