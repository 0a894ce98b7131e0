------------------------------- MODULE ClaudeRun ------------------------------
(***************************************************************************)
(* One run of the Claude adapter: ClaudeProvider.start() and ClaudeRun of  *)
(* providers/claude/index.ts over the agent SDK.  What the SDK's process   *)
(* wrote and the adapter has not consumed is `feed`; the end of the stream *)
(* and an error of it come after everything that was written.              *)
(***************************************************************************)
EXTENDS Integers, Sequences, FiniteSets

CONSTANTS
    Requests,   \* bound: the tool calls of the run
    FeedMax,    \* bound: messages not yet consumed
    None

VARIABLES
    start, started, aborted, work, report, outcome, verdict, told,   \* see Provider
    stream,     \* the SDK's process: "none", "live", "over" by itself, "closed" by us
    feed,       \* what it wrote and consume() has not taken
    result,     \* the result message consume() has seen
    hook,       \* the PreToolUse hook of each tool call: "idle", "deciding", "answered"
    interrupts  \* are we waiting for stream.interrupt()?

shared == <<start, started, aborted, work, report, outcome, verdict, told>>
private == <<stream, feed, result, hook, interrupts>>
vars == <<shared, private>>

Yes == {"once", "session"}
Tool(r) == <<r, "command">>
Questions == {Tool(r) : r \in Requests}

Init ==
    /\ stream = "none" /\ feed = <<>>
    /\ result = "none"
    /\ hook = [r \in Requests |-> "idle"]
    /\ interrupts = FALSE

-----------------------------------------------------------------------------
(* How a run ends.                                                         *)

\* Slip: a stream that ends without a result ends in failure.
LostFailed == IF aborted THEN "cancelled" ELSE "failed"

\* lost().
Lost == IF aborted THEN "cancelled" ELSE IF started THEN "outcome_unknown" ELSE "failed"

\* finish() and close() end the stream; what it still held is not looked at.
Finish(state) ==
    /\ outcome' = IF outcome = None THEN state ELSE outcome
    /\ stream' = "closed" /\ feed' = <<>>
    /\ interrupts' = FALSE

-----------------------------------------------------------------------------
(* start().                                                                *)

\* The SDK cannot be loaded.
LoadFails ==
    /\ start = "pending"
    /\ start' = "thrown"
    /\ UNCHANGED <<started, aborted, work, report, outcome, verdict, told, private>>

\* begin() starts the query and returns.  A signal that has fired before does not stop it,
\* but the gateway closes a handle it no longer wants.
Begin ==
    /\ start = "pending"
    /\ start' = "returned"
    /\ IF aborted THEN Finish("cancelled")
       ELSE stream' = "live" /\ UNCHANGED <<outcome, feed, interrupts>>
    /\ UNCHANGED <<started, aborted, work, report, verdict, told, result, hook>>

-----------------------------------------------------------------------------
(* The SDK's process.                                                      *)

Feed(message) ==
    /\ stream = "live" /\ Len(feed) < FeedMax
    /\ feed' = Append(feed, message)
    /\ UNCHANGED <<start, started, aborted, work, outcome, verdict, told, stream, result, hook,
                   interrupts>>

\* Its first message tells which tools and servers it has.
AgentInit ==
    /\ feed = <<>> /\ ~started
    /\ \E tools \in {"governed", "foreign"} : Feed([kind |-> "init", tools |-> tools])
    /\ UNCHANGED report

\* A tool call; "other" is a tool that is no operation of Portrail's.
AgentCalls(r) ==
    /\ started /\ report = "none" /\ hook[r] = "idle"
    /\ \A i \in DOMAIN feed : feed[i].kind = "tool" => feed[i].from # r
    /\ \E tool \in {"operation", "other"} : Feed([kind |-> "tool", from |-> r, tool |-> tool])
    /\ UNCHANGED report

\* Its result; an interrupted turn has one too.
AgentReports ==
    /\ started /\ report = "none"
    /\ \E as \in {"completed", "failed"} :
        /\ report' = as
        /\ Feed([kind |-> "result", as |-> as])

\* The process ends or breaks: by itself, or when interrupted or aborted.
AgentStops ==
    /\ stream = "live"
    /\ stream' = "over"
    /\ \E how \in {"end", "error"} : feed' = Append(feed, [kind |-> how])
    /\ UNCHANGED <<shared, result, hook>>
    /\ interrupts' = FALSE

-----------------------------------------------------------------------------
(* consume() and the hook.                                                 *)

Consumes(kind) == feed # <<>> /\ Head(feed).kind = kind
Rest == feed' = Tail(feed) /\ UNCHANGED <<stream, interrupts, outcome>>

\* onInit(): the run goes on only with the tools that were asked for.
OnInit ==
    /\ Consumes("init")
    /\ IF Head(feed).tools = "governed"
       THEN started' = TRUE /\ work' = TRUE /\ Rest
       ELSE Finish("failed") /\ UNCHANGED <<started, work>>
    /\ UNCHANGED <<start, aborted, report, verdict, told, result, hook>>

\* The hook: a tool nobody can govern is refused at once.
OnTool ==
    /\ Consumes("tool")
    /\ LET r == Head(feed).from
           asks == Head(feed).tool = "operation"
       IN  /\ hook' = [hook EXCEPT ![r] = IF asks THEN "deciding" ELSE "answered"]
           /\ verdict' = IF asks THEN [verdict EXCEPT ![Tool(r)] = "asked"] ELSE verdict
           /\ told' = IF asks THEN told ELSE [told EXCEPT ![Tool(r)] = "no"]
    /\ Rest
    /\ UNCHANGED <<start, started, aborted, work, report, result>>

OnResult ==
    /\ Consumes("result")
    /\ result' = Head(feed).as
    /\ Rest
    /\ UNCHANGED <<start, started, aborted, work, report, verdict, told, hook>>

\* How a run ends whose stream has ended.
EndOf ==
    IF result = "none" THEN Lost
    ELSE IF result = "completed" THEN "succeeded"
    ELSE IF aborted THEN "cancelled" ELSE "failed"

OnEnd ==
    /\ Consumes("end")
    /\ Finish(EndOf)
    /\ UNCHANGED <<start, started, aborted, work, report, verdict, told, result, hook>>

\* An error of the stream counts for more than a result that came before it.
OnError ==
    /\ Consumes("error")
    /\ Finish(Lost)
    /\ UNCHANGED <<start, started, aborted, work, report, verdict, told, result, hook>>

\* decide() of the gateway returns, and the hook with it.  It has no yes for a run that
\* may not act.  Closing the stream leaves the wait as it is; nobody reads the answer.
GatewayDecides(r) ==
    /\ hook[r] = "deciding"
    /\ hook' = [hook EXCEPT ![r] = "answered"]
    /\ \E v \in {"no"} \cup IF aborted \/ outcome # None THEN {} ELSE Yes :
        /\ verdict' = [verdict EXCEPT ![Tool(r)] = v]
        /\ told' = [told EXCEPT ![Tool(r)] = IF v \in Yes THEN "yes" ELSE "no"]
    /\ UNCHANGED <<start, started, aborted, work, report, outcome, stream, feed, result, interrupts>>

-----------------------------------------------------------------------------
(* The gateway.                                                            *)

\* cancel(): the SDK is aborted, then asked to interrupt, which has no time limit.
Cancel ==
    /\ ~aborted /\ start # "thrown" /\ outcome = None
    /\ aborted' = TRUE
    /\ interrupts' = (stream = "live")
    /\ UNCHANGED <<start, started, work, report, outcome, verdict, told, stream, feed, result, hook>>

\* The SDK has stopped the turn, or has done nothing.
InterruptReturns ==
    /\ interrupts
    /\ interrupts' = FALSE
    /\ UNCHANGED <<shared, stream, feed, result, hook>>

\* The grace after a cancel is over: handle.close(true).
ForcedClose ==
    /\ aborted /\ start = "returned" /\ outcome = None /\ ~interrupts
    /\ Finish("cancelled")
    /\ UNCHANGED <<start, started, aborted, work, report, verdict, told, result, hook>>

-----------------------------------------------------------------------------
Agent == AgentInit \/ AgentReports \/ AgentStops \/ \E r \in Requests : AgentCalls(r)

Consume == OnInit \/ OnTool \/ OnResult \/ OnEnd \/ OnError

Next ==
    \/ LoadFails \/ Begin \/ Agent \/ Consume
    \/ Cancel \/ InterruptReturns \/ ForcedClose
    \/ \E r \in Requests : GatewayDecides(r)

===============================================================================
