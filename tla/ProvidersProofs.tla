---------------------------- MODULE ProvidersProofs ---------------------------
(* Theorems about the adapters, for any number of requests and any scripts:    *)
(* each keeps what the gateway takes for granted of it.                        *)
EXTENDS Providers, SequenceTheorems, TLAPS

Parts == {"command", "read", "write", "net"}
Verdicts == {"unasked", "asked", "no", "once", "session"}

PromiseTypes ==
    /\ start \in {"pending", "returned", "thrown"}
    /\ started \in BOOLEAN /\ aborted \in BOOLEAN /\ work \in BOOLEAN
    /\ verdict \in [Questions -> Verdicts]
    /\ told \in [Questions -> {"nothing", "yes", "no"}]

-----------------------------------------------------------------------------
(* Sequences: what is written is appended, what is read is the head.       *)

LEMMA Written ==
    ASSUME NEW S, NEW s \in Seq(S), NEW m \in S
    PROVE  /\ Append(s, m) \in Seq(S)
           /\ \A i \in 1..Len(Append(s, m)) : i \in 1..Len(s) \/ i = Len(s) + 1
           /\ \A i \in 1..Len(s) : Append(s, m)[i] = s[i]
           /\ Append(s, m)[Len(s) + 1] = m
OBVIOUS

LEMMA Taken ==
    ASSUME NEW S, NEW s \in Seq(S), s # <<>>
    PROVE  /\ Head(s) \in S /\ Head(s) = s[1] /\ 1 \in 1..Len(s)
           /\ Tail(s) \in Seq(S)
           /\ \A i \in 1..Len(Tail(s)) : i + 1 \in 1..Len(s) /\ Tail(s)[i] = s[i + 1]
OBVIOUS

-----------------------------------------------------------------------------
(* The promise.                                                            *)

\* What a step may say of how the run ended.
LEMMA Vouching ==
    /\ aborted \/ report = "interrupted" => Promise!Vouched("cancelled")
    /\ report = "completed" => Promise!Vouched("succeeded")
    /\ report = "failed" \/ ~work => Promise!Vouched("failed")
    /\ work => Promise!Vouched("outcome_unknown")
BY DEF Promise!Vouched

\* What an error is recorded as is vouched for if the agent has the work when the
\* gateway was told so, unless the run was cancelled.
LEMMA ErrorVouched ==
    ASSUME started \in BOOLEAN, work \in BOOLEAN, aborted \in BOOLEAN,
           work => started, started => work \/ aborted
    PROVE  Promise!Vouched(Promise!OnError)
BY Vouching DEF Promise!OnError

\* A step in which nobody's question moves, and the promises do not settle.
LEMMA Unnoticed ==
    ASSUME UNCHANGED promise
    PROVE  Promise!Next
BY DEF promise, Promise!Next, Promise!Starts, Promise!Ends, Promise!Works, Promise!Decides, Promise!Tells

\* How `done` may settle.
LEMMA EndVouched ==
    ASSUME \/ outcome' = outcome
           \/ outcome = None /\ start' = "thrown"
           \/ outcome = None /\ outcome' = "cancelled" /\ (aborted' \/ report' = "interrupted")
           \/ outcome = None /\ outcome' = "succeeded" /\ report' = "completed"
           \/ outcome = None /\ outcome' = "failed" /\ (report' = "failed" \/ ~work')
           \/ outcome = None /\ outcome' = "outcome_unknown" /\ work'
    PROVE  Promise!Ends
BY DEF Promise!Ends, Promise!Vouched

LEMMA NoQuestion ==
    ASSUME UNCHANGED <<verdict, told>>
    PROVE  Promise!Decides /\ Promise!Tells
BY DEF Promise!Decides, Promise!Tells

-----------------------------------------------------------------------------
(* Claude.                                                                 *)

ClaudeMessages ==
    [kind : {"init"}, tools : {"governed", "foreign"}]
    \cup [kind : {"tool"}, from : Requests, tool : {"operation", "other"}]
    \cup [kind : {"result"}, as : {"completed", "failed"}]
    \cup [kind : {"end", "error"}]

\* What the process wrote, for as long as nobody has read it.
ClaudeFeed ==
    /\ feed \in Seq(ClaudeMessages)
    /\ feed # <<>> => stream \in {"live", "over"}
    /\ \A i \in 1..Len(feed) :
        /\ feed[i].kind = "init" => i = 1 /\ ~started
        /\ feed[i].kind = "result" => feed[i].as = report
        /\ feed[i].kind = "tool" => hook[feed[i].from] = "idle"
    /\ \A i, j \in 1..Len(feed) :
        feed[i].kind = "tool" /\ feed[j].kind = "tool" /\ feed[i].from = feed[j].from => i = j

ClaudeEnds ==
    /\ stream \in {"live", "over"} => start = "returned" /\ outcome = None
    /\ start = "pending" => outcome = None /\ ~started
    /\ started <=> work
    /\ result \in {"none", "completed", "failed"}
    /\ result # "none" => result = report

ClaudeHooks ==
    /\ hook \in [Requests -> {"idle", "deciding", "answered"}]
    /\ \A r \in Requests :
        /\ hook[r] = "idle" => verdict[<<r, "command">>] = "unasked" /\ told[<<r, "command">>] = "nothing"
        /\ hook[r] = "deciding" => verdict[<<r, "command">>] = "asked" /\ told[<<r, "command">>] = "nothing"

ClaudeInv == PromiseTypes /\ ClaudeFeed /\ ClaudeEnds /\ ClaudeHooks

LEMMA ClaudeStarts ==
    ASSUME ClaudeInv, Claude!LoadFails \/ Claude!Begin
    PROVE  ClaudeInv' /\ Promise!Next
<1> USE DEF ClaudeInv, PromiseTypes
<1>1. CASE Claude!LoadFails
  <2>1. /\ start = "pending" /\ start' = "thrown"
        /\ UNCHANGED <<started, aborted, work, report, outcome, verdict, told,
                       stream, feed, result, hook, interrupts>>
    BY <1>1 DEF Claude!LoadFails, Claude!private
  <2>2. ClaudeInv'
    BY <2>1 DEF ClaudeFeed, ClaudeEnds, ClaudeHooks
  <2>3. Promise!Vouched(Promise!OnError)'
    BY <2>1, ErrorVouched DEF ClaudeEnds, Promise!Vouched, Promise!OnError
  <2> QED
    BY <2>1, <2>2, <2>3, NoQuestion DEF Promise!Next, Promise!Starts, Promise!Ends, Promise!Works
<1>2. CASE Claude!Begin
  <2>1. /\ start = "pending" /\ start' = "returned"
        /\ UNCHANGED <<started, aborted, work, report, verdict, told, result, hook>>
    BY <1>2 DEF Claude!Begin
  <2>2. \/ aborted /\ outcome' = "cancelled" /\ stream' = "closed" /\ feed' = <<>>
        \/ stream' = "live" /\ UNCHANGED <<outcome, feed>>
    BY <1>2, <2>1 DEF Claude!Begin, Claude!Finish, ClaudeEnds
  <2>3. feed' = <<>>
    BY <2>1, <2>2 DEF ClaudeFeed, ClaudeEnds
  <2>4. ClaudeInv'
    BY <2>1, <2>2, <2>3 DEF ClaudeFeed, ClaudeEnds, ClaudeHooks
  <2>5. Promise!Ends
    BY <2>1, <2>2, EndVouched DEF ClaudeEnds
  <2> QED
    BY <2>1, <2>4, <2>5, NoQuestion DEF Promise!Next, Promise!Starts, Promise!Works
<1> QED
  BY <1>1, <1>2

\* The process writes one more message.
LEMMA ClaudeWrites ==
    ASSUME ClaudeInv, NEW m \in ClaudeMessages, feed' = Append(feed, m),
           stream \in {"live", "over"}, stream' \in {"live", "over"},
           UNCHANGED <<start, started, aborted, work, outcome, verdict, told, result, hook>>,
           m.kind = "init" => feed = <<>> /\ ~started,
           m.kind = "result" => report = "none" /\ started /\ report' = m.as,
           m.kind # "result" => report' = report,
           m.kind = "tool" => hook[m.from] = "idle"
               /\ \A i \in DOMAIN feed : feed[i].kind = "tool" => feed[i].from # m.from
    PROVE  ClaudeInv' /\ Promise!Next
<1> USE DEF ClaudeInv, PromiseTypes
<1>1. /\ feed' \in Seq(ClaudeMessages)
      /\ \A i \in 1..Len(feed') : i \in 1..Len(feed) \/ i = Len(feed) + 1
      /\ \A i \in 1..Len(feed) : feed'[i] = feed[i]
      /\ feed'[Len(feed) + 1] = m
  BY Written DEF ClaudeFeed
<1>2. DOMAIN feed = 1..Len(feed) /\ (feed = <<>> => Len(feed) = 0) /\ Len(feed) \in Nat
  BY DEF ClaudeFeed
<1>3. \A i \in 1..Len(feed) : feed[i].kind = "result" => feed[i].as # "none"
  <2>1. \A i \in 1..Len(feed) : feed[i] \in ClaudeMessages
    BY DEF ClaudeFeed
  <2> QED
    BY <2>1 DEF ClaudeMessages
<1>4. \A i \in 1..Len(feed') :
        /\ feed'[i].kind = "init" => i = 1 /\ ~started'
        /\ feed'[i].kind = "result" => feed'[i].as = report'
        /\ feed'[i].kind = "tool" => hook'[feed'[i].from] = "idle"
  BY <1>1, <1>2, <1>3 DEF ClaudeFeed
<1>5. \A i, j \in 1..Len(feed') :
        feed'[i].kind = "tool" /\ feed'[j].kind = "tool" /\ feed'[i].from = feed'[j].from => i = j
  BY <1>1, <1>2 DEF ClaudeFeed
<1>6. ClaudeFeed'
  BY <1>1, <1>4, <1>5 DEF ClaudeFeed
<1>7. ClaudeEnds'
  BY DEF ClaudeEnds
<1>8. ClaudeHooks'
  BY DEF ClaudeHooks
<1>9. Promise!Next
  BY NoQuestion, EndVouched DEF Promise!Next, Promise!Starts, Promise!Works
<1> QED
  BY <1>6, <1>7, <1>8, <1>9

LEMMA ClaudeAgent ==
    ASSUME ClaudeInv, Claude!Agent
    PROVE  ClaudeInv' /\ Promise!Next
<1> USE DEF Claude!Feed
<1>1. CASE Claude!AgentInit
  <2>1. PICK tools \in {"governed", "foreign"} : Claude!Feed([kind |-> "init", tools |-> tools])
    BY <1>1 DEF Claude!AgentInit
  <2>2. [kind |-> "init", tools |-> tools] \in ClaudeMessages
    BY DEF ClaudeMessages
  <2> QED
    BY <1>1, <2>1, <2>2, ClaudeWrites DEF Claude!AgentInit
<1>2. ASSUME NEW r \in Requests, Claude!AgentCalls(r) PROVE ClaudeInv' /\ Promise!Next
  <2>1. PICK tool \in {"operation", "other"} :
            Claude!Feed([kind |-> "tool", from |-> r, tool |-> tool])
    BY <1>2 DEF Claude!AgentCalls
  <2>2. [kind |-> "tool", from |-> r, tool |-> tool] \in ClaudeMessages
    BY DEF ClaudeMessages
  <2> QED
    BY <1>2, <2>1, <2>2, ClaudeWrites DEF Claude!AgentCalls
<1>3. CASE Claude!AgentReports
  <2>1. PICK as \in {"completed", "failed"} :
            report' = as /\ Claude!Feed([kind |-> "result", as |-> as])
    BY <1>3 DEF Claude!AgentReports
  <2>2. [kind |-> "result", as |-> as] \in ClaudeMessages
    BY DEF ClaudeMessages
  <2> QED
    BY <1>3, <2>1, <2>2, ClaudeWrites DEF Claude!AgentReports
<1>4. CASE Claude!AgentStops
  <2>1. PICK how \in {"end", "error"} : feed' = Append(feed, [kind |-> how])
    BY <1>4 DEF Claude!AgentStops
  <2>2. [kind |-> how] \in ClaudeMessages
    BY DEF ClaudeMessages
  <2> QED
    BY <1>4, <2>1, <2>2, ClaudeWrites DEF Claude!AgentStops, Claude!shared
<1> QED
  BY <1>1, <1>2, <1>3, <1>4 DEF Claude!Agent

\* The adapter takes the head of what was written.
LEMMA ClaudeTakes ==
    ASSUME ClaudeInv, feed # <<>>, feed' = Tail(feed), stream' = stream, report' = report,
           \A r \in Requests : (Head(feed).kind = "tool" /\ Head(feed).from = r) \/ hook'[r] = hook[r]
    PROVE  ClaudeFeed'
<1>1. /\ Head(feed) = feed[1] /\ 1 \in 1..Len(feed)
      /\ feed' \in Seq(ClaudeMessages)
      /\ \A i \in 1..Len(feed') : i + 1 \in 1..Len(feed) /\ feed'[i] = feed[i + 1]
  BY Taken DEF ClaudeInv, ClaudeFeed
<1>2. \A i \in 1..Len(feed) : feed[i] \in ClaudeMessages
  BY DEF ClaudeInv, ClaudeFeed
<1>3. \A i \in 1..Len(feed') : feed'[i].kind # "init"
  BY <1>1 DEF ClaudeInv, ClaudeFeed
<1>4. \A i \in 1..Len(feed') : feed'[i].kind = "tool" => hook'[feed'[i].from] = "idle"
  <2> SUFFICES ASSUME NEW i \in 1..Len(feed'), feed'[i].kind = "tool"
               PROVE  hook'[feed'[i].from] = "idle"
    OBVIOUS
  <2>1. feed[i + 1].kind = "tool" /\ i + 1 \in 1..Len(feed) /\ i + 1 # 1
    BY <1>1
  <2>2. feed[i + 1].from \in Requests
    BY <1>2, <2>1 DEF ClaudeMessages
  <2>3. hook'[feed[i + 1].from] = hook[feed[i + 1].from]
    BY <1>1, <2>1, <2>2 DEF ClaudeInv, ClaudeFeed
  <2> QED
    BY <1>1, <2>1, <2>3 DEF ClaudeInv, ClaudeFeed
<1>5. \A i, j \in 1..Len(feed') :
        feed'[i].kind = "tool" /\ feed'[j].kind = "tool" /\ feed'[i].from = feed'[j].from => i = j
  BY <1>1 DEF ClaudeInv, ClaudeFeed
<1>6. \A i \in 1..Len(feed') : feed'[i].kind = "result" => feed'[i].as = report'
  BY <1>1 DEF ClaudeInv, ClaudeFeed
<1>7. stream' \in {"live", "over"}
  BY DEF ClaudeInv, ClaudeFeed
<1> QED
  BY <1>1, <1>3, <1>4, <1>5, <1>6, <1>7 DEF ClaudeFeed

\* The run ends and the stream with it.
LEMMA ClaudeFinishes ==
    ASSUME ClaudeInv, start = "returned", NEW state \in {"cancelled", "succeeded", "failed", "outcome_unknown"},
           Claude!Finish(state),
           UNCHANGED <<start, started, aborted, work, report, verdict, told, result, hook>>,
           \/ outcome # None
           \/ state = "cancelled" /\ aborted
           \/ state = "succeeded" /\ report = "completed"
           \/ state = "failed" /\ (report = "failed" \/ ~work)
           \/ state = "outcome_unknown" /\ work
    PROVE  ClaudeInv' /\ Promise!Next
<1> USE DEF ClaudeInv, PromiseTypes
<1>1. /\ outcome' = IF outcome = None THEN state ELSE outcome
      /\ stream' = "closed" /\ feed' = <<>>
  BY DEF Claude!Finish
<1>2. ClaudeFeed' /\ ClaudeEnds' /\ ClaudeHooks'
  BY <1>1 DEF ClaudeFeed, ClaudeEnds, ClaudeHooks
<1>3. Promise!Ends
  BY <1>1, EndVouched
<1> QED
  BY <1>2, <1>3, NoQuestion DEF Promise!Next, Promise!Starts, Promise!Works

LEMMA ClaudeConsumes ==
    ASSUME ClaudeInv, Claude!Consume
    PROVE  ClaudeInv' /\ Promise!Next
<1> USE DEF ClaudeInv, PromiseTypes, Claude!Consumes, Claude!Rest
<1>0. feed # <<>> /\ start = "returned" /\ outcome = None
  BY DEF Claude!Consume, Claude!OnInit, Claude!OnTool, Claude!OnResult, Claude!OnEnd, Claude!OnError,
         ClaudeFeed, ClaudeEnds
<1>1. Head(feed) \in ClaudeMessages /\ Head(feed) = feed[1] /\ 1 \in 1..Len(feed)
  BY <1>0, Taken DEF ClaudeFeed
<1>2. CASE Claude!OnInit
  <2>1. ~started /\ ~work
    BY <1>1, <1>2 DEF Claude!OnInit, ClaudeFeed, ClaudeEnds
  <2>2. CASE Head(feed).tools = "governed"
    <3>1. /\ started' = TRUE /\ work' = TRUE /\ feed' = Tail(feed)
          /\ UNCHANGED <<start, aborted, report, outcome, verdict, told, stream, result, hook>>
      BY <1>2, <2>2 DEF Claude!OnInit
    <3>2. ClaudeFeed'
      BY <1>0, <3>1, ClaudeTakes
    <3>3. ClaudeEnds' /\ ClaudeHooks'
      BY <1>0, <3>1 DEF ClaudeEnds, ClaudeHooks
    <3> QED
      BY <1>0, <3>1, <3>2, <3>3, NoQuestion, EndVouched DEF Promise!Next, Promise!Starts, Promise!Works
  <2>3. CASE Head(feed).tools # "governed"
    BY <1>0, <1>2, <2>1, <2>3, ClaudeFinishes DEF Claude!OnInit
  <2> QED
    BY <2>2, <2>3
<1>3. CASE Claude!OnTool
  <2> DEFINE r == Head(feed).from
  <2>1. r \in Requests /\ hook[r] = "idle"
    BY <1>1, <1>3 DEF Claude!OnTool, ClaudeMessages, ClaudeFeed
  <2>2. /\ feed' = Tail(feed)
        /\ hook' = [hook EXCEPT ![r] = IF Head(feed).tool = "operation" THEN "deciding" ELSE "answered"]
        /\ UNCHANGED <<start, started, aborted, work, report, outcome, stream, result>>
    BY <1>3 DEF Claude!OnTool
  <2>3. \/ /\ verdict' = [verdict EXCEPT ![<<r, "command">>] = "asked"]
           /\ told' = told /\ Head(feed).tool = "operation"
        \/ /\ verdict' = verdict /\ Head(feed).tool # "operation"
           /\ told' = [told EXCEPT ![<<r, "command">>] = "no"]
    BY <1>3 DEF Claude!OnTool, Claude!Tool
  <2>t. Head(feed).kind = "tool"
    BY <1>3 DEF Claude!OnTool
  <2> HIDE DEF r
  <2>4. verdict[<<r, "command">>] = "unasked" /\ told[<<r, "command">>] = "nothing"
    BY <2>1 DEF ClaudeHooks
  <2>5. \A q \in Requests \ {r} : hook'[q] = hook[q]
    BY <2>2 DEF ClaudeHooks
  <2>6. ClaudeFeed'
    <3>1. \A q \in Requests : (Head(feed).kind = "tool" /\ Head(feed).from = q) \/ hook'[q] = hook[q]
      BY <2>5, <2>t DEF r
    <3> QED
      BY <1>0, <2>2, <3>1, ClaudeTakes
  <2>7. ClaudeEnds'
    BY <2>2 DEF ClaudeEnds
  <2>8. ClaudeHooks' /\ PromiseTypes'
    <3>1. \A q \in Requests : <<q, "command">> \in Questions
      BY DEF Questions
    <3>2. hook' \in [Requests -> {"idle", "deciding", "answered"}]
      BY <2>1, <2>2 DEF ClaudeHooks
    <3>3. PromiseTypes'
      BY <2>2, <2>3 DEF Verdicts
    <3>4. \A q \in Requests \ {r} : /\ verdict'[<<q, "command">>] = verdict[<<q, "command">>]
                                     /\ told'[<<q, "command">>] = told[<<q, "command">>]
      BY <2>3, <3>1
    <3>5. hook'[r] = "deciding" => verdict'[<<r, "command">>] = "asked" /\ told'[<<r, "command">>] = "nothing"
      BY <2>1, <2>2, <2>3, <2>4, <3>1 DEF ClaudeHooks
    <3>6. hook'[r] # "idle"
      BY <2>1, <2>2 DEF ClaudeHooks
    <3> QED
      BY <2>5, <3>2, <3>3, <3>4, <3>5, <3>6 DEF ClaudeHooks
  <2>9. Promise!Decides /\ Promise!Tells
    BY <2>3, <2>4 DEF Promise!Decides, Promise!Tells
  <2> QED
    BY <2>2, <2>6, <2>7, <2>8, <2>9, EndVouched DEF Promise!Next, Promise!Starts, Promise!Works
<1>4. CASE Claude!OnResult
  <2>1. /\ feed' = Tail(feed) /\ result' = Head(feed).as
        /\ UNCHANGED <<start, started, aborted, work, report, outcome, verdict, told, stream, hook>>
    BY <1>4 DEF Claude!OnResult
  <2>2. result' = report /\ result' \in {"completed", "failed"}
    BY <1>1, <1>4, <2>1 DEF Claude!OnResult, ClaudeMessages, ClaudeFeed
  <2>3. ClaudeFeed'
    BY <1>0, <2>1, ClaudeTakes
  <2>4. ClaudeEnds' /\ ClaudeHooks'
    BY <2>1, <2>2 DEF ClaudeEnds, ClaudeHooks
  <2> QED
    BY <2>1, <2>3, <2>4, NoQuestion, EndVouched DEF Promise!Next, Promise!Starts, Promise!Works
<1>5. CASE Claude!OnEnd
  BY <1>0, <1>5, ClaudeFinishes DEF Claude!OnEnd, Claude!EndOf, Claude!Lost, ClaudeEnds
<1>6. CASE Claude!OnError
  BY <1>0, <1>6, ClaudeFinishes DEF Claude!OnError, Claude!Lost, ClaudeEnds
<1> QED
  BY <1>2, <1>3, <1>4, <1>5, <1>6 DEF Claude!Consume

LEMMA ClaudeStep ==
    ASSUME ClaudeInv, Claude!Next
    PROVE  ClaudeInv' /\ Promise!Next
<1> USE DEF ClaudeInv, PromiseTypes
<1>1. CASE Claude!Cancel
  <2>1. ClaudeInv'
    BY <1>1 DEF Claude!Cancel, ClaudeFeed, ClaudeEnds, ClaudeHooks
  <2>2. /\ aborted' = TRUE
        /\ UNCHANGED <<start, started, work, report, outcome, verdict, told>>
    BY <1>1 DEF Claude!Cancel
  <2> QED
    BY <2>1, <2>2, NoQuestion, EndVouched DEF Promise!Next, Promise!Starts, Promise!Works
<1>2. CASE Claude!InterruptReturns
  <2>1. UNCHANGED <<start, started, aborted, work, report, outcome, verdict, told,
                    stream, feed, result, hook>>
    BY <1>2 DEF Claude!InterruptReturns, Claude!shared
  <2>2. ClaudeInv'
    BY <2>1 DEF ClaudeFeed, ClaudeEnds, ClaudeHooks
  <2> QED
    BY <2>1, <2>2, Unnoticed DEF promise
<1>3. CASE Claude!ForcedClose
  BY <1>3, ClaudeFinishes DEF Claude!ForcedClose
<1>4. ASSUME NEW r \in Requests, Claude!GatewayDecides(r) PROVE ClaudeInv' /\ Promise!Next
  <2> USE DEF Verdicts
  <2>1. PICK v \in {"no", "once", "session"} :
            /\ v # "no" => outcome = None
            /\ verdict' = [verdict EXCEPT ![<<r, "command">>] = v]
            /\ told' = [told EXCEPT ![<<r, "command">>] = IF v = "no" THEN "no" ELSE "yes"]
    BY <1>4 DEF Claude!GatewayDecides, Claude!Yes, Claude!Tool
  <2>2. /\ hook[r] = "deciding" /\ hook' = [hook EXCEPT ![r] = "answered"]
        /\ UNCHANGED <<start, started, aborted, work, report, outcome, stream, feed, result>>
    BY <1>4 DEF Claude!GatewayDecides
  <2>3. verdict[<<r, "command">>] = "asked" /\ told[<<r, "command">>] = "nothing"
    BY <2>2 DEF ClaudeHooks
  <2>4. ClaudeFeed'
    <3>1. \A i \in 1..Len(feed) : feed[i].kind = "tool" => feed[i].from \in Requests
      <4>1. \A i \in 1..Len(feed) : feed[i] \in ClaudeMessages
        BY DEF ClaudeFeed
      <4> QED
        BY <4>1 DEF ClaudeMessages
    <3> QED
      BY <2>2, <3>1 DEF ClaudeFeed, ClaudeHooks
  <2>5. ClaudeEnds' /\ ClaudeHooks' /\ PromiseTypes'
    <3>1. \A q \in Requests : <<q, "command">> \in Questions
      BY DEF Questions
    <3>2. PromiseTypes'
      BY <2>1, <2>2
    <3>3. ClaudeEnds'
      BY <2>2 DEF ClaudeEnds
    <3>4. \A q \in Requests \ {r} : /\ verdict'[<<q, "command">>] = verdict[<<q, "command">>]
                                     /\ told'[<<q, "command">>] = told[<<q, "command">>]
                                     /\ hook'[q] = hook[q]
      BY <2>1, <2>2, <3>1 DEF ClaudeHooks
    <3>5. hook' \in [Requests -> {"idle", "deciding", "answered"}] /\ hook'[r] = "answered"
      BY <2>2 DEF ClaudeHooks
    <3> QED
      BY <3>2, <3>3, <3>4, <3>5 DEF ClaudeHooks
  <2>6. Promise!Decides
    BY <2>1, <2>3 DEF Promise!Decides, Promise!Yes
  <2>7. <<r, "command">> \in Questions
    BY DEF Questions
  <2>8. Promise!Tells
    BY <2>1, <2>3, <2>7 DEF Promise!Tells, Promise!Yes
  <2> QED
    BY <2>2, <2>4, <2>5, <2>6, <2>8, EndVouched DEF Promise!Next, Promise!Starts, Promise!Works
<1> QED
  BY <1>1, <1>2, <1>3, <1>4, ClaudeStarts, ClaudeAgent, ClaudeConsumes DEF Claude!Next

-----------------------------------------------------------------------------
(* The scripted agent.                                                     *)

FakeSteps == Requests \cup {"sleep", "hang", "crash", "fail"}

\* A script asks for each permission at most once.
FakeScript(steps) ==
    /\ steps \in Seq(FakeSteps)
    /\ \A i, j \in 1..Len(steps) : steps[i] = steps[j] /\ steps[i] \in Requests => i = j

\* What is still to come of it was not put to the gateway, but for the step it waits at.
FakeQuestions ==
    /\ waits = "verdict" =>
        /\ Head(script) \in Requests
        /\ verdict[<<Head(script), "command">>] = "asked"
        /\ told[<<Head(script), "command">>] = "nothing"
    /\ \A i \in 1..Len(script) : script[i] \in Requests /\ ~(i = 1 /\ waits = "verdict") =>
        /\ verdict[<<script[i], "command">>] = "unasked"
        /\ told[<<script[i], "command">>] = "nothing"

FakeEnds ==
    /\ cancelled = aborted
    /\ waits \in {"no", "verdict", "sleep", "hang"}
    /\ start = "pending" => outcome = None /\ report = "none" /\ waits = "no" /\ ~aborted
    /\ start = "returned" /\ outcome = None => waits # "no"
    /\ waits # "no" => /\ start = "returned" /\ outcome = None /\ started /\ work
                       /\ report = "none" /\ script # <<>>
    /\ start # "thrown"

FakeInv == PromiseTypes /\ FakeScript(script) /\ FakeQuestions /\ FakeEnds

\* How execute() ends at its next step, case by case.
LEMMA FakeEndOf ==
    ASSUME NEW steps, NEW off
    PROVE  /\ steps = <<>> => Fake!EndOf(steps, off) = "succeeded"
           /\ steps # <<>> /\ off => Fake!EndOf(steps, off) = "cancelled"
           /\ steps # <<>> /\ ~off /\ Head(steps) = "crash" => Fake!EndOf(steps, off) = "rejected"
           /\ steps # <<>> /\ ~off /\ Head(steps) = "fail" => Fake!EndOf(steps, off) = "failed"
           /\ steps # <<>> /\ ~off /\ Head(steps) \notin {"crash", "fail"} =>
                Fake!EndOf(steps, off) = None
BY DEF Fake!EndOf

LEMMA FakeTail ==
    ASSUME NEW steps, FakeScript(steps), steps # <<>>
    PROVE  /\ FakeScript(Tail(steps))
           /\ Head(steps) = steps[1] /\ 1 \in 1..Len(steps)
           /\ \A i \in 1..Len(Tail(steps)) :
                /\ i + 1 \in 1..Len(steps) /\ i + 1 # 1
                /\ Tail(steps)[i] = steps[i + 1]
<1>1. /\ Head(steps) = steps[1] /\ 1 \in 1..Len(steps)
      /\ Tail(steps) \in Seq(FakeSteps)
      /\ \A i \in 1..Len(Tail(steps)) : i + 1 \in 1..Len(steps) /\ Tail(steps)[i] = steps[i + 1]
  BY Taken DEF FakeScript
<1>2. \A i, j \in 1..Len(Tail(steps)) :
        Tail(steps)[i] = Tail(steps)[j] /\ Tail(steps)[i] \in Requests => i = j
  BY <1>1 DEF FakeScript
<1> QED
  BY <1>1, <1>2 DEF FakeScript

\* execute() goes on with these steps.
LEMMA FakeProceeds ==
    ASSUME NEW steps, FakeScript(steps), NEW off \in BOOLEAN,
           NEW known \in [Questions -> Verdicts],
           told' \in [Questions -> {"nothing", "yes", "no"}],
           \A i \in 1..Len(steps) : steps[i] \in Requests =>
                known[<<steps[i], "command">>] = "unasked" /\ told'[<<steps[i], "command">>] = "nothing",
           Fake!Proceed(steps, off, known),
           outcome = None, report = "none",
           start' = "returned", started', work', started' \in BOOLEAN, work' \in BOOLEAN,
           aborted' = off, cancelled' = off
    PROVE  /\ FakeInv' /\ Promise!Ends
           /\ \A q \in Questions :
                verdict'[q] = known[q] \/ (known[q] = "unasked" /\ verdict'[q] = "asked")
<1> DEFINE end == Fake!EndOf(steps, off)
           asks == end = None /\ Head(steps) \in Requests
<1>1. /\ script' = steps /\ outcome' = end
      /\ report' = IF steps = <<>> THEN "completed"
                   ELSE IF Head(steps) = "fail" /\ ~off THEN "failed" ELSE "none"
      /\ waits' = IF end # None THEN "no" ELSE IF asks THEN "verdict" ELSE Head(steps)
      /\ verdict' = IF asks THEN [known EXCEPT ![<<Head(steps), "command">>] = "asked"] ELSE known
  BY Zenon DEF Fake!Proceed, Fake!Ask
<1>2. /\ steps = <<>> => end = "succeeded"
      /\ steps # <<>> /\ off => end = "cancelled"
      /\ steps # <<>> /\ ~off /\ Head(steps) = "crash" => end = "rejected"
      /\ steps # <<>> /\ ~off /\ Head(steps) = "fail" => end = "failed"
      /\ steps # <<>> /\ ~off /\ Head(steps) \notin {"crash", "fail"} => end = None
  BY FakeEndOf
<1> HIDE DEF end
<1>3. None \notin {"succeeded", "failed", "cancelled", "outcome_unknown", "rejected", "once", "session"}
      /\ Requests \cap {"sleep", "hang", "crash", "fail"} = {}
  BY ProvidersAssumption
<1>4. steps # <<>> => /\ Head(steps) \in FakeSteps /\ Head(steps) = steps[1] /\ 1 \in 1..Len(steps)
  BY Taken DEF FakeScript
<1>5. \A q \in Requests : <<q, "command">> \in Questions
  BY DEF Questions
<1>6. asks => steps # <<>> /\ known[<<Head(steps), "command">>] = "unasked"
                           /\ told'[<<Head(steps), "command">>] = "nothing"
  BY <1>2, <1>3, <1>4
<1>7. \A q \in Questions : verdict'[q] = known[q] \/ (known[q] = "unasked" /\ verdict'[q] = "asked")
  BY <1>1, <1>5, <1>6
<1>8. PromiseTypes'
  BY <1>1, <1>5 DEF PromiseTypes, Verdicts
<1>9. FakeEnds'
  BY <1>1, <1>2, <1>3, <1>4 DEF FakeEnds, FakeSteps
<1>10. waits' = "verdict" <=> asks
  BY <1>1, <1>2, <1>3, <1>4 DEF FakeSteps
<1>11. FakeQuestions'
  <2>1. waits' = "verdict" => /\ Head(script') \in Requests
                              /\ verdict'[<<Head(script'), "command">>] = "asked"
                              /\ told'[<<Head(script'), "command">>] = "nothing"
    BY <1>1, <1>5, <1>6, <1>10
  <2>2. ASSUME NEW i \in 1..Len(steps), steps[i] \in Requests, ~(i = 1 /\ asks)
        PROVE  verdict'[<<steps[i], "command">>] = "unasked"
    <3>1. asks => steps[i] # Head(steps)
      BY <1>4, <1>6, <2>2 DEF FakeScript
    <3> QED
      BY <1>1, <1>5, <2>2, <3>1
  <2> QED
    BY <1>1, <1>10, <2>1, <2>2 DEF FakeQuestions
<1>12. Promise!Ends
  <2>1. end = "rejected" => Promise!Vouched(Promise!OnError)'
    BY <1>2 DEF Promise!Vouched, Promise!OnError
  <2>2. end # "rejected" => Promise!Ends
    BY <1>1, <1>2, EndVouched
  <2> QED
    BY <1>1, <2>1, <2>2 DEF Promise!Ends
<1> QED
  BY <1>1, <1>7, <1>8, <1>9, <1>11, <1>12 DEF FakeInv

\* ... after a sleep, which its end or a cancel has ended.
LEMMA FakeGoesOn ==
    ASSUME FakeInv, waits = "sleep", NEW off \in BOOLEAN, aborted => off,
           Fake!Proceed(Tail(script), off, verdict), aborted' = off, cancelled' = off,
           UNCHANGED <<start, started, work, told>>
    PROVE  FakeInv' /\ Promise!Next
<1> USE DEF FakeInv
<1>1. /\ start = "returned" /\ outcome = None /\ started /\ work /\ report = "none" /\ script # <<>>
  BY DEF FakeEnds
<1>2. /\ FakeScript(Tail(script))
      /\ \A i \in 1..Len(Tail(script)) :
            i + 1 \in 1..Len(script) /\ i + 1 # 1 /\ Tail(script)[i] = script[i + 1]
  BY <1>1, FakeTail
<1>3. \A i \in 1..Len(Tail(script)) : Tail(script)[i] \in Requests =>
        /\ verdict[<<Tail(script)[i], "command">>] = "unasked"
        /\ told'[<<Tail(script)[i], "command">>] = "nothing"
  BY <1>2 DEF FakeQuestions
<1>4. /\ FakeInv' /\ Promise!Ends
      /\ \A q \in Questions :
            verdict'[q] = verdict[q] \/ (verdict[q] = "unasked" /\ verdict'[q] = "asked")
  <2>1. /\ verdict \in [Questions -> Verdicts]
        /\ told' \in [Questions -> {"nothing", "yes", "no"}]
        /\ started' /\ work' /\ started' \in BOOLEAN /\ work' \in BOOLEAN /\ start' = "returned"
    BY <1>1 DEF PromiseTypes
  <2> DEFINE steps == Tail(script)
  <2>2. /\ FakeScript(steps) /\ Fake!Proceed(steps, off, verdict)
        /\ \A i \in 1..Len(steps) : steps[i] \in Requests =>
                /\ verdict[<<steps[i], "command">>] = "unasked"
                /\ told'[<<steps[i], "command">>] = "nothing"
    BY <1>2, <1>3
  <2> HIDE DEF steps, FakeInv
  <2> QED
    BY <1>1, <2>1, <2>2, FakeProceeds
<1> QED
  BY <1>1, <1>4 DEF Promise!Next, Promise!Starts, Promise!Works, Promise!Decides, Promise!Tells

LEMMA FakeStep ==
    ASSUME FakeInv, Fake!Next
    PROVE  FakeInv' /\ Promise!Next
<1> USE DEF FakeInv
<1>1. CASE Fake!Begin
  <2>1. /\ start = "pending" /\ start' = "returned" /\ started' = TRUE /\ work' = TRUE
        /\ Fake!Proceed(script, FALSE, verdict)
        /\ UNCHANGED <<aborted, told, cancelled>>
    BY <1>1 DEF Fake!Begin
  <2>2. outcome = None /\ report = "none" /\ waits = "no" /\ aborted' = FALSE /\ cancelled' = FALSE
    BY <2>1 DEF FakeEnds, PromiseTypes
  <2>3. \A i \in 1..Len(script) : script[i] \in Requests =>
            verdict[<<script[i], "command">>] = "unasked" /\ told'[<<script[i], "command">>] = "nothing"
    BY <2>1, <2>2 DEF FakeQuestions
  <2>4. /\ FakeInv' /\ Promise!Ends
        /\ \A q \in Questions :
                verdict'[q] = verdict[q] \/ (verdict[q] = "unasked" /\ verdict'[q] = "asked")
    <3>1. /\ verdict \in [Questions -> Verdicts] /\ FALSE \in BOOLEAN
          /\ told' \in [Questions -> {"nothing", "yes", "no"}]
          /\ started' /\ work' /\ started' \in BOOLEAN /\ work' \in BOOLEAN
      BY <2>1 DEF PromiseTypes
    <3> QED
      BY <2>1, <2>2, <2>3, <3>1, FakeProceeds, ZenonT(60)
  <2> QED
    BY <2>1, <2>2, <2>4
    DEF Promise!Next, Promise!Starts, Promise!Works, Promise!Decides, Promise!Tells
<1>2. CASE Fake!Wakes
  <2>1. /\ waits = "sleep" /\ Fake!Proceed(Tail(script), aborted, verdict)
        /\ aborted \in BOOLEAN /\ aborted' = aborted /\ cancelled' = aborted
        /\ UNCHANGED <<start, started, work, told>>
    BY <1>2 DEF Fake!Wakes, FakeEnds, PromiseTypes
  <2> QED
    BY <2>1, FakeGoesOn
<1>3. CASE Fake!GatewayDecides
  <2> DEFINE q == <<Head(script), "command">>
  <2>1. PICK v \in {"no", "once", "session"} :
            /\ told' = [told EXCEPT ![q] = IF v = "no" THEN "no" ELSE "yes"]
            /\ Fake!Proceed(Tail(script), cancelled, [verdict EXCEPT ![q] = v])
    BY <1>3 DEF Fake!GatewayDecides, Fake!Yes, Fake!Ask
  <2>2. waits = "verdict" /\ UNCHANGED <<start, started, aborted, work, cancelled>>
    BY <1>3 DEF Fake!GatewayDecides
  <2> DEFINE known == [verdict EXCEPT ![q] = v]
  <2>3. /\ start = "returned" /\ outcome = None /\ started /\ work /\ report = "none"
        /\ script # <<>> /\ cancelled = aborted
    BY <2>2 DEF FakeEnds
  <2>4. /\ FakeScript(Tail(script)) /\ Head(script) = script[1] /\ 1 \in 1..Len(script)
        /\ \A i \in 1..Len(Tail(script)) :
                i + 1 \in 1..Len(script) /\ i + 1 # 1 /\ Tail(script)[i] = script[i + 1]
    BY <2>3, FakeTail
  <2>5. Head(script) \in Requests /\ verdict[q] = "asked" /\ told[q] = "nothing" /\ q \in Questions
    BY <2>2 DEF FakeQuestions, Questions
  <2>6. /\ known \in [Questions -> Verdicts] /\ known[q] = v
        /\ \A p \in Questions \ {q} : known[p] = verdict[p] /\ told'[p] = told[p]
        /\ told' \in [Questions -> {"nothing", "yes", "no"}]
        /\ told'[q] = IF v = "no" THEN "no" ELSE "yes"
    BY <2>1, <2>5 DEF PromiseTypes, Verdicts
  <2> HIDE DEF known
  <2>7. ASSUME NEW i \in 1..Len(Tail(script)), Tail(script)[i] \in Requests
        PROVE  /\ known[<<Tail(script)[i], "command">>] = "unasked"
               /\ told'[<<Tail(script)[i], "command">>] = "nothing"
    <3> DEFINE s == script[i + 1]
    <3>1. i + 1 \in 1..Len(script) /\ i + 1 # 1 /\ Tail(script)[i] = s /\ s \in Requests
      BY <2>4, <2>7
    <3>2. s # Head(script)
      BY <2>4, <3>1 DEF FakeScript
    <3>3. verdict[<<s, "command">>] = "unasked" /\ told[<<s, "command">>] = "nothing"
      BY <3>1 DEF FakeQuestions
    <3> HIDE DEF s
    <3>4. <<s, "command">> \in Questions \ {q}
      BY <3>1, <3>2 DEF Questions
    <3> QED
      BY <2>6, <3>1, <3>3, <3>4
  <2>8. Fake!Proceed(Tail(script), aborted, known)
    BY <2>1, <2>3 DEF known
  <2> HIDE DEF q
  <2>9. /\ FakeInv' /\ Promise!Ends
        /\ \A p \in Questions :
                verdict'[p] = known[p] \/ (known[p] = "unasked" /\ verdict'[p] = "asked")
    <3>1. /\ aborted \in BOOLEAN /\ aborted' = aborted /\ cancelled' = aborted
          /\ started' /\ work' /\ started' \in BOOLEAN /\ work' \in BOOLEAN /\ start' = "returned"
      BY <2>2, <2>3 DEF PromiseTypes
    <3> DEFINE steps == Tail(script)
    <3>2. /\ FakeScript(steps) /\ Fake!Proceed(steps, aborted, known)
          /\ \A i \in 1..Len(steps) : steps[i] \in Requests =>
                /\ known[<<steps[i], "command">>] = "unasked"
                /\ told'[<<steps[i], "command">>] = "nothing"
      BY <2>4, <2>7, <2>8
    <3> HIDE DEF steps, FakeInv
    <3> QED
      BY <2>3, <2>6, <3>1, <3>2, FakeProceeds
  <2>10. Promise!Decides /\ Promise!Tells
    BY <2>3, <2>5, <2>6, <2>9 DEF Promise!Decides, Promise!Tells, Promise!Yes
  <2> QED
    BY <2>2, <2>3, <2>9, <2>10 DEF Promise!Next, Promise!Starts, Promise!Works
<1>4. CASE Fake!Cancel
  <2>1. /\ start = "returned" /\ outcome = None /\ aborted' = TRUE /\ cancelled' = TRUE
        /\ UNCHANGED <<start, started, work, told>>
    BY <1>4 DEF Fake!Cancel
  <2>2. waits # "no" /\ started /\ work /\ report = "none" /\ script # <<>>
    BY <2>1 DEF FakeEnds
  <2>3. CASE waits = "sleep"
    <3>1. Fake!Proceed(Tail(script), TRUE, verdict)
      BY <1>4, <2>3 DEF Fake!Cancel
    <3> QED
      BY <2>1, <2>3, <3>1, FakeGoesOn
  <2>4. CASE waits = "hang"
    <3>1. outcome' = "cancelled" /\ waits' = "no" /\ UNCHANGED <<script, report, verdict>>
      BY <1>4, <2>4 DEF Fake!Cancel
    <3>2. FakeInv'
      BY <2>1, <2>2, <2>4, <3>1, ProvidersAssumption DEF FakeQuestions, FakeEnds, PromiseTypes
    <3> QED
      BY <2>1, <3>1, <3>2, EndVouched, NoQuestion DEF Promise!Next, Promise!Starts, Promise!Works
  <2>5. CASE waits = "verdict"
    <3>1. UNCHANGED <<script, outcome, report, waits, verdict>>
      BY <1>4, <2>5 DEF Fake!Cancel
    <3>2. FakeInv'
      BY <2>1, <2>2, <3>1 DEF FakeQuestions, FakeEnds, PromiseTypes
    <3> QED
      BY <2>1, <3>1, <3>2, EndVouched, NoQuestion DEF Promise!Next, Promise!Starts, Promise!Works
  <2> QED
    BY <2>2, <2>3, <2>4, <2>5 DEF FakeEnds
<1> QED
  BY <1>1, <1>2, <1>3, <1>4 DEF Fake!Next

-----------------------------------------------------------------------------
(* Codex.                                                                  *)

CodexMessages ==
    [kind : {"answer"}, call : Codex!Calls, as : {"ok", "error", "bad"}]
    \cup [kind : {"request"}, from : Requests, demand : Demands \cup {None}]
    \cup [kind : {"withdrawal"}, from : Requests]
    \cup [kind : {"completed"}, as : {"completed", "interrupted", "failed"}]

\* What the child wrote and the daemon has not read: a completion is the one reported, and
\* a request is asked once.
CodexWire ==
    /\ wire \in Seq(CodexMessages)
    /\ \A i \in 1..Len(wire) :
        /\ wire[i].kind = "completed" => wire[i].as = report
        /\ wire[i].kind = "request" => request[wire[i].from].phase = "idle"
    /\ \A i, j \in 1..Len(wire) :
        wire[i].kind = "request" /\ wire[j].kind = "request" /\ wire[i].from = wire[j].from => i = j

Early == {"runtime", "initialize", "account", "thread", "inventory"}

\* What start() awaits, and what the child may have by then: before the last call of
\* begin() nothing has happened that could end the run, and the turn is worked on once.
CodexCalls ==
    /\ step \in Early \cup {"turn", "done"}
    /\ start = "pending" <=> step # "done"
    /\ scout \in {"greeting", "listing"} => step = "runtime" /\ ~cached
    /\ step = "runtime" => pending = {} /\ link = "none"
    /\ step \notin {"runtime", "done"} => pending = {step}
    /\ step = "done" => pending \subseteq Codex!Interrupts
    /\ pending \cap Codex!Interrupts # {} => aborted
    /\ step \in Early => /\ outcome = None /\ ~started /\ ~work /\ report = "none"
                         /\ ~turn /\ "turn" \notin owed
    /\ work => started
    /\ started => work \/ aborted
    /\ turn \in BOOLEAN
    /\ turn => report = "none" /\ "turn" \notin owed
    /\ "turn" \in owed => report = "none"
    /\ owed \subseteq Codex!Calls

RequestTypes ==
    [phase : {"idle", "deciding", "over"}, demand : Demands \cup {None}, todo : Seq(Parts),
     withdrawn : BOOLEAN, granted : SUBSET Parts, session : BOOLEAN]

\* How much of a request is put to the gateway.
Put(d) == IF d = None THEN 1 ELSE Len(Codex!Sought(d))

\* What is known of request r.  A part still to be judged has no verdict and the child no
\* answer; what is granted was allowed; a request the end found open is withdrawn, so that
\* a later one gets nothing granted; one that is withdrawn and still judged has lost a part.
RequestSound(r) ==
    LET q == request[r] IN
    /\ q.phase = "idle" => q = Codex!Idle /\ \A p \in Parts : verdict[<<r, p>>] = "unasked"
    /\ q.phase # "over" => scope[r] = None /\ \A p \in Parts : told[<<r, p>>] = "nothing"
    /\ q.phase = "deciding" <=> q.todo # <<>>
    /\ \A i \in 1..Len(q.todo) : verdict[<<r, q.todo[i]>>] \in {"unasked", "asked"}
    /\ \A i, j \in 1..Len(q.todo) : q.todo[i] = q.todo[j] => i = j
    /\ \A p \in q.granted : /\ verdict[<<r, p>>] \in {"once", "session"}
                            /\ q.session => verdict[<<r, p>>] = "session"
    /\ outcome # None /\ q.phase = "deciding" => q.withdrawn \/ q.granted = {}
    /\ scope[r] = "session" => q.session
    /\ q.demand # None /\ (q.granted # {} \/ q.todo # <<>>) => ~Codex!Refused(q.demand)
    /\ q.phase = "deciding" => Len(q.todo) <= Put(q.demand)
    /\ q.phase = "deciding" /\ q.withdrawn => Len(q.todo) < Put(q.demand)

CodexRequests ==
    /\ request \in [Requests -> RequestTypes]
    /\ scope \in [Requests -> {None, "once", "session"}]
    /\ \A r \in Requests : RequestSound(r)

CodexInv == PromiseTypes /\ CodexWire /\ CodexCalls /\ CodexRequests

\* What a step may make of request r: it becomes `n`, with the verdicts `known`.
RequestChange(r, n, known) ==
    LET q == request[r] IN
    /\ n \in RequestTypes
    /\ n.phase = "idle" =>
        n = Codex!Idle /\ \A p \in Parts : known[<<r, p>>] = "unasked"
    /\ q.phase = "over" => n = q
    /\ n.phase = "deciding" <=> n.todo # <<>>
    /\ \A i \in 1..Len(n.todo) : known[<<r, n.todo[i]>>] \in {"unasked", "asked"}
    /\ \A i, j \in 1..Len(n.todo) : n.todo[i] = n.todo[j] => i = j
    /\ \A p \in n.granted : /\ known[<<r, p>>] \in {"once", "session"}
                            /\ n.session => known[<<r, p>>] = "session"
    /\ outcome' # None /\ n.phase = "deciding" => n.withdrawn \/ n.granted = {}
    /\ n.demand # None /\ (n.granted # {} \/ n.todo # <<>>) => ~Codex!Refused(n.demand)
    /\ n.phase = "deciding" => Len(n.todo) <= Put(n.demand)
    /\ n.phase = "deciding" /\ n.withdrawn => Len(n.todo) < Put(n.demand)
    /\ \A p \in Parts :
        \/ known[<<r, p>>] = verdict[<<r, p>>]
        \/ /\ verdict[<<r, p>>] \in {"unasked", "asked"}
           /\ known[<<r, p>>] \in {"no", "once", "session"}
    /\ q.withdrawn => n.withdrawn
    /\ q.phase # "over" /\ n.phase = "over" /\ ~n.withdrawn => n.granted = {} \/ outcome = None

LEMMA Asked ==
    ASSUME NEW r \in Requests
    PROVE  \A p \in Parts : <<r, p>> \in Questions /\ <<r, p>>[1] = r /\ <<r, p>>[2] = p
BY DEF Questions, Parts

LEMMA RequestStays ==
    ASSUME CodexInv, NEW r \in Requests, NEW known,
           \A p \in Parts : known[<<r, p>>] = verdict[<<r, p>>],
           outcome' = outcome \/ (request[r].phase = "deciding" => request[r].withdrawn)
    PROVE  RequestChange(r, request[r], known)
<1>1. RequestSound(r) /\ request[r] \in RequestTypes
  BY DEF CodexInv, CodexRequests
<1>2. \A i \in 1..Len(request[r].todo) : request[r].todo[i] \in Parts
  BY <1>1 DEF RequestTypes
<1>3. \A p \in request[r].granted : p \in Parts
  BY <1>1 DEF RequestTypes
<1> QED
  BY <1>1, <1>2, <1>3 DEF RequestSound, RequestChange

\* What is sought of a demand are parts, each once.
LEMMA SoughtParts ==
    ASSUME NEW d
    PROVE  /\ Codex!Sought(d) \in Seq(Parts)
           /\ \A i, j \in 1..Len(Codex!Sought(d)) : Codex!Sought(d)[i] = Codex!Sought(d)[j] => i = j
<1> DEFINE reads == \E e \in d.entries : e.access = "read"
           writes == \E e \in d.entries : e.access = "write"
           nets == d.network = "on"
           R == IF reads THEN <<"read">> ELSE <<>>
           W == IF writes THEN <<"write">> ELSE <<>>
           N == IF nets THEN <<"net">> ELSE <<>>
<1>1. Codex!Sought(d) = R \o W \o N
  BY DEF Codex!Sought
<1> HIDE DEF reads, writes, nets
<1>2. R \in Seq({"read"}) /\ W \in Seq({"write"}) /\ N \in Seq({"net"})
      /\ Len(R) \in {0, 1} /\ Len(W) \in {0, 1} /\ Len(N) \in {0, 1}
  <2>1. ASSUME NEW e, NEW s, s = <<e>> \/ s = <<>>
        PROVE  s \in Seq({e}) /\ Len(s) \in {0, 1}
    <3>1. <<e>> \in Seq({e}) /\ Len(<<e>>) = 1
      OBVIOUS
    <3>2. <<>> \in Seq({e}) /\ Len(<<>>) = 0
      OBVIOUS
    <3> QED
      BY <2>1, <3>1, <3>2
  <2>2. /\ R = <<"read">> \/ R = <<>>
        /\ W = <<"write">> \/ W = <<>>
        /\ N = <<"net">> \/ N = <<>>
    OBVIOUS
  <2> HIDE DEF R, W, N
  <2> QED
    BY <2>1, <2>2
<1> HIDE DEF R, W, N
<1>3. R \o W \o N \in Seq(Parts)
  BY <1>2 DEF Parts
<1>4. \A i, j \in 1..Len(R \o W \o N) : (R \o W \o N)[i] = (R \o W \o N)[j] => i = j
  BY <1>2, SMTT(40)
<1> QED
  BY <1>1, <1>3, <1>4

LEMMA OpenedFields ==
    ASSUME NEW d \in Demands \cup {None}
    PROVE  LET n == Codex!Opened(d) IN
           /\ n \in RequestTypes
           /\ n.phase # "idle" /\ (n.phase = "deciding" <=> n.todo # <<>>)
           /\ n.demand = d /\ n.granted = {} /\ ~n.withdrawn
           /\ \A i, j \in 1..Len(n.todo) : n.todo[i] = n.todo[j] => i = j
           /\ d # None /\ n.todo # <<>> => ~Codex!Refused(d)
           /\ n.todo # <<>> => Len(n.todo) <= Put(d)
<1> DEFINE todo == IF d = None THEN <<"command">>
                   ELSE IF Codex!Refused(d) THEN <<>> ELSE Codex!Sought(d)
<1>1. /\ todo \in Seq(Parts)
      /\ \A i, j \in 1..Len(todo) : todo[i] = todo[j] => i = j
  <2>1. todo = <<"command">> \/ todo = <<>> \/ todo = Codex!Sought(d)
    OBVIOUS
  <2> HIDE DEF todo
  <2>2. <<"command">> \in Seq(Parts) /\ Len(<<"command">>) = 1
    BY DEF Parts
  <2>3. <<>> \in Seq(Parts) /\ Len(<<>>) = 0
    OBVIOUS
  <2>4. CASE todo = <<"command">> \/ todo = <<>>
    <3>1. todo \in Seq(Parts) /\ Len(todo) \in {0, 1}
      BY <2>2, <2>3, <2>4
    <3> QED
      BY <3>1
  <2>5. CASE todo = Codex!Sought(d)
    BY <2>5, SoughtParts
  <2> QED
    BY <2>1, <2>4, <2>5
<1>2. d # None /\ todo # <<>> => ~Codex!Refused(d)
  OBVIOUS
<1>5. todo # <<>> => Len(todo) <= Put(d)
  <2>1. todo # <<>> => Len(todo) = Put(d)
    BY DEF Put
  <2>2. Len(todo) \in Nat
    <3> HIDE DEF todo
    <3> QED
      BY <1>1
  <2> HIDE DEF todo
  <2> QED
    BY <2>1, <2>2
<1>3. Codex!Opened(d) = [Codex!Idle EXCEPT !.demand = d, !.todo = todo,
                                          !.phase = IF todo = <<>> THEN "over" ELSE "deciding"]
  BY DEF Codex!Opened
<1> HIDE DEF todo
<1>4. Codex!Opened(d) =
        [phase |-> IF todo = <<>> THEN "over" ELSE "deciding", demand |-> d, todo |-> todo,
         withdrawn |-> FALSE, granted |-> {}, session |-> TRUE]
  BY <1>3 DEF Codex!Idle
<1> HIDE DEF Put
<1> QED
  BY <1>1, <1>2, <1>4, <1>5 DEF RequestTypes

LEMMA RequestOpens ==
    ASSUME CodexInv, NEW r \in Requests, NEW known, NEW d \in Demands \cup {None},
           \A p \in Parts : known[<<r, p>>] = verdict[<<r, p>>],
           request[r].phase = "idle"
    PROVE  RequestChange(r, Codex!Opened(d), known)
<1>1. RequestSound(r)
  BY DEF CodexInv, CodexRequests
<1> DEFINE n == Codex!Opened(d)
<1>2. /\ n \in RequestTypes
      /\ n.phase # "idle" /\ (n.phase = "deciding" <=> n.todo # <<>>)
      /\ n.demand = d /\ n.granted = {} /\ ~n.withdrawn
      /\ \A i, j \in 1..Len(n.todo) : n.todo[i] = n.todo[j] => i = j
      /\ d # None /\ n.todo # <<>> => ~Codex!Refused(d)
      /\ n.todo # <<>> => Len(n.todo) <= Put(d)
  BY OpenedFields
<1> HIDE DEF n
<1>3. \A i \in 1..Len(n.todo) : n.todo[i] \in Parts
  BY <1>2 DEF RequestTypes
<1>4. ~request[r].withdrawn /\ \A p \in Parts : known[<<r, p>>] = "unasked"
  BY <1>1 DEF RequestSound, Codex!Idle
<1>5. RequestChange(r, n, known)
  BY <1>2, <1>3, <1>4 DEF RequestChange
<1> QED
  BY <1>5 DEF n

LEMMA JudgedFields ==
    ASSUME NEW q \in RequestTypes, q.todo # <<>>, NEW v
    PROVE  LET n == Codex!Judged(q, v) IN
           /\ n \in RequestTypes
           /\ n.demand = q.demand /\ n.withdrawn = q.withdrawn
           /\ n.granted = IF v \in {"once", "session"} THEN q.granted \cup {Head(q.todo)} ELSE q.granted
           /\ n.session <=> q.session /\ v # "once"
           /\ n.todo = Tail(q.todo)
           /\ n.phase = IF Tail(q.todo) = <<>> THEN "over" ELSE q.phase
<1>1. /\ q.todo \in Seq(Parts) /\ Head(q.todo) \in Parts /\ Tail(q.todo) \in Seq(Parts)
      /\ Len(q.todo) = 1 <=> Tail(q.todo) = <<>>
  <2>1. q.todo \in Seq(Parts)
    BY DEF RequestTypes
  <2>2. ASSUME NEW s \in Seq(Parts), s # <<>>
        PROVE  Len(s) = 1 <=> Tail(s) = <<>>
    <3>1. Len(Tail(s)) = Len(s) - 1 /\ Tail(s) \in Seq(Parts) /\ Len(s) \in Nat
      BY <2>2
    <3> QED
      BY <3>1
  <2> QED
    BY <2>1, <2>2, Taken
<1>2. Codex!Judged(q, v) =
        [q EXCEPT !.granted = IF v \in {"once", "session"} THEN @ \cup {Head(q.todo)} ELSE @,
                  !.session = @ /\ v # "once",
                  !.todo = Tail(@),
                  !.phase = IF Len(q.todo) = 1 THEN "over" ELSE @]
  BY DEF Codex!Judged, Codex!Yes
<1>3. Codex!Judged(q, v) =
        [phase |-> IF Tail(q.todo) = <<>> THEN "over" ELSE q.phase, demand |-> q.demand,
         todo |-> Tail(q.todo), withdrawn |-> q.withdrawn,
         granted |-> IF v \in {"once", "session"} THEN q.granted \cup {Head(q.todo)} ELSE q.granted,
         session |-> q.session /\ v # "once"]
  BY <1>1, <1>2 DEF RequestTypes
<1>4. /\ q.phase \in {"idle", "deciding", "over"} /\ q.demand \in Demands \cup {None}
      /\ q.withdrawn \in BOOLEAN /\ q.granted \in SUBSET Parts /\ q.session \in BOOLEAN
  BY DEF RequestTypes
<1> HIDE DEF RequestTypes
<1>5. Codex!Judged(q, v) \in RequestTypes
  BY <1>1, <1>3, <1>4 DEF RequestTypes
<1> DEFINE n == Codex!Judged(q, v)
<1>6. n.session <=> q.session /\ v # "once"
  <2>1. n.session = (q.session /\ v # "once")
    BY <1>3
  <2> QED
    BY <2>1
<1>7. /\ n.demand = q.demand /\ n.withdrawn = q.withdrawn
      /\ n.granted = IF v \in {"once", "session"} THEN q.granted \cup {Head(q.todo)} ELSE q.granted
      /\ n.todo = Tail(q.todo)
      /\ n.phase = IF Tail(q.todo) = <<>> THEN "over" ELSE q.phase
  BY <1>3
<1> HIDE DEF n
<1> QED
  BY <1>5, <1>6, <1>7 DEF n

\* The part at hand is judged: `v` is the verdict, or there is none and it counts as a no.
LEMMA RequestJudged ==
    ASSUME CodexInv, NEW r \in Requests, NEW known, NEW v \in {"no", "once", "session"},
           NEW n, request[r].phase = "deciding",
           \/ n = Codex!Judged(request[r], v)
           \/ v = "no" /\ n = [Codex!Judged(request[r], v) EXCEPT !.withdrawn = TRUE],
           \A p \in Parts :
                \/ known[<<r, p>>] = verdict[<<r, p>>] /\ (v # "no" => p # Head(request[r].todo))
                \/ known[<<r, p>>] = v /\ p = Head(request[r].todo),
           v # "no" => outcome = None,
           \/ outcome' = outcome
           \/ n = [Codex!Judged(request[r], v) EXCEPT !.withdrawn = TRUE]
           \/ request[r].withdrawn
    PROVE  RequestChange(r, n, known)
<1> DEFINE q == request[r]
<1>1. RequestSound(r) /\ q \in RequestTypes
  BY DEF CodexInv, CodexRequests
<1>2. q.todo # <<>> /\ q.phase = "deciding"
  BY <1>1 DEF RequestSound
<1>3. /\ n \in RequestTypes
      /\ n.demand = q.demand /\ (q.withdrawn => n.withdrawn)
      /\ n.granted = IF v \in {"once", "session"} THEN q.granted \cup {Head(q.todo)} ELSE q.granted
      /\ n.session <=> q.session /\ v # "once"
      /\ n.todo = Tail(q.todo)
      /\ n.phase = IF Tail(q.todo) = <<>> THEN "over" ELSE q.phase
      /\ outcome' = outcome \/ n.withdrawn
  <2> DEFINE j == Codex!Judged(q, v)
  <2>1. /\ j \in RequestTypes
        /\ j.demand = q.demand /\ j.withdrawn = q.withdrawn
        /\ j.granted = IF v \in {"once", "session"} THEN q.granted \cup {Head(q.todo)} ELSE q.granted
        /\ j.session <=> q.session /\ v # "once"
        /\ j.todo = Tail(q.todo)
        /\ j.phase = IF Tail(q.todo) = <<>> THEN "over" ELSE q.phase
    BY <1>1, <1>2, JudgedFields
  <2>2. /\ n = j \/ n = [j EXCEPT !.withdrawn = TRUE]
        /\ outcome' = outcome \/ n = [j EXCEPT !.withdrawn = TRUE] \/ q.withdrawn
    OBVIOUS
  <2> HIDE DEF j, q
  <2>3. CASE n = j
    BY <2>1, <2>2, <2>3 DEF RequestTypes
  <2>4. CASE n = [j EXCEPT !.withdrawn = TRUE]
    <3>1. /\ n \in RequestTypes /\ n.withdrawn
          /\ n.demand = j.demand /\ n.granted = j.granted /\ n.session = j.session
          /\ n.todo = j.todo /\ n.phase = j.phase
      BY <2>1, <2>4 DEF RequestTypes
    <3> QED
      BY <2>1, <3>1
  <2> QED
    BY <2>2, <2>3, <2>4
<1> HIDE DEF q
<1>4. /\ Head(q.todo) = q.todo[1] /\ 1 \in 1..Len(q.todo) /\ Head(q.todo) \in Parts
      /\ \A i \in 1..Len(n.todo) : i + 1 \in 1..Len(q.todo) /\ n.todo[i] = q.todo[i + 1] /\ i + 1 # 1
      /\ \A i \in 1..Len(n.todo) : n.todo[i] \in Parts
  BY <1>1, <1>2, <1>3, Taken DEF RequestTypes
<1>5. /\ \A i \in 1..Len(q.todo) : verdict[<<r, q.todo[i]>>] \in {"unasked", "asked"}
      /\ \A i, j \in 1..Len(q.todo) : q.todo[i] = q.todo[j] => i = j
      /\ \A p \in q.granted : /\ verdict[<<r, p>>] \in {"once", "session"} /\ p \in Parts
                              /\ q.session => verdict[<<r, p>>] = "session"
      /\ outcome # None => q.withdrawn \/ q.granted = {}
      /\ q.demand # None => ~Codex!Refused(q.demand)
  BY <1>1, <1>2 DEF RequestSound, RequestTypes, q
<1>h. /\ verdict[<<r, Head(q.todo)>>] \in {"unasked", "asked"}
      /\ \A p \in Parts \ {Head(q.todo)} : known[<<r, p>>] = verdict[<<r, p>>]
      /\ v # "no" => known[<<r, Head(q.todo)>>] = v
      /\ known[<<r, Head(q.todo)>>] \in {v, verdict[<<r, Head(q.todo)>>]}
  BY <1>4, <1>5 DEF q
<1>6. \A i \in 1..Len(n.todo) : known[<<r, n.todo[i]>>] \in {"unasked", "asked"}
  <2> SUFFICES ASSUME NEW i \in 1..Len(n.todo)
               PROVE  known[<<r, n.todo[i]>>] \in {"unasked", "asked"}
    OBVIOUS
  <2>1. /\ i + 1 \in 1..Len(q.todo) /\ n.todo[i] = q.todo[i + 1] /\ i + 1 # 1
        /\ n.todo[i] \in Parts /\ Head(q.todo) = q.todo[1] /\ 1 \in 1..Len(q.todo)
    BY <1>4
  <2>2. n.todo[i] # Head(q.todo)
    BY <2>1, <1>5
  <2>3. known[<<r, n.todo[i]>>] = verdict[<<r, n.todo[i]>>]
    BY <2>1, <2>2, <1>h
  <2>4. verdict[<<r, n.todo[i]>>] \in {"unasked", "asked"}
    BY <2>1, <1>5
  <2> QED
    BY <2>3, <2>4
<1>7. \A i, j \in 1..Len(n.todo) : n.todo[i] = n.todo[j] => i = j
  BY <1>4, <1>5
<1>8. \A p \in n.granted : /\ known[<<r, p>>] \in {"once", "session"}
                           /\ n.session => known[<<r, p>>] = "session"
  <2>1. ASSUME NEW p \in q.granted
        PROVE  /\ known[<<r, p>>] \in {"once", "session"}
               /\ q.session => known[<<r, p>>] = "session"
    <3>1. p # Head(q.todo) /\ p \in Parts
      BY <1>5, <1>h
    <3> QED
      BY <1>5, <1>h, <3>1
  <2>2. v \in {"once", "session"} => known[<<r, Head(q.todo)>>] = v
    BY <1>h
  <2> QED
    BY <1>3, <2>1, <2>2
<1>9. outcome' # None => n.withdrawn \/ n.granted = {}
  BY <1>3, <1>5
<1>10. \A p \in Parts :
        \/ known[<<r, p>>] = verdict[<<r, p>>]
        \/ /\ verdict[<<r, p>>] \in {"unasked", "asked"}
           /\ known[<<r, p>>] \in {"no", "once", "session"}
  BY <1>h
<1>11. ~n.withdrawn => n.granted = {} \/ outcome = None
  BY <1>3, <1>5
<1>12. Len(n.todo) < Put(n.demand)
  <2>1. Len(q.todo) <= Put(q.demand) /\ Put(q.demand) \in Nat
    BY <1>1, <1>2, SoughtParts DEF RequestSound, Put, q
  <2>2. Len(n.todo) = Len(q.todo) - 1 /\ Len(q.todo) \in Nat
    <3>1. q.todo \in Seq(Parts)
      BY <1>1 DEF RequestTypes
    <3> QED
      BY <1>2, <1>3, <3>1
  <2> HIDE DEF Put
  <2>3. Len(n.todo) < Put(q.demand)
    BY <2>1, <2>2
  <2> QED
    BY <1>3, <2>3
<1> HIDE DEF Put
<1>13. Len(n.todo) <= Put(n.demand)
  <2>1. Len(n.todo) \in Nat /\ Put(n.demand) \in Nat
    BY <1>3, SoughtParts DEF RequestTypes, Put
  <2> QED
    BY <1>12, <2>1
<1> QED
  BY <1>2, <1>3, <1>5, <1>6, <1>7, <1>8, <1>9, <1>10, <1>11, <1>12, <1>13 DEF RequestChange, q

\* What Decide() does to one question and one request.
LEMMA DecidedFields ==
    ASSUME NEW new, NEW known, Codex!Decide(new, known)
    PROVE  /\ request' = new
           /\ DOMAIN verdict' = Questions /\ verdict' = [q \in Questions |-> verdict'[q]]
           /\ told' = [q \in Questions |-> told'[q]]
           /\ scope' = [r \in Requests |-> scope'[r]]
           /\ \A r \in Requests : \A p \in Parts :
                /\ verdict'[<<r, p>>] =
                    IF known[<<r, p>>] = "unasked" /\ new[r].todo # <<>> /\ Head(new[r].todo) = p
                    THEN "asked" ELSE known[<<r, p>>]
                /\ told'[<<r, p>>] =
                    IF Codex!Answered(request[r], new[r]) /\ known[<<r, p>>] # "unasked"
                    THEN IF p \in new[r].granted THEN "yes" ELSE "no"
                    ELSE told[<<r, p>>]
           /\ \A r \in Requests :
                scope'[r] = IF Codex!Answered(request[r], new[r]) THEN Codex!ScopeOf(new[r]) ELSE scope[r]
<1>1. Codex!Questions = Questions
  BY DEF Codex!Questions, Codex!Parts, Questions
<1>2. /\ request' = new
      /\ verdict' = [q \in Questions |->
            IF known[q] = "unasked" /\ new[q[1]].todo # <<>> /\ Head(new[q[1]].todo) = q[2]
            THEN "asked" ELSE known[q]]
      /\ told' = [q \in Questions |->
            IF Codex!Answered(request[q[1]], new[q[1]]) /\ known[q] # "unasked"
            THEN IF q[2] \in new[q[1]].granted THEN "yes" ELSE "no"
            ELSE told[q]]
      /\ scope' = [r \in Requests |->
            IF Codex!Answered(request[r], new[r]) THEN Codex!ScopeOf(new[r]) ELSE scope[r]]
  BY <1>1 DEF Codex!Decide
<1> QED
  BY <1>2, Asked

LEMMA RequestDecided ==
    ASSUME CodexInv, NEW new, NEW known \in [Questions -> Verdicts], Codex!Decide(new, known),
           new = [r \in Requests |-> new[r]],
           \A r \in Requests : RequestChange(r, new[r], known)
    PROVE  /\ CodexRequests'
           /\ verdict' \in [Questions -> Verdicts] /\ told' \in [Questions -> {"nothing", "yes", "no"}]
           /\ Promise!Decides /\ Promise!Tells
           /\ \A r \in Requests : request[r].withdrawn =>
                \A q \in Questions : q[1] = r => told'[q] = told[q]
<1> DEFINE V(r, p) == IF known[<<r, p>>] = "unasked" /\ new[r].todo # <<>> /\ Head(new[r].todo) = p
                      THEN "asked" ELSE known[<<r, p>>]
           A(r) == /\ link = "open"
                   /\ request[r].phase # "over" /\ new[r].phase = "over" /\ ~new[r].withdrawn
           T(r, p) == IF A(r) /\ known[<<r, p>>] # "unasked"
                      THEN IF p \in new[r].granted THEN "yes" ELSE "no"
                      ELSE told[<<r, p>>]
<1>1. /\ request' = new
      /\ verdict' = [q \in Questions |-> verdict'[q]]
      /\ told' = [q \in Questions |-> told'[q]]
      /\ scope' = [r \in Requests |-> scope'[r]]
      /\ \A r \in Requests : \A p \in Parts : verdict'[<<r, p>>] = V(r, p) /\ told'[<<r, p>>] = T(r, p)
      /\ \A r \in Requests : scope'[r] = IF A(r) THEN Codex!ScopeOf(new[r]) ELSE scope[r]
  BY DecidedFields DEF Codex!Answered
<1>2. \A q \in Questions : \E r \in Requests : \E p \in Parts : q = <<r, p>>
  BY DEF Questions, Parts
<1>3. ASSUME NEW r \in Requests
      PROVE  RequestSound(r) /\ request[r] \in RequestTypes /\ RequestChange(r, new[r], known)
             /\ new[r] \in RequestTypes /\ scope[r] \in {None, "once", "session"}
  BY <1>3 DEF CodexInv, CodexRequests, RequestChange
<1>4. ASSUME NEW r \in Requests, NEW p \in Parts
      PROVE  /\ known[<<r, p>>] \in Verdicts /\ verdict[<<r, p>>] \in Verdicts
             /\ told[<<r, p>>] \in {"nothing", "yes", "no"}
  BY <1>4, Asked DEF CodexInv, PromiseTypes
<1>5. verdict' \in [Questions -> Verdicts] /\ told' \in [Questions -> {"nothing", "yes", "no"}]
  <2>1. \A r \in Requests : \A p \in Parts :
            V(r, p) \in Verdicts /\ T(r, p) \in {"nothing", "yes", "no"}
    BY <1>4 DEF Verdicts
  <2>2. \A q \in Questions : verdict'[q] \in Verdicts /\ told'[q] \in {"nothing", "yes", "no"}
    BY <1>1, <1>2, <2>1
  <2> QED
    BY <1>1, <2>2
<1>6. Promise!Decides
  <2>1. ASSUME NEW r \in Requests, NEW p \in Parts
        PROVE  \/ V(r, p) = verdict[<<r, p>>]
               \/ verdict[<<r, p>>] \in {"unasked", "asked"}
                  /\ V(r, p) \in {"asked", "no", "once", "session"}
    BY <1>3, <1>4 DEF RequestChange, Verdicts
  <2> QED
    BY <1>1, <1>2, <2>1 DEF Promise!Decides, Promise!Yes
<1>7. Promise!Tells
  <2>1. ASSUME NEW r \in Requests, NEW p \in Parts
        PROVE  \/ T(r, p) = told[<<r, p>>]
               \/ told[<<r, p>>] = "nothing" /\ T(r, p) = "no"
               \/ /\ told[<<r, p>>] = "nothing" /\ T(r, p) = "yes"
                  /\ V(r, p) \in {"once", "session"} /\ outcome = None
    <3>1. CASE A(r)
      <4>1. told[<<r, p>>] = "nothing"
        BY <1>3, <3>1 DEF RequestSound
      <4>2. p \in new[r].granted => V(r, p) \in {"once", "session"} /\ outcome = None
        BY <1>3, <3>1 DEF RequestChange
      <4> QED
        BY <4>1, <4>2
    <3>2. CASE ~A(r)
      BY <3>2
    <3> QED
      BY <3>1, <3>2
  <2> QED
    BY <1>1, <1>2, <2>1 DEF Promise!Tells, Promise!Yes
<1>8. \A r \in Requests : request[r].withdrawn =>
        \A q \in Questions : q[1] = r => told'[q] = told[q]
  <2>1. ASSUME NEW r \in Requests, request[r].withdrawn, NEW p \in Parts
        PROVE  T(r, p) = told[<<r, p>>]
    BY <1>3, <2>1 DEF RequestChange
  <2>2. ASSUME NEW r \in Requests, request[r].withdrawn, NEW q \in Questions, q[1] = r
        PROVE  told'[q] = told[q]
    <3>1. PICK p \in Parts : q = <<r, p>>
      BY <1>2, <2>2
    <3> QED
      BY <1>1, <2>1, <2>2, <3>1
  <2> QED
    BY <2>2
<1>9. CodexRequests'
  <2>1. request' \in [Requests -> RequestTypes]
    BY <1>1, <1>3
  <2>2. \A r \in Requests : Codex!ScopeOf(new[r]) \in {"once", "session"}
    BY DEF Codex!ScopeOf
  <2>3. scope' \in [Requests -> {None, "once", "session"}]
    BY <1>1, <1>3, <2>2
  <2>4. ASSUME NEW r \in Requests
        PROVE  RequestSound(r)'
    <3> DEFINE n == new[r]
    <3>1. request'[r] = n
      BY <1>1
    <3>2. \A p \in Parts : verdict'[<<r, p>>] = V(r, p) /\ told'[<<r, p>>] = T(r, p)
      BY <1>1
    <3>3. n.phase = "idle" => n = Codex!Idle /\ \A p \in Parts : verdict'[<<r, p>>] = "unasked"
      BY <1>3, <3>2 DEF RequestChange, Codex!Idle
    <3>4. n.phase # "over" => scope'[r] = None /\ \A p \in Parts : told'[<<r, p>>] = "nothing"
      BY <1>1, <1>3, <3>2 DEF RequestChange, RequestSound
    <3>5. n.phase = "deciding" <=> n.todo # <<>>
      BY <1>3 DEF RequestChange
    <3>6. \A i \in 1..Len(n.todo) : n.todo[i] \in Parts
      BY <1>3 DEF RequestTypes
    <3>7. \A i \in 1..Len(n.todo) : verdict'[<<r, n.todo[i]>>] \in {"unasked", "asked"}
      BY <1>3, <3>2, <3>6 DEF RequestChange
    <3>8. \A i, j \in 1..Len(n.todo) : n.todo[i] = n.todo[j] => i = j
      BY <1>3 DEF RequestChange
    <3>9. \A p \in n.granted : /\ verdict'[<<r, p>>] \in {"once", "session"}
                               /\ n.session => verdict'[<<r, p>>] = "session"
      <4>1. \A p \in n.granted : p \in Parts
        BY <1>3 DEF RequestTypes
      <4> QED
        BY <1>3, <3>2, <4>1 DEF RequestChange
    <3>10. outcome' # None /\ n.phase = "deciding" => n.withdrawn \/ n.granted = {}
      BY <1>3 DEF RequestChange
    <3>11. scope'[r] = "session" => n.session
      <4>1. A(r) => (scope'[r] = "session" => n.session)
        BY <1>1 DEF Codex!ScopeOf
      <4>2. request[r].phase = "over" => (scope[r] = "session" => n.session)
        BY <1>3 DEF RequestChange, RequestSound
      <4>3. request[r].phase # "over" => scope[r] # "session"
        BY <1>3, ProvidersAssumption DEF RequestSound
      <4> QED
        BY <1>1, <4>1, <4>2, <4>3
    <3>12. n.demand # None /\ (n.granted # {} \/ n.todo # <<>>) => ~Codex!Refused(n.demand)
      BY <1>3 DEF RequestChange
    <3>13. /\ n.phase = "deciding" => Len(n.todo) <= Put(n.demand)
           /\ n.phase = "deciding" /\ n.withdrawn => Len(n.todo) < Put(n.demand)
      BY <1>3 DEF RequestChange
    <3> HIDE DEF n
    <3> QED
      BY <3>1, <3>3, <3>4, <3>5, <3>7, <3>8, <3>9, <3>10, <3>11, <3>12, <3>13 DEF RequestSound, Codex!Idle, Codex!Refused
  <2> QED
    BY <2>1, <2>3, <2>4 DEF CodexRequests
<1> QED
  BY <1>5, <1>6, <1>7, <1>8, <1>9

\* A request that is withdrawn gets no answer: true of every step but a decide() that fails.
Unanswered ==
    \A r \in Requests : request[r].withdrawn =>
        \A q \in Questions : q[1] = r => told'[q] = told[q]

\* WithdrawnUngranted, as a formula about one step.
Ungranted ==
    \A r \in Requests : request[r].withdrawn =>
        \A q \in Questions : q[1] = r /\ told'[q] # told[q] =>
            /\ told'[q] = "no"
            /\ request[r].demand # None /\ Len(Codex!Sought(request[r].demand)) > 1

\* What a step does with questions and requests is sound.
CodexAnswers ==
    /\ CodexRequests'
    /\ verdict' \in [Questions -> Verdicts] /\ told' \in [Questions -> {"nothing", "yes", "no"}]
    /\ Promise!Decides /\ Promise!Tells
    /\ Unanswered

StaysIdle == \A r \in Requests : request[r].phase = "idle" => request'[r].phase = "idle"

LEMMA CodexQuiet ==
    ASSUME CodexInv, Codex!NoDecision, outcome' = outcome
    PROVE  CodexAnswers /\ StaysIdle
<1>1. UNCHANGED <<request, verdict, told, scope, outcome>>
  BY DEF Codex!NoDecision
<1>2. CodexRequests'
  BY <1>1 DEF CodexInv, CodexRequests, RequestSound, Codex!Refused, Codex!Idle
<1> QED
  BY <1>1, <1>2, NoQuestion DEF CodexInv, PromiseTypes, CodexAnswers, StaysIdle, Unanswered

LEMMA CodexFinishes ==
    ASSUME CodexInv, NEW state, state # None, Codex!Finish(state)
    PROVE  /\ CodexAnswers /\ StaysIdle
           /\ outcome' = IF outcome = None THEN state ELSE outcome
<1>1. CASE outcome # None
  BY <1>1, CodexQuiet DEF Codex!Finish
<1>2. CASE outcome = None
  <2> DEFINE new == [r \in Requests |-> Codex!Withdrawn(request[r])]
  <2>1. outcome' = state /\ Codex!Decide(new, verdict)
    BY <1>2 DEF Codex!Finish
  <2>2. ASSUME NEW r \in Requests
        PROVE  RequestChange(r, new[r], verdict)
    <3>1. CASE request[r].phase = "deciding" /\ ~request[r].withdrawn
      <4>1. new[r] = [Codex!Judged(request[r], "no") EXCEPT !.withdrawn = TRUE]
        BY <3>1 DEF Codex!Withdrawn
      <4> HIDE DEF new
      <4> QED
        BY <3>1, <4>1, RequestJudged
    <3>2. CASE ~(request[r].phase = "deciding" /\ ~request[r].withdrawn)
      <4>1. new[r] = request[r]
        BY <3>2 DEF Codex!Withdrawn
      <4> HIDE DEF new
      <4> QED
        BY <3>2, <4>1, RequestStays
    <3> QED
      BY <3>1, <3>2
  <2>3. new = [r \in Requests |-> new[r]] /\ request' = new
    BY <2>1 DEF Codex!Decide
  <2>4. ASSUME NEW r \in Requests, request[r].phase = "idle"
        PROVE  request'[r].phase = "idle"
    BY <2>3, <2>4 DEF Codex!Withdrawn
  <2> HIDE DEF new
  <2>5. CodexAnswers
    BY <2>1, <2>2, <2>3, RequestDecided DEF CodexAnswers, Unanswered, CodexInv, PromiseTypes
  <2> QED
    BY <1>2, <2>1, <2>4, <2>5 DEF StaysIdle
<1> QED
  BY <1>1, <1>2

\* One request changes.
LEMMA CodexMoves ==
    ASSUME CodexInv, NEW r \in Requests, NEW n, NEW known \in [Questions -> Verdicts],
           Codex!Decide([request EXCEPT ![r] = n], known), outcome' = outcome,
           RequestChange(r, n, known),
           \A q \in Requests \ {r} : \A p \in Parts : known[<<q, p>>] = verdict[<<q, p>>]
    PROVE  /\ CodexAnswers
           /\ \A q \in Requests \ {r} : request'[q] = request[q]
<1> DEFINE new == [request EXCEPT ![r] = n]
<1>1. /\ new = [q \in Requests |-> new[q]] /\ new[r] = n
      /\ \A q \in Requests \ {r} : new[q] = request[q]
  BY DEF CodexInv, CodexRequests
<1>2. Codex!Decide(new, known) /\ request' = new
  BY DEF Codex!Decide
<1> HIDE DEF new
<1>3. \A q \in Requests : RequestChange(q, new[q], known)
  BY <1>1, RequestStays
<1>4. CodexAnswers
  BY <1>1, <1>2, <1>3, RequestDecided DEF CodexAnswers, Unanswered
<1> QED
  BY <1>1, <1>2, <1>4

-----------------------------------------------------------------------------

\* The daemon reads a message, nothing, or drops what there is.
LEMMA CodexReads ==
    ASSUME CodexInv, report' = report,
           \/ wire' = wire /\ StaysIdle
           \/ wire' = <<>>
           \/ /\ wire # <<>> /\ wire' = Tail(wire)
              /\ \A r \in Requests :
                    \/ request[r].phase = "idle" => request'[r].phase = "idle"
                    \/ Head(wire).kind = "request" /\ Head(wire).from = r
    PROVE  CodexWire'
<1> USE DEF CodexInv
<1>0. \A i \in 1..Len(wire) : wire[i] \in CodexMessages
  BY DEF CodexWire
<1>1. \A i \in 1..Len(wire) : wire[i].kind = "request" => wire[i].from \in Requests
  BY <1>0 DEF CodexMessages
<1>2. CASE wire' = wire /\ StaysIdle
  <2>1. \A i \in 1..Len(wire) : wire[i].kind = "request" => request'[wire[i].from].phase = "idle"
    BY <1>1, <1>2 DEF StaysIdle, CodexWire
  <2> QED
    BY <1>2, <2>1 DEF CodexWire
<1>3. CASE wire' = <<>>
  BY <1>3 DEF CodexWire
<1>4. CASE /\ wire # <<>> /\ wire' = Tail(wire)
           /\ \A r \in Requests :
                \/ request[r].phase = "idle" => request'[r].phase = "idle"
                \/ Head(wire).kind = "request" /\ Head(wire).from = r
  <2>1. /\ Head(wire) = wire[1] /\ 1 \in 1..Len(wire)
        /\ wire' \in Seq(CodexMessages)
        /\ \A i \in 1..Len(wire') : i + 1 \in 1..Len(wire) /\ wire'[i] = wire[i + 1]
    BY <1>4, Taken DEF CodexWire
  <2>2. ASSUME NEW i \in 1..Len(wire'), wire'[i].kind = "request"
        PROVE  request'[wire'[i].from].phase = "idle"
    <3>1. wire[i + 1].kind = "request" /\ i + 1 \in 1..Len(wire) /\ i + 1 # 1
      BY <2>1, <2>2
    <3>2. request[wire[i + 1].from].phase = "idle" /\ wire[i + 1].from \in Requests
      BY <1>1, <3>1 DEF CodexWire
    <3>3. ~(Head(wire).kind = "request" /\ Head(wire).from = wire[i + 1].from)
      BY <2>1, <3>1 DEF CodexWire
    <3> QED
      BY <1>4, <2>1, <3>2, <3>3
  <2>3. \A i, j \in 1..Len(wire') :
        wire'[i].kind = "request" /\ wire'[j].kind = "request" /\ wire'[i].from = wire'[j].from => i = j
    <3> TAKE i, j \in 1..Len(wire')
    <3>1. /\ i + 1 \in 1..Len(wire) /\ j + 1 \in 1..Len(wire)
          /\ wire'[i] = wire[i + 1] /\ wire'[j] = wire[j + 1]
      BY <2>1
    <3>2. wire[i + 1].kind = "request" /\ wire[j + 1].kind = "request" /\ wire[i + 1].from = wire[j + 1].from
          => i + 1 = j + 1
      BY <3>1 DEF CodexWire
    <3> QED
      BY <3>1, <3>2
  <2>4. \A i \in 1..Len(wire') : wire'[i].kind = "completed" => wire'[i].as = report'
    <3> TAKE i \in 1..Len(wire')
    <3>1. i + 1 \in 1..Len(wire) /\ wire'[i] = wire[i + 1]
      BY <2>1
    <3> QED
      BY <3>1 DEF CodexWire
  <2> QED
    BY <2>1, <2>2, <2>3, <2>4 DEF CodexWire
<1> QED
  BY <1>2, <1>3, <1>4

\* The child writes a message.
LEMMA CodexWrites ==
    ASSUME CodexInv, NEW m \in CodexMessages, Codex!Write(m),
           m.kind = "completed" => m.as = report' /\ report = "none",
           m.kind # "completed" => report' = report,
           m.kind = "request" =>
                /\ request[m.from].phase = "idle"
                /\ \A i \in DOMAIN wire : wire[i].kind = "request" => wire[i].from # m.from
    PROVE  CodexWire' /\ CodexAnswers
<1> USE DEF CodexInv
<1>1. /\ wire' = Append(wire, m) /\ request' = request /\ outcome' = outcome
      /\ Codex!NoDecision
  BY DEF Codex!Write, Codex!NoDecision
<1>2. /\ wire' \in Seq(CodexMessages)
      /\ \A i \in 1..Len(wire') : i \in 1..Len(wire) \/ i = Len(wire) + 1
      /\ \A i \in 1..Len(wire) : wire'[i] = wire[i]
      /\ wire'[Len(wire) + 1] = m
  BY <1>1, Written DEF CodexWire
<1>3. DOMAIN wire = 1..Len(wire) /\ Len(wire) \in Nat
  BY DEF CodexWire
<1>4. \A i \in 1..Len(wire) : wire[i].kind = "completed" => wire[i].as # "none"
  <2>1. \A i \in 1..Len(wire) : wire[i] \in CodexMessages
    BY DEF CodexWire
  <2> QED
    BY <2>1 DEF CodexMessages
<1>5. \A i \in 1..Len(wire') :
        /\ wire'[i].kind = "completed" => wire'[i].as = report'
        /\ wire'[i].kind = "request" => request'[wire'[i].from].phase = "idle"
  BY <1>1, <1>2, <1>4 DEF CodexWire
<1>6. \A i, j \in 1..Len(wire') :
        wire'[i].kind = "request" /\ wire'[j].kind = "request" /\ wire'[i].from = wire'[j].from => i = j
  BY <1>2, <1>3 DEF CodexWire
<1> QED
  BY <1>1, <1>2, <1>5, <1>6, CodexQuiet DEF CodexWire

-----------------------------------------------------------------------------

CodexDone == CodexInv' /\ Promise!Next /\ Ungranted

\* A step that does not change what the gateway and the child know of each other's work.
LEMMA CodexSettles ==
    ASSUME CodexInv, CodexWire', CodexCalls', CodexAnswers,
           start' \in {"pending", "returned", "thrown"},
           started' \in BOOLEAN, aborted' \in BOOLEAN, work' \in BOOLEAN,
           started => started', aborted => aborted', report # "none" => report' = report,
           Promise!Starts, Promise!Ends, Promise!Works
    PROVE  CodexDone
<1>1. Ungranted
  BY DEF CodexAnswers, Unanswered, Ungranted
<1> QED
  BY <1>1 DEF CodexDone, CodexInv, CodexAnswers, PromiseTypes, Promise!Next

\* begin() throws while it awaits something.
LEMMA CodexThrows ==
    ASSUME CodexInv, start = "pending", start' = "thrown", UNCHANGED <<started, aborted, work, report>>
    PROVE  Promise!Starts
<1>1. Promise!Vouched(Promise!OnError)
  BY ErrorVouched DEF CodexInv, PromiseTypes, CodexCalls
<1>2. Promise!Vouched(Promise!OnError)'
  BY <1>1 DEF Promise!Vouched, Promise!OnError
<1> QED
  BY <1>2 DEF Promise!Starts

LEMMA CodexScouts ==
    ASSUME CodexInv, Codex!Scouting
    PROVE  CodexDone
<1> USE DEF CodexInv, PromiseTypes
<1>1. /\ UNCHANGED <<child, link, pending, owed, wire, turn, report, started, work, aborted, outcome>>
      /\ Codex!NoDecision
      /\ \/ /\ UNCHANGED <<start, step>>
            /\ scout' \in {"greeting", "listing"} => step = "runtime" /\ ~cached'
         \/ start' = "thrown" /\ step' = "done" /\ step = "runtime" /\ scout' \in {"left", "none", "closing"}
  BY DEF Codex!Scouting, Codex!ScoutStarts, Codex!ScoutGreeted, Codex!ScoutNotGreeted, Codex!ScoutListed,
         Codex!ScoutGone, Codex!NoRun, Codex!NoDecision, Codex!NoThrow, Codex!Throw, CodexCalls
<1>2. CodexAnswers /\ StaysIdle
  BY <1>1, CodexQuiet
<1>3. CodexWire'
  BY <1>1, <1>2, CodexReads
<1>4. CodexCalls'
  BY <1>1 DEF CodexCalls, Early
<1>5. Promise!Starts
  BY <1>1, CodexThrows DEF CodexCalls, Promise!Starts
<1> QED
  BY <1>1, <1>2, <1>3, <1>4, <1>5, EndVouched, CodexSettles DEF CodexCalls, Promise!Works

LEMMA CodexBegins ==
    ASSUME CodexInv, Codex!Begin
    PROVE  CodexDone
<1> USE DEF CodexInv, PromiseTypes
<1>1. /\ step = "runtime" /\ step' = "initialize" /\ pending' = {"initialize"} /\ owed' = {"initialize"}
      /\ UNCHANGED <<start, started, aborted, work, report, outcome, wire, turn, scout>>
      /\ Codex!NoDecision
  BY DEF Codex!Begin
<1>2. CodexAnswers /\ StaysIdle
  BY <1>1, CodexQuiet
<1>3. CodexWire'
  BY <1>1, <1>2, CodexReads
<1>4. scout \notin {"greeting", "listing"}
  BY DEF Codex!Begin, CodexCalls
<1>5. CodexCalls'
  BY <1>1, <1>4 DEF CodexCalls, Early, Codex!Calls, Codex!Interrupts
<1> QED
  BY <1>1, <1>2, <1>3, <1>5, EndVouched, CodexSettles DEF Promise!Starts, Promise!Works

LEMMA CodexChild ==
    ASSUME CodexInv, Codex!Child
    PROVE  CodexDone
<1> USE DEF CodexInv, PromiseTypes
<1>1. ASSUME UNCHANGED <<start, started, aborted, work, outcome, step, cached, scout, link, pending>>,
             report # "none" => report' = report, CodexWire', CodexCalls', CodexAnswers
      PROVE  CodexDone
  BY <1>1, EndVouched, CodexSettles DEF Promise!Starts, Promise!Works
<1>2. ASSUME NEW c \in Codex!Calls, Codex!ChildAnswers(c) PROVE CodexDone
  <2>1. PICK as \in {"ok", "error", "bad"} :
            /\ Codex!Write([kind |-> "answer", call |-> c, as |-> as])
            /\ turn' = (turn \/ (c = "turn" /\ as = "ok"))
    BY <1>2 DEF Codex!ChildAnswers
  <2>2. c \in owed /\ owed' = owed \ {c} /\ report' = report
    BY <1>2 DEF Codex!ChildAnswers
  <2>3. [kind |-> "answer", call |-> c, as |-> as] \in CodexMessages
    BY DEF CodexMessages
  <2>4. CodexWire' /\ CodexAnswers
    BY <2>1, <2>2, <2>3, CodexWrites
  <2>5. UNCHANGED <<start, started, aborted, work, outcome, step, cached, scout, link, pending>>
    BY <2>1 DEF Codex!Write
  <2>6. CodexCalls'
    BY <2>1, <2>2, <2>5 DEF CodexCalls, Early
  <2> QED
    BY <1>1, <2>2, <2>4, <2>5, <2>6
<1>3. ASSUME NEW r \in Requests, Codex!ChildAsks(r) PROVE CodexDone
  <2>1. PICK d \in Demands \cup {None} : Codex!Write([kind |-> "request", from |-> r, demand |-> d])
    BY <1>3 DEF Codex!ChildAsks
  <2>2. [kind |-> "request", from |-> r, demand |-> d] \in CodexMessages
    BY DEF CodexMessages
  <2>3. CodexWire' /\ CodexAnswers
    BY <1>3, <2>1, <2>2, CodexWrites DEF Codex!ChildAsks
  <2>4. UNCHANGED <<start, started, aborted, work, outcome, step, cached, scout, link, pending, owed, turn, report>>
    BY <1>3, <2>1 DEF Codex!Write, Codex!ChildAsks
  <2>5. CodexCalls'
    BY <2>4 DEF CodexCalls, Early
  <2> QED
    BY <1>1, <2>3, <2>4, <2>5
<1>4. ASSUME NEW r \in Requests, Codex!ChildWithdraws(r) PROVE CodexDone
  <2>1. [kind |-> "withdrawal", from |-> r] \in CodexMessages
    BY DEF CodexMessages
  <2>2. CodexWire' /\ CodexAnswers
    BY <1>4, <2>1, CodexWrites DEF Codex!ChildWithdraws
  <2>3. UNCHANGED <<start, started, aborted, work, outcome, step, cached, scout, link, pending, owed, turn, report>>
    BY <1>4 DEF Codex!Write, Codex!ChildWithdraws
  <2>4. CodexCalls'
    BY <2>3 DEF CodexCalls, Early
  <2> QED
    BY <1>1, <2>2, <2>3, <2>4
<1>5. ASSUME NEW how \in {"completed", "interrupted", "failed"}, Codex!ChildCompletes(how) PROVE CodexDone
  <2>1. [kind |-> "completed", as |-> how] \in CodexMessages
    BY DEF CodexMessages
  <2>2. turn /\ turn' = FALSE /\ report' = how /\ owed' = owed
        /\ Codex!Write([kind |-> "completed", as |-> how])
    BY <1>5 DEF Codex!ChildCompletes
  <2>3. report = "none" /\ step \notin Early /\ "turn" \notin owed
    BY <2>2 DEF CodexCalls
  <2>4. CodexWire' /\ CodexAnswers
    BY <2>1, <2>2, <2>3, CodexWrites
  <2>5. UNCHANGED <<start, started, aborted, work, outcome, step, cached, scout, link, pending>>
    BY <2>2 DEF Codex!Write
  <2>6. CodexCalls'
    BY <2>2, <2>3, <2>5 DEF CodexCalls, Early
  <2> QED
    BY <1>1, <2>3, <2>4, <2>5, <2>6
<1>6. CASE Codex!ChildDies
  <2>1. /\ UNCHANGED <<start, started, aborted, work, report, outcome, step, cached, scout, link, pending, wire>>
        /\ owed' = {} /\ turn' = FALSE /\ Codex!NoDecision
    BY <1>6 DEF Codex!ChildDies
  <2>2. CodexAnswers /\ StaysIdle
    BY <2>1, CodexQuiet
  <2>3. CodexWire'
    BY <2>1, <2>2, CodexReads
  <2>4. CodexCalls'
    BY <2>1 DEF CodexCalls, Early
  <2> QED
    BY <1>1, <2>1, <2>2, <2>3, <2>4
<1> QED
  BY <1>2, <1>3, <1>4, <1>5, <1>6 DEF Codex!Child

\* Nobody's question moves and the run goes on.
LEMMA CodexPasses ==
    ASSUME CodexInv, Codex!NoDecision, UNCHANGED <<outcome, report>>,
           \/ wire' = wire
           \/ wire # <<>> /\ wire' = Tail(wire),
           start' = start \/ (start = "pending" /\ start' = "returned"),
           started' \in BOOLEAN, aborted' \in BOOLEAN, work' \in BOOLEAN,
           started => started', aborted => aborted',
           work' = work \/ (work' /\ started' /\ outcome = None /\ start' # "thrown"),
           CodexCalls'
    PROVE  CodexDone
<1>1. CodexAnswers /\ StaysIdle
  BY CodexQuiet
<1>2. CodexWire'
  BY <1>1, CodexReads DEF StaysIdle
<1>3. start' \in {"pending", "returned", "thrown"}
  BY DEF CodexInv, PromiseTypes
<1> QED
  BY <1>1, <1>2, <1>3, EndVouched, CodexSettles DEF Promise!Starts, Promise!Works

\* The run ends, if it has not yet.
LEMMA CodexStops ==
    ASSUME CodexInv, NEW state \in {"cancelled", "succeeded", "failed", "outcome_unknown"},
           Codex!Finish(state), UNCHANGED <<aborted, work, report>>,
           \/ wire' = wire \/ wire' = <<>>
           \/ wire # <<>> /\ wire' = Tail(wire),
           started' \in BOOLEAN, started => started',
           \/ start' = start
           \/ start = "pending" /\ start' = "returned"
           \/ start = "pending" /\ start' = "thrown" /\ started' = started,
           \/ outcome # None
           \/ start' = "thrown"
           \/ state = "cancelled" /\ (aborted \/ report = "interrupted")
           \/ state = "succeeded" /\ report = "completed"
           \/ state = "failed" /\ (report = "failed" \/ ~work)
           \/ state = "outcome_unknown" /\ work,
           CodexCalls'
    PROVE  CodexDone
<1>1. /\ CodexAnswers /\ StaysIdle
      /\ outcome' = IF outcome = None THEN state ELSE outcome
  BY CodexFinishes, ProvidersAssumption
<1>2. CodexWire'
  BY <1>1, CodexReads DEF StaysIdle
<1>3. Promise!Starts
  BY CodexThrows DEF Promise!Starts
<1>4. Promise!Ends
  BY <1>1, EndVouched
<1>5. /\ start' \in {"pending", "returned", "thrown"}
      /\ aborted' \in BOOLEAN /\ work' \in BOOLEAN
  BY DEF CodexInv, PromiseTypes
<1> QED
  BY <1>1, <1>2, <1>3, <1>4, <1>5, CodexSettles DEF Promise!Works

\* One request changes, and a message may be read.
LEMMA CodexHandles ==
    ASSUME CodexInv, NEW r \in Requests, NEW n, NEW known \in [Questions -> Verdicts],
           Codex!Decide([request EXCEPT ![r] = n], known),
           RequestChange(r, n, known),
           \A q \in Requests \ {r} : \A p \in Parts : known[<<q, p>>] = verdict[<<q, p>>],
           \/ wire' = wire
           \/ wire # <<>> /\ wire' = Tail(wire),
           request[r].phase # "idle" \/ (/\ wire # <<>> /\ wire' = Tail(wire)
                                         /\ Head(wire).kind = "request" /\ Head(wire).from = r),
           UNCHANGED <<start, started, aborted, work, report, outcome, step, cached, scout, link,
                       pending, owed, turn>>
    PROVE  CodexDone
<1>1. /\ CodexAnswers
      /\ \A q \in Requests \ {r} : request'[q] = request[q]
  BY CodexMoves
<1>2. request[r].phase # "idle" => StaysIdle
  BY <1>1 DEF StaysIdle
<1>3. CodexWire'
  BY <1>1, <1>2, CodexReads DEF StaysIdle
<1>4. CodexCalls'
  BY DEF CodexInv, CodexCalls, Early
<1> QED
  BY <1>1, <1>3, <1>4, EndVouched, CodexSettles
  DEF CodexInv, PromiseTypes, Promise!Starts, Promise!Works

LEMMA CodexReadsAnswer ==
    ASSUME CodexInv, Codex!LateAnswer \/ Codex!Proceed \/ Codex!HandOver \/ Codex!Returns
                     \/ Codex!Fails \/ Codex!Interrupted
    PROVE  CodexDone
<1> USE DEF CodexInv, PromiseTypes, Codex!Read, Codex!Readable
<1>1. /\ wire # <<>> /\ wire' = Tail(wire)
      /\ UNCHANGED <<report, cached, scout, link, turn, aborted>>
  BY DEF Codex!LateAnswer, Codex!Proceed, Codex!HandOver, Codex!Returns, Codex!Fails, Codex!Interrupted
<1>2. CASE Codex!LateAnswer \/ Codex!Interrupted
  <2>1. /\ Codex!NoDecision /\ pending' \subseteq pending
        /\ pending' = pending \/ pending \cap Codex!Interrupts # {}
        /\ UNCHANGED <<start, started, work, outcome, step, owed>>
    BY <1>2 DEF Codex!LateAnswer, Codex!Interrupted
  <2>2. CodexCalls'
    BY <1>1, <2>1 DEF CodexCalls, Early, Codex!Interrupts
  <2> QED
    BY <1>1, <2>1, <2>2, CodexPasses
<1>3. CASE Codex!Proceed
  <2>1. /\ Codex!NoDecision /\ pending \cap {"initialize", "account", "thread"} # {}
        /\ step' = Codex!AfterCall[step] /\ pending' = {step'} /\ owed' = owed \cup {step'}
        /\ UNCHANGED <<start, started, work, outcome>>
    BY <1>3 DEF Codex!Proceed
  <2>2. step \in {"initialize", "account", "thread"}
    BY <2>1 DEF CodexCalls, Early, Codex!Interrupts
  <2>3. step' \in {"account", "thread", "inventory"}
    BY <2>1, <2>2 DEF Codex!AfterCall
  <2>4. CodexCalls'
    BY <1>1, <2>1, <2>2, <2>3 DEF CodexCalls, Early, Codex!Calls, Codex!Interrupts
  <2> QED
    BY <1>1, <2>1, <2>4, CodexPasses
<1>4. CASE Codex!HandOver
  <2>1. pending \cap {"inventory"} # {} /\ started' = TRUE
    BY <1>4 DEF Codex!HandOver
  <2>2. step = "inventory" /\ start = "pending" /\ outcome = None /\ pending = {"inventory"}
    BY <2>1 DEF CodexCalls, Early, Codex!Interrupts
  <2>3. CASE aborted
    <3>1. /\ Codex!Finish("cancelled") /\ start' = "returned" /\ step' = "done" /\ pending' = {}
          /\ UNCHANGED <<work, owed>>
      BY <1>4, <2>3 DEF Codex!HandOver
    <3>2. CodexCalls'
      BY <1>1, <2>1, <2>2, <2>3, <3>1 DEF CodexCalls, Early, Codex!Interrupts
    <3> QED
      BY <1>1, <2>1, <2>2, <2>3, <3>1, <3>2, CodexStops
  <2>4. CASE ~aborted
    <3>1. /\ Codex!NoDecision /\ step' = "turn" /\ work' = TRUE
          /\ pending' = {"turn"} /\ owed' = owed \cup {"turn"}
          /\ UNCHANGED <<start, outcome>>
      BY <1>4, <2>4 DEF Codex!HandOver
    <3>2. CodexCalls'
      BY <1>1, <2>1, <2>2, <3>1 DEF CodexCalls, Early, Codex!Calls, Codex!Interrupts
    <3> QED
      BY <1>1, <2>1, <2>2, <3>1, <3>2, CodexPasses
  <2> QED
    BY <2>3, <2>4
<1>5. CASE Codex!Returns
  <2>1. /\ pending \cap {"turn"} # {}
        /\ start' = "returned" /\ step' = "done" /\ pending' = {}
        /\ UNCHANGED <<started, work, owed>>
    BY <1>5 DEF Codex!Returns
  <2>2. start = "pending"
    BY <2>1 DEF CodexCalls, Codex!Interrupts
  <2>3. CodexCalls'
    BY <1>1, <2>1, <2>2 DEF CodexCalls, Early, Codex!Interrupts
  <2>4. CASE aborted
    <3>1. Codex!Finish("cancelled")
      BY <1>5, <2>4 DEF Codex!Returns
    <3> QED
      BY <1>1, <2>1, <2>2, <2>3, <2>4, <3>1, CodexStops
  <2>5. CASE ~aborted
    <3>1. Codex!NoDecision /\ outcome' = outcome
      BY <1>5, <2>5 DEF Codex!Returns
    <3> QED
      BY <1>1, <2>1, <2>2, <2>3, <3>1, CodexPasses
  <2> QED
    BY <2>4, <2>5
<1>6. CASE Codex!Fails
  <2>1. /\ pending \ Codex!Interrupts # {} /\ Codex!Finish("cancelled")
        /\ start' = "thrown" /\ step' = "done" /\ pending' = {}
        /\ UNCHANGED <<started, work, owed>>
    BY <1>6 DEF Codex!Fails, Codex!Throw
  <2>2. start = "pending"
    BY <2>1 DEF CodexCalls
  <2>3. CodexCalls'
    BY <1>1, <2>1, <2>2 DEF CodexCalls, Early, Codex!Interrupts
  <2> QED
    BY <1>1, <2>1, <2>2, <2>3, CodexStops
<1> QED
  BY <1>2, <1>3, <1>4, <1>5, <1>6

LEMMA CodexReadsNotice ==
    ASSUME CodexInv, Codex!OnRequest \/ Codex!OnWithdrawal \/ Codex!OnTurnCompleted
    PROVE  CodexDone
<1> USE DEF CodexInv, PromiseTypes, Codex!Read, Codex!Readable
<1>1. /\ wire # <<>> /\ wire' = Tail(wire)
      /\ UNCHANGED <<start, started, aborted, work, report, step, cached, scout, link, pending, owed, turn>>
  BY DEF Codex!OnRequest, Codex!OnWithdrawal, Codex!OnTurnCompleted
<1>2. Head(wire) \in CodexMessages /\ Head(wire) = wire[1] /\ 1 \in 1..Len(wire)
  BY <1>1, Taken DEF CodexWire
<1> DEFINE r == Head(wire).from
<1>3. CASE Codex!OnRequest
  <2>1. /\ r \in Requests /\ Head(wire).demand \in Demands \cup {None}
        /\ Head(wire).kind = "request" /\ request[r].phase = "idle"
    BY <1>2, <1>3 DEF Codex!OnRequest, CodexMessages, CodexWire
  <2>2. /\ Codex!Decide([request EXCEPT ![r] = Codex!Opened(Head(wire).demand)], verdict)
        /\ outcome' = outcome
    BY <1>3 DEF Codex!OnRequest
  <2>3. RequestChange(r, Codex!Opened(Head(wire).demand), verdict)
    BY <2>1, RequestOpens
  <2> DEFINE n == Codex!Opened(Head(wire).demand)
  <2>4. Codex!Decide([request EXCEPT ![r] = n], verdict) /\ RequestChange(r, n, verdict)
    BY <2>2, <2>3
  <2>5. Head(wire).from = r
    OBVIOUS
  <2> HIDE DEF n, r
  <2> QED
    BY <1>1, <2>1, <2>2, <2>4, <2>5, CodexHandles
<1>4. CASE Codex!OnWithdrawal
  <2>1. r \in Requests
    BY <1>2, <1>4 DEF Codex!OnWithdrawal, CodexMessages
  <2>2. /\ Codex!Decide([request EXCEPT ![r] = Codex!Withdrawn(@)], verdict)
        /\ outcome' = outcome
    BY <1>4 DEF Codex!OnWithdrawal
  <2> HIDE DEF r
  <2> DEFINE n == Codex!Withdrawn(request[r])
  <2>3. [request EXCEPT ![r] = Codex!Withdrawn(@)] = [request EXCEPT ![r] = n]
    OBVIOUS
  <2>4. Codex!Decide([request EXCEPT ![r] = n], verdict)
    BY <2>2, <2>3
  <2>5. CASE request[r].phase = "deciding" /\ ~request[r].withdrawn
    <3>1. n = [Codex!Judged(request[r], "no") EXCEPT !.withdrawn = TRUE]
      BY <2>5 DEF Codex!Withdrawn
    <3> HIDE DEF n
    <3>2. RequestChange(r, n, verdict)
      BY <2>1, <2>2, <2>5, <3>1, RequestJudged
    <3> QED
      BY <1>1, <2>1, <2>2, <2>4, <2>5, <3>2, CodexHandles
  <2>6. CASE ~(request[r].phase = "deciding" /\ ~request[r].withdrawn)
    <3>1. n = request[r]
      BY <2>6 DEF Codex!Withdrawn
    <3>2. [request EXCEPT ![r] = n] = request /\ request' = request
      BY <2>1, <2>4, <3>1 DEF Codex!Decide, CodexRequests
    <3> HIDE DEF n
    <3>3. \A q \in Requests : RequestChange(q, request[q], verdict)
      BY <2>2, RequestStays
    <3>4. request = [q \in Requests |-> request[q]]
      BY DEF CodexRequests
    <3>5. CodexAnswers
      BY <2>4, <3>2, <3>3, <3>4, RequestDecided DEF CodexAnswers, Unanswered
    <3>6. CodexWire'
      BY <1>1, <3>2, CodexReads
    <3>7. CodexCalls'
      BY <1>1, <2>2 DEF CodexCalls, Early
    <3> QED
      BY <1>1, <2>2, <3>5, <3>6, <3>7, EndVouched, CodexSettles DEF Promise!Starts, Promise!Works
  <2> QED
    BY <2>5, <2>6
<1>5. CASE Codex!OnTurnCompleted
  <2>1. Head(wire).as = report /\ report \in {"completed", "interrupted", "failed"}
    BY <1>2, <1>5 DEF Codex!OnTurnCompleted, CodexMessages, CodexWire
  <2> DEFINE state == Codex!OutcomeOf[report]
  <2>2. Codex!Finish(state)
    BY <1>5, <2>1 DEF Codex!OnTurnCompleted
  <2>3. /\ report = "completed" => state = "succeeded"
        /\ report = "interrupted" => state = "cancelled"
        /\ report = "failed" => state = "failed"
    BY DEF Codex!OutcomeOf
  <2> HIDE DEF state
  <2>4. step \notin Early
    BY <2>1 DEF CodexCalls
  <2>5. CodexCalls'
    BY <1>1, <2>4 DEF CodexCalls, Early
  <2> QED
    BY <1>1, <2>1, <2>2, <2>3, <2>5, CodexStops
<1> QED
  BY <1>3, <1>4, <1>5

LEMMA CodexTimers ==
    ASSUME CodexInv, Codex!Timers
    PROVE  CodexDone
<1> USE DEF CodexInv, PromiseTypes
<1>1. CASE Codex!CallTimeout
  <2>1. /\ step \in pending /\ Codex!Finish("cancelled")
        /\ start' = "thrown" /\ step' = "done" /\ pending' = {}
        /\ UNCHANGED <<started, aborted, work, report, cached, scout, link, owed, wire, turn>>
    BY <1>1 DEF Codex!CallTimeout, Codex!Throw
  <2>2. start = "pending"
    BY <2>1 DEF CodexCalls, Codex!Interrupts
  <2>3. CodexCalls'
    BY <2>1, <2>2 DEF CodexCalls, Early, Codex!Interrupts
  <2> QED
    BY <2>1, <2>2, <2>3, CodexStops
<1>2. CASE Codex!KillTimer
  <2>1. /\ UNCHANGED <<start, started, aborted, work, report, outcome, step, cached, scout, link,
                       pending, owed, wire, turn>>
        /\ Codex!NoDecision
    BY <1>2 DEF Codex!KillTimer
  <2>2. CodexCalls'
    BY <2>1 DEF CodexCalls, Early
  <2> QED
    BY <2>1, <2>2, CodexPasses
<1>3. ASSUME NEW c \in Codex!Interrupts, Codex!InterruptTimeout(c) PROVE CodexDone
  <2>1. /\ c \in pending /\ pending' = pending \ {c} /\ Codex!Finish("cancelled")
        /\ UNCHANGED <<start, started, aborted, work, report, step, cached, scout, link, owed, wire, turn>>
    BY <1>3 DEF Codex!InterruptTimeout
  <2>2. aborted /\ step = "done"
    BY <2>1 DEF CodexCalls, Early, Codex!Interrupts
  <2>3. CodexCalls'
    BY <2>1, <2>2 DEF CodexCalls, Early
  <2> QED
    BY <2>1, <2>2, <2>3, CodexStops
<1>4. ASSUME NEW r \in Requests, Codex!ApprovalTimeout(r) PROVE CodexDone
  <2> DEFINE n == Codex!Judged(request[r], "no")
  <2>1. /\ Codex!Decide([request EXCEPT ![r] = Codex!Judged(@, "no")], verdict)
        /\ request[r].phase = "deciding"
        /\ UNCHANGED <<start, started, aborted, work, report, outcome, step, cached, scout, link,
                       pending, owed, wire, turn>>
    BY <1>4 DEF Codex!ApprovalTimeout
  <2>2. [request EXCEPT ![r] = Codex!Judged(@, "no")] = [request EXCEPT ![r] = n]
    OBVIOUS
  <2>3. n = Codex!Judged(request[r], "no") /\ Codex!Decide([request EXCEPT ![r] = n], verdict)
    BY <2>1, <2>2
  <2> HIDE DEF n
  <2>4. RequestChange(r, n, verdict)
    BY <2>1, <2>3, RequestJudged
  <2> QED
    BY <2>1, <2>3, <2>4, CodexHandles
<1> QED
  BY <1>1, <1>2, <1>3, <1>4 DEF Codex!Timers

LEMMA CodexLoses ==
    ASSUME CodexInv, Codex!Fault \/ Codex!Exit
    PROVE  CodexDone
<1> USE DEF CodexInv, PromiseTypes
<1> DEFINE state == Codex!Loss
<1>1. /\ link # "none" /\ link' # "none" /\ wire' = <<>> /\ pending' = {} /\ Codex!Finish(state)
      /\ UNCHANGED <<started, aborted, work, report, cached, scout, owed, turn>>
  BY DEF Codex!Fault, Codex!Exit, Codex!LoseLink
<1>2. \/ step \in Codex!Calls /\ start' = "thrown" /\ step' = "done"
      \/ step \notin Codex!Calls /\ UNCHANGED <<start, step>>
  BY DEF Codex!Fault, Codex!Exit, Codex!LoseLink, Codex!Throw, Codex!NoThrow
<1>3. step # "runtime"
  BY <1>1 DEF CodexCalls
<1>4. \/ start = "pending" /\ start' = "thrown" /\ step' = "done"
      \/ start' = start /\ step = "done" /\ step' = "done"
  BY <1>2, <1>3 DEF CodexCalls, Early, Codex!Calls, Codex!Interrupts
<1>5. CodexCalls'
  BY <1>1, <1>4 DEF CodexCalls, Early
<1>6. /\ state \in {"cancelled", "failed", "outcome_unknown"}
      /\ state = "cancelled" => aborted
      /\ state = "failed" => ~work
      /\ state = "outcome_unknown" => work
  BY DEF Codex!Loss, CodexCalls
<1> HIDE DEF state
<1> QED
  BY <1>1, <1>4, <1>5, <1>6, CodexStops

\* decide() rejects: all of the request is declined.
LEMMA CodexRejects ==
    ASSUME CodexInv, NEW r \in Requests, Codex!GatewayRejects(r)
    PROVE  CodexDone
<1> USE DEF CodexInv, PromiseTypes
<1> DEFINE n == [request[r] EXCEPT !.phase = "over", !.todo = <<>>, !.granted = {}]
           T(q) == IF q[1] = r /\ verdict[q] # "unasked" /\ link = "open" THEN "no" ELSE told[q]
<1>1. /\ request[r].phase = "deciding"
      /\ request' = [request EXCEPT ![r].phase = "over", ![r].todo = <<>>, ![r].granted = {}]
      /\ told' = [q \in Questions |-> T(q)]
      /\ UNCHANGED <<start, started, aborted, work, report, outcome, verdict, step, cached, scout,
                     child, link, pending, owed, wire, turn, scope>>
  BY DEF Codex!GatewayRejects, Codex!Questions, Codex!Parts, Questions
<1>2. RequestSound(r) /\ request[r] \in RequestTypes /\ request \in [Requests -> RequestTypes]
  BY DEF CodexRequests
<1>3. /\ n \in RequestTypes /\ n.phase = "over" /\ n.todo = <<>> /\ n.granted = {}
      /\ n.demand = request[r].demand /\ n.withdrawn = request[r].withdrawn
      /\ n.session = request[r].session
  <2>1. <<>> \in Seq(Parts)
    OBVIOUS
  <2> QED
    BY <1>2, <2>1 DEF RequestTypes
<1>4. request' = [request EXCEPT ![r] = n]
  BY <1>1, <1>2
<1> HIDE DEF n
<1>5. /\ request'[r] = n /\ \A q \in Requests \ {r} : request'[q] = request[q]
      /\ request' \in [Requests -> RequestTypes]
  BY <1>2, <1>3, <1>4
<1>6. /\ \A p \in Parts : told[<<r, p>>] = "nothing"
      /\ \A q \in Requests \ {r} : \A p \in Parts : told'[<<q, p>>] = told[<<q, p>>]
      /\ \A p \in Parts : told'[<<r, p>>] \in {"nothing", "no"}
  BY <1>1, <1>2, Asked DEF RequestSound
<1>7. \A q \in Questions : \E s \in Requests : \E p \in Parts : q = <<s, p>>
  BY DEF Questions, Parts
<1>8. told' \in [Questions -> {"nothing", "yes", "no"}]
  BY <1>1
<1>9. Promise!Tells /\ Promise!Decides
  <2>1. \A q \in Questions : told'[q] = told[q] \/ (told[q] = "nothing" /\ told'[q] = "no")
    BY <1>6, <1>7
  <2> QED
    BY <1>1, <2>1 DEF Promise!Tells, Promise!Decides
<1>10. CodexRequests'
  <2>1. RequestSound(r)'
    <3>1. scope[r] = None
      BY <1>1, <1>2 DEF RequestSound
    <3> QED
      BY <1>1, <1>3, <1>5, <3>1, ProvidersAssumption DEF RequestSound
  <2>2. ASSUME NEW s \in Requests \ {r} PROVE RequestSound(s)'
    <3>1. RequestSound(s) /\ request'[s] = request[s]
      BY <1>5 DEF CodexRequests
    <3>2. /\ verdict' = verdict /\ scope' = scope /\ outcome' = outcome
          /\ \A p \in Parts : told'[<<s, p>>] = told[<<s, p>>]
      BY <1>1, <1>6
    <3> HIDE DEF Put
    <3> QED
      BY ONLY <3>1, <3>2 DEF RequestSound, Codex!Refused, Codex!Idle
  <2>3. \A s \in Requests : RequestSound(s)'
    BY <2>1, <2>2
  <2> QED
    BY <1>1, <1>5, <2>3 DEF CodexRequests
<1>11. Ungranted
  <2>1. request[r].withdrawn => request[r].demand # None /\ Len(Codex!Sought(request[r].demand)) > 1
    <3> DEFINE d == request[r].demand
    <3>1. request[r].todo # <<>> /\ request[r].todo \in Seq(Parts)
      BY <1>1, <1>2 DEF RequestSound, RequestTypes
    <3>2. Len(request[r].todo) > 0 /\ Len(request[r].todo) \in Nat
      BY <3>1
    <3>3. request[r].withdrawn => Len(request[r].todo) < Put(d)
      BY <1>1, <1>2 DEF RequestSound
    <3>4. Len(Codex!Sought(d)) \in Nat
      BY SoughtParts
    <3> HIDE DEF d
    <3>5. Len(request[r].todo) < Put(d) => d # None /\ Len(Codex!Sought(d)) > 1
      BY <3>2, <3>4 DEF Put
    <3> QED
      BY <3>3, <3>5 DEF d
  <2>2. ASSUME NEW s \in Requests, request[s].withdrawn, NEW q \in Questions, q[1] = s,
               told'[q] # told[q]
        PROVE  s = r /\ told'[q] = "no"
    <3>1. PICK p \in Parts : q = <<s, p>>
      BY <1>7, <2>2
    <3> QED
      BY <1>6, <2>2, <3>1
  <2> QED
    BY <2>1, <2>2 DEF Ungranted
<1>12. CodexWire' /\ CodexCalls'
  <2>1. ASSUME NEW s \in Requests, request[s].phase = "idle" PROVE request'[s].phase = "idle"
    BY <1>1, <1>5, <2>1
  <2>2. CodexWire'
    BY <1>1, <2>1, CodexReads DEF StaysIdle
  <2> QED
    BY <1>1, <2>2 DEF CodexCalls, Early
<1>13. Promise!Starts /\ Promise!Ends /\ Promise!Works
  BY <1>1, EndVouched DEF Promise!Starts, Promise!Works
<1> QED
  BY <1>1, <1>8, <1>9, <1>10, <1>11, <1>12, <1>13 DEF CodexDone, Promise!Next

LEMMA CodexStep ==
    ASSUME CodexInv, Codex!Next
    PROVE  CodexDone
<1> USE DEF CodexInv, PromiseTypes
<1>1. CASE Codex!Cancel
  <2>1. /\ aborted' = TRUE /\ Codex!NoDecision /\ start # "thrown"
        /\ UNCHANGED <<start, started, work, report, outcome, step, cached, scout, link, wire, turn>>
        /\ \/ start = "returned" /\ pending' = pending \cup Codex!Interrupts
              /\ owed' = owed \cup Codex!Interrupts
           \/ UNCHANGED <<pending, owed>>
    BY <1>1 DEF Codex!Cancel
  <2>2. CodexCalls'
    BY <2>1 DEF CodexCalls, Early, Codex!Calls, Codex!Interrupts
  <2> QED
    BY <2>1, <2>2, CodexPasses
<1>2. CASE Codex!ForcedClose
  <2>1. /\ aborted /\ start = "returned" /\ Codex!Finish("cancelled")
        /\ UNCHANGED <<start, started, aborted, work, report, step, cached, scout, link, pending,
                       owed, wire, turn>>
    BY <1>2 DEF Codex!ForcedClose
  <2>2. CodexCalls'
    BY <2>1 DEF CodexCalls, Early
  <2> QED
    BY <2>1, <2>2, CodexStops
<1>3. ASSUME NEW r \in Requests, Codex!GatewayDecides(r) PROVE CodexDone
  <2> DEFINE part == Head(request[r].todo)
  <2>1. PICK v \in {"no", "once", "session"} :
            /\ v # "no" => outcome = None
            /\ Codex!Decide([request EXCEPT ![r] = Codex!Judged(request[r], v)],
                            [verdict EXCEPT ![<<r, part>>] = v])
    BY <1>3 DEF Codex!GatewayDecides, Codex!Yes
  <2>2. /\ request[r].phase = "deciding"
        /\ UNCHANGED <<start, started, aborted, work, report, outcome, step, cached, scout, link,
                       pending, owed, wire, turn>>
    BY <1>3 DEF Codex!GatewayDecides
  <2>3. part \in Parts
    <3>1. request[r] \in RequestTypes /\ request[r].todo # <<>>
      BY <2>2 DEF CodexRequests, RequestSound
    <3> QED
      BY <3>1, Taken DEF RequestTypes
  <2> DEFINE n == Codex!Judged(request[r], v)
             known == [verdict EXCEPT ![<<r, part>>] = v]
  <2>4. Codex!Decide([request EXCEPT ![r] = n], known) /\ n = Codex!Judged(request[r], v)
    BY <2>1
  <2>5. part = Head(request[r].todo)
    OBVIOUS
  <2> HIDE DEF part
  <2>6. /\ known \in [Questions -> Verdicts]
        /\ \A p \in Parts : known[<<r, p>>] = IF p = part THEN v ELSE verdict[<<r, p>>]
        /\ \A q \in Requests \ {r} : \A p \in Parts : known[<<q, p>>] = verdict[<<q, p>>]
    BY <2>3, Asked DEF Verdicts
  <2> HIDE DEF n, known
  <2>7. \A p \in Parts :
            \/ known[<<r, p>>] = verdict[<<r, p>>] /\ (v # "no" => p # Head(request[r].todo))
            \/ known[<<r, p>>] = v /\ p = Head(request[r].todo)
    BY <2>5, <2>6
  <2>8. RequestChange(r, n, known)
    BY <2>1, <2>2, <2>4, <2>7, RequestJudged
  <2> QED
    BY <2>2, <2>4, <2>6, <2>8, CodexHandles
<1> QED
  BY <1>1, <1>2, <1>3, CodexScouts, CodexBegins, CodexChild, CodexReadsAnswer, CodexReadsNotice,
     CodexTimers, CodexLoses, CodexRejects
  DEF Codex!Next, Codex!Reads

-----------------------------------------------------------------------------
(* The theorems.                                                           *)

\* A run is its adapter's, and what is another's stays as it was.
ProviderInv ==
    /\ agent \in {"codex", "claude", "fake"}
    /\ agent = "codex" => CodexInv
    /\ agent = "claude" => ClaudeInv
    /\ agent = "fake" => FakeInv
    /\ agent # "codex" => request = [r \in Requests |-> Codex!Idle]

LEMMA ProviderStarts ==
    ASSUME Init
    PROVE  ProviderInv /\ Promise!Init
<1> USE DEF Init
<1>1. Promise!Init /\ agent \in {"codex", "claude", "fake"}
  BY ProvidersAssumption
<1>2. PromiseTypes
  BY <1>1 DEF Promise!Init, PromiseTypes, Verdicts
<1>3. CodexInv
  <2>1. CodexWire
    BY DEF CodexWire, Codex!Init
  <2>2. CodexCalls
    BY <1>1 DEF CodexCalls, Codex!Init, Promise!Init, Early, Codex!Interrupts, Codex!Calls
  <2>3. Codex!Idle \in RequestTypes
    BY DEF Codex!Idle, RequestTypes
  <2>4. request \in [Requests -> RequestTypes] /\ scope \in [Requests -> {None, "once", "session"}]
    BY <2>3 DEF Codex!Init
  <2>5. ASSUME NEW r \in Requests PROVE RequestSound(r)
    <3>1. request[r] = Codex!Idle /\ scope[r] = None
      BY DEF Codex!Init
    <3>2. \A p \in Parts : verdict[<<r, p>>] = "unasked" /\ told[<<r, p>>] = "nothing"
      BY <1>1, Asked DEF Promise!Init
    <3> QED
      BY <3>1, <3>2, ProvidersAssumption DEF RequestSound, Codex!Idle
  <2> QED
    BY <1>2, <2>1, <2>2, <2>4, <2>5 DEF CodexInv, CodexRequests
<1>4. ClaudeInv
  <2>1. \A r \in Requests : <<r, "command">> \in Questions
    BY DEF Questions
  <2> QED
    BY <1>1, <1>2, <2>1
    DEF ClaudeInv, ClaudeFeed, ClaudeEnds, ClaudeHooks, Claude!Init, Promise!Init
<1>5. agent = "fake" => FakeInv
  <2>1. \A r \in Requests : <<r, "command">> \in Questions
    BY DEF Questions
  <2>2. FakeScript(script)
    <3>1. script \in Scripts
      BY DEF Fake!Init
    <3>2. /\ script \in Seq(FakeSteps)
          /\ \A i, j \in DOMAIN script : script[i] = script[j] /\ script[i] \in Requests => i = j
      BY <3>1, ProvidersAssumption DEF FakeSteps
    <3>3. DOMAIN script = 1..Len(script)
      BY <3>2
    <3> QED
      BY <3>2, <3>3 DEF FakeScript
  <2> QED
    BY <1>1, <1>2, <2>1, <2>2 DEF FakeInv, FakeQuestions, FakeEnds, Fake!Init, Promise!Init
<1> QED
  BY <1>1, <1>3, <1>4, <1>5 DEF ProviderInv, Codex!Init

LEMMA ProviderSteps ==
    ASSUME ProviderInv, [Next]_vars
    PROVE  ProviderInv' /\ [Promise!Next]_Promise!vars /\ [Ungranted]_vars
<1>1. CASE InCodex(Codex!Next)
  BY <1>1, CodexStep DEF InCodex, CodexDone, ProviderInv
<1>2. ASSUME agent # "codex", UNCHANGED <<agent, ofCodex>>
      PROVE  UNCHANGED <<agent, request>> /\ Ungranted
  <2>1. UNCHANGED <<agent, request>>
    BY <1>2 DEF ofCodex
  <2>2. \A r \in Requests : ~request[r].withdrawn
    BY <1>2 DEF ProviderInv, Codex!Idle
  <2> QED
    BY <2>1, <2>2 DEF Ungranted
<1>3. CASE InClaude(Claude!Next)
  BY <1>2, <1>3, ClaudeStep DEF InClaude, ProviderInv, Codex!Idle
<1>4. CASE InFake(Fake!Next)
  BY <1>2, <1>4, FakeStep DEF InFake, ProviderInv, Codex!Idle
<1>5. CASE UNCHANGED vars
  <2>1. UNCHANGED <<agent, start, started, aborted, work, report, outcome, verdict, told,
            step, cached, scout, child, link, pending, owed, wire, turn, request, scope,
            stream, feed, result, hook, interrupts, script, waits, cancelled>>
    BY <1>5 DEF vars, promise, ofCodex, ofClaude, ofFake
  <2>2. UNCHANGED Promise!vars /\ Ungranted
    BY <2>1 DEF Promise!vars, Ungranted
  <2>3. PromiseTypes' <=> PromiseTypes
    BY <2>1 DEF PromiseTypes
  <2>4. CodexInv => CodexInv'
    BY <2>1, <2>3 DEF CodexInv, CodexWire, CodexCalls, CodexRequests, RequestSound, Codex!Refused,
                      Codex!Idle, Early
  <2>5. ClaudeInv => ClaudeInv'
    BY <2>1, <2>3 DEF ClaudeInv, ClaudeFeed, ClaudeEnds, ClaudeHooks
  <2>6. FakeInv => FakeInv'
    BY <2>1, <2>3 DEF FakeInv, FakeScript, FakeQuestions, FakeEnds
  <2> QED
    BY <2>1, <2>2, <2>4, <2>5, <2>6 DEF ProviderInv, Codex!Idle
<1> QED
  BY <1>1, <1>3, <1>4, <1>5 DEF Next, Over

LEMMA ProviderInvariance == Spec => []ProviderInv
<1>1. Init => ProviderInv
  BY ProviderStarts
<1>2. ProviderInv /\ [Next]_vars => ProviderInv'
  BY ProviderSteps
<1> QED
  BY <1>1, <1>2, PTL DEF Spec

\* Refinement: every run of every adapter is a run the gateway's promise allows: `done` and
\* start() settle once and truthfully, a question is put and answered once, and a yes
\* reaches the agent only as the gateway's verdict and before the end.
THEOREM ContractHolds == Spec => Contract
<1>1. Init => Promise!Init
  BY ProviderStarts
<1>2. ProviderInv /\ [Next]_vars => [Promise!Next]_Promise!vars
  BY ProviderSteps
<1> QED
  BY <1>1, <1>2, ProviderInvariance, PTL DEF Spec, Contract, Promise!Spec

\* A request Codex withdrew, or the end closed, is never granted, and answered only by the
\* decline of a failed decide() for a later part of it (index.ts:523, 607, 635).
THEOREM WithdrawnUngrantedHolds == Spec => WithdrawnUngranted
<1>1. ProviderInv /\ [Next]_vars => [Ungranted]_vars
  BY ProviderSteps
<1> QED
  BY <1>1, ProviderInvariance, PTL DEF Spec, WithdrawnUngranted, Ungranted

\* What Codex is granted was understood as a whole, and is granted for the session only if
\* the gateway allowed every part of it for the session.
THEOREM GrantsExactHolds == Spec => []GrantsExact
<1>1. ProviderInv => GrantsExact
  <2> SUFFICES ASSUME ProviderInv PROVE GrantsExact
    OBVIOUS
  <2>1. CASE agent = "codex"
    <3>1. \A r \in Requests : RequestSound(r)
      BY <2>1 DEF ProviderInv, CodexInv, CodexRequests
    <3>2. ASSUME NEW r \in Requests
          PROVE  /\ request[r].demand # None /\ request[r].granted # {} =>
                        \A e \in request[r].demand.entries :
                            e.target # "special" /\ e.access \in {"read", "write", "deny"}
                 /\ scope[r] = "session" =>
                        \A p \in request[r].granted : verdict[<<r, p>>] = "session"
      BY <3>1 DEF RequestSound, Codex!Refused
    <3> QED
      BY <3>2 DEF GrantsExact
  <2>2. CASE agent # "codex"
    <3>1. \A r \in Requests : request[r].granted = {}
      BY <2>2 DEF ProviderInv, Codex!Idle
    <3> QED
      BY <3>1 DEF GrantsExact
  <2> QED
    BY <2>1, <2>2
<1> QED
  BY <1>1, ProviderInvariance, PTL

===============================================================================
