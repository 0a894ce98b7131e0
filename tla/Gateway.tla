------------------------------- MODULE Gateway -------------------------------
(***************************************************************************)
(* The engine of the daemon: core/gateway.ts with core/parking.ts, and     *)
(* the part of the store, the agents and the command line that acts on     *)
(* the same records.                                                       *)
(*                                                                         *)
(* The daemon is one Node process, so an action is one macrotask: a        *)
(* request handler, a timer or a provider callback, together with every    *)
(* microtask it lets run (the pump queued by afterCommit, the              *)
(* continuations of drained decide() calls, the cleanup of execute()).     *)
(* Interleaving happens where the code awaits something outside:           *)
(* provider.start, handle.done, handle.interrupt, decider.decide, a parked *)
(* operation, a timer.  A second process (the command line) removes        *)
(* workspaces in the same database, and the daemon may crash anywhere.     *)
(***************************************************************************)
EXTENDS Integers, FiniteSets

CONSTANTS
    NumRuns,         \* bound: how many runs are ever submitted
    Sessions,        \* bound: the sessions that may be created
    Claude,          \* those whose agent is claude; the others' is codex
    Workspaces,      \* the folders that are enrolled at first
    Removable,       \* bound: those the command line may remove
    Ops,             \* bound: the operations agents ask about
    MaxConcurrent,   \* config.run.maxConcurrent
    MaxQueued,       \* maxQueued, 100 in daemon.ts
    StorageMayFail,  \* can writing streamed output fail? (a fault to inject)
    MayLinger,       \* can an agent outlive the end of its run? (a fault to inject)
    None             \* no session, no workspace

ASSUME GatewayAssumption ==
    /\ NumRuns \in Nat
    /\ MaxConcurrent \in Nat \ {0}
    /\ MaxQueued \in Nat
    /\ StorageMayFail \in BOOLEAN
    /\ MayLinger \in BOOLEAN
    /\ None \notin Sessions \cup Workspaces
    /\ Removable \subseteq Workspaces
    /\ Claude \subseteq Sessions
    /\ IsFiniteSet(Ops)

Runs == 1..NumRuns   \* in the order they are created, which is rowid order
NoRun == 0

InFlightStates == {"starting", "running", "waiting_for_approval", "cancelling"}
ActiveStates == {"queued"} \cup InFlightStates
TerminalStates == {"succeeded", "failed", "cancelled", "outcome_unknown"}
RunStates == {"none", "removed"} \cup ActiveStates \cup TerminalStates
Decided == {"allowed", "denied"}

VARIABLES
    \* records in the database
    enrolled,      \* the workspaces that exist
    session,       \* state of every session record
    workspaceOf,   \* workspaceId of every session
    run,           \* state of every run record
    sessionOf,     \* sessionId of every run
    op,            \* state of every operation record, with the verdict once decided
    opRun,         \* runId of every operation
    tally,         \* operations.allowed and operations.denied of every run
    \* memory of the daemon
    daemon,        \* "up", "stopping" (shutdown() is running) or "down"
    worker,        \* what execute() of the run awaits: provider.start or handle.done
    aborted,       \* runs whose worker's AbortController fired
    handed,        \* runs whose provider said "started" (handedToAgent)
    deadline,      \* runs whose time-limit timer is armed
    interrupting,  \* runs for which cancel() awaits handle.interrupt()
    grace,         \* runs whose five-second grace timer is armed
    visited,       \* runs whose worker shutdown() already told to stop
    asking,        \* what decide() of the operation awaits: the decider or parking
    \* outside the daemon
    agent,         \* runs whose agent process is alive and not told to exit
    closing,       \* runs whose agent was told to exit (handle.close) and has not yet
    answer,        \* what the agent was told about each operation
    removing,      \* workspaces the command line found idle and is about to delete
    launched       \* history: runs ever given to provider.start

records == <<enrolled, session, workspaceOf, run, sessionOf>>
operations == <<op, opRun, tally, asking, answer>>
workers == <<worker, aborted, handed, deadline, interrupting, grace>>
vars == <<records, operations, workers, daemon, visited, agent, closing, removing, launched>>

-----------------------------------------------------------------------------
(* Reading the records and the worker map.                                 *)

Workers == {r \in Runs : worker[r] # "none"}
Queued == {r \in Runs : run[r] = "queued"}
RunsOf(s) == {r \in Runs : sessionOf[r] = s}
Over(r) == run[r] \in TerminalStates \cup {"removed"}

\* Slip: the count forgets runs still queued.
BusyInFlight(s) == \E r \in RunsOf(s) : run[r] \in InFlightStates

\* The count of active runs that closeSession, removeWorkspace and retention take
\* before they act, and createRun too.
Busy(s) == \E r \in RunsOf(s) : run[r] \in ActiveStates

\* Slip: createRun looks for a worker instead of an active run.
FreeOfWorkers(s) == \A r \in RunsOf(s) : worker[r] = "none"

Free(s) == ~Busy(s)

\* Slip: only a run that is over is inactive, not one being cancelled.
InactiveWhenOver(r) == Over(r)

\* This worker may no longer act for the run.  The workerEpoch comparison is
\* always true here: an operation dies with the process whose worker asked it.
Inactive(r) == Over(r) \/ run[r] = "cancelling" \/ r \in aborted

\* Slips: the filter of drain() matches nothing; the expiry at the end of a run
\* takes every operation of the run.
ParkedNone(r) == {}
UndecidedAll(r) == {o \in Ops : opRun[o] = r}

\* What drain() selects through belongsTo().
Parked(r) == {o \in Ops : asking[o] = "parked" /\ opRun[o] = r}
Undecided(r) == {o \in Ops : op[o] \in {"deciding", "pending"} /\ opRun[o] = r}

-----------------------------------------------------------------------------
(* Pieces the handlers share.                                              *)

\* setState().
SetState(r, state) == IF Over(r) THEN run ELSE [run EXCEPT ![r] = state]

\* Slip: what the agent reports replaces how the run was ended before.
FinishAnyway(r, outcome) ==
    IF Over(r) /\ outcome = "outcome_unknown" THEN run ELSE [run EXCEPT ![r] = outcome]

\* finish(): the run record, unless it is already over.
Finish(r, outcome) == IF Over(r) THEN run ELSE [run EXCEPT ![r] = outcome]

\* Slip: the session of a lost run stays open.
AttentionNever(r, outcome) == session

\* finish(): a lost run leaves its session in need of attention.
Attention(r, outcome) ==
    IF Over(r) \/ outcome # "outcome_unknown" THEN session
    ELSE [session EXCEPT ![sessionOf[r]] = "attention_required"]

\* Slip: recovery ends the runs and forgets their sessions.
MarkLostNothing(lost) == session

\* finish() for several runs at once, when the process stops or takes over.
MarkLost(lost) ==
    [s \in Sessions |-> IF RunsOf(s) \cap lost # {} THEN "attention_required"
                        ELSE session[s]]

\* The continuation of decide() when a parked operation gets its answer: a run
\* that visibly waited goes back to running.
Unpark(st, D) ==
    [r \in Runs |-> IF /\ st[r] = "waiting_for_approval"
                       /\ \E o \in D : opRun[o] = r
                    THEN "running" ELSE st[r]]

\* Slip: a drain counts its refusals for every run.
OfAnyRun(D, r) == D

OfRun(D, r) == {o \in D : opRun[o] = r}

\* Slip: the parked entry and its timer are dropped, its promise never resolves.
RefuseUnheard(D, E) ==
    /\ op' = [o \in Ops |-> IF o \in E THEN "expired" ELSE op[o]]
    /\ UNCHANGED <<opRun, asking, answer, tally>>

\* Slip: the record is settled, but the agent not told nor the tally kept.
RefuseUntold(D, E) ==
    /\ op' = [o \in Ops |-> IF o \in D THEN "denied"
                            ELSE IF o \in E THEN "expired" ELSE op[o]]
    /\ asking' = [o \in Ops |-> IF o \in D THEN "idle" ELSE asking[o]]
    /\ UNCHANGED <<opRun, answer, tally>>

\* Parked operations D are refused without anybody's decision (drain or
\* time-out), each settled as a deny; undecided operations E expire.
Refuse(D, E) ==
    /\ op' = [o \in Ops |-> IF o \in D THEN "denied"
                            ELSE IF o \in E THEN "expired" ELSE op[o]]
    /\ asking' = [o \in Ops |-> IF o \in D THEN "idle" ELSE asking[o]]
    /\ answer' = [o \in Ops |-> IF o \in D THEN "deny" ELSE answer[o]]
    /\ tally' = [r \in Runs |->
                   [tally[r] EXCEPT !.denied =
                      @ + Cardinality(OfRun(D, r))]]
    /\ UNCHANGED opRun

Count(r, verdict) ==
    tally' = [tally EXCEPT ![r] =
                IF verdict = "allow"
                THEN [allowed |-> @.allowed + 1, denied |-> @.denied]
                ELSE [allowed |-> @.allowed, denied |-> @.denied + 1]]

\* Runs execute() can start now, oldest first: the session is open and the
\* workspace still enrolled.
Startable(st) ==
    {r \in Runs : /\ st[r] = "queued"
                  /\ session'[sessionOf'[r]] = "open"
                  /\ workspaceOf'[sessionOf'[r]] \in enrolled}

\* Slips: one slot too many; a slot counted as taken until the worker map forgets
\* the task; the newest run first.
ReachedTooMany(st, busy) ==
    {r \in Runs : /\ st[r] = "queued"
                  /\ Cardinality(busy) + Cardinality({q \in Startable(st) : q < r})
                       <= MaxConcurrent}
ReachedBeforeFree(st, busy) ==
    {r \in Runs : /\ st[r] = "queued"
                  /\ Cardinality(Workers) + Cardinality({q \in Startable(st) : q < r})
                       < MaxConcurrent}
ReachedNewestFirst(st, busy) ==
    {r \in Runs : /\ st[r] = "queued"
                  /\ Cardinality(busy) + Cardinality({q \in Startable(st) : q > r})
                       < MaxConcurrent}

\* How far one pump gets: a queued run is reached while a slot is free.  A run
\* that cannot start gives its slot back in the same macrotask.
Reached(st, busy) ==
    {r \in Runs : /\ st[r] = "queued"
                  /\ Cardinality(busy) + Cardinality({q \in Startable(st) : q < r})
                       < MaxConcurrent}

\* Slip: execute() returns without closing its handle.
ToldNobody(busy) == {}

\* The finally of execute() closes the handle of every task that is over.
ToldToExit(busy) == agent \cap (Workers \ busy)

\* close() is a SIGTERM, and two seconds later a SIGKILL: those told so may live on.
Lingering(told) == IF MayLinger THEN closing \cup told ELSE closing

\* pump() and the synchronous first part of execute(), on run records st while
\* the runs in busy hold a worker.  What belonged to other workers is forgotten, and
\* their agents are told to exit; the next run does not wait for them to be gone.
Pump(st, busy) ==
    LET reached == IF daemon' = "up" THEN Reached(st, busy) ELSE {}
        started == reached \cap Startable(st)
    IN  /\ run' = [r \in Runs |->
                     IF r \notin reached THEN st[r]
                     ELSE IF r \in started THEN "starting"
                     ELSE IF session'[sessionOf'[r]] = "open" THEN "failed"
                     ELSE "cancelled"]
        /\ worker' = [r \in Runs |-> IF r \in started THEN "launching"
                                     ELSE IF r \in busy THEN worker[r] ELSE "none"]
        /\ deadline' = (deadline \cap busy) \cup started
        /\ aborted' = aborted \cap busy
        /\ handed' = handed \cap busy
        /\ interrupting' = interrupting \cap busy
        /\ grace' = grace \cap busy
        /\ launched' = launched \cup started
        /\ agent' = (agent \ ToldToExit(busy)) \cup started
        /\ closing' = Lingering(ToldToExit(busy))

\* execute() returns: the run ends, its operations are refused or expire, its
\* handle is closed, its slot is freed and the next run starts.
EndTask(r, outcome) ==
    /\ session' = Attention(r, outcome)
    /\ Refuse(Parked(r), Undecided(r) \ Parked(r))
    /\ UNCHANGED <<enrolled, workspaceOf, sessionOf, daemon, visited, removing>>
    /\ Pump(Finish(r, outcome), Workers \ {r})

-----------------------------------------------------------------------------
Init ==
    /\ enrolled = Workspaces
    /\ session = [s \in Sessions |-> "none"]
    /\ workspaceOf = [s \in Sessions |-> None]
    /\ run = [r \in Runs |-> "none"]
    /\ sessionOf = [r \in Runs |-> None]
    /\ op = [o \in Ops |-> "none"]
    /\ opRun = [o \in Ops |-> NoRun]
    /\ tally = [r \in Runs |-> [allowed |-> 0, denied |-> 0]]
    /\ daemon = "up"
    /\ worker = [r \in Runs |-> "none"]
    /\ aborted = {} /\ handed = {} /\ deadline = {} /\ interrupting = {} /\ grace = {}
    /\ visited = {}
    /\ asking = [o \in Ops |-> "idle"]
    /\ agent = {} /\ closing = {}
    /\ answer = [o \in Ops |-> "none"]
    /\ removing = {}
    /\ launched = {}

-----------------------------------------------------------------------------
(* Requests.  The server answers until shutdown() is over.                 *)

Serving == daemon # "down"

NewSession(s, w) ==
    /\ session[s] = "none"
    /\ w \in enrolled
    /\ session' = [session EXCEPT ![s] = "open"]
    /\ workspaceOf' = [workspaceOf EXCEPT ![s] = w]

CreateSession(s, w) ==
    /\ Serving
    /\ NewSession(s, w)
    /\ UNCHANGED <<enrolled, run, sessionOf, operations, workers, daemon, visited,
                   agent, closing, removing, launched>>

CloseSession(s) ==
    /\ Serving
    /\ session[s] \in {"open", "attention_required"}
    /\ ~Busy(s)
    /\ session' = [session EXCEPT ![s] = "closed"]
    /\ UNCHANGED <<enrolled, workspaceOf, run, sessionOf, operations, workers, daemon,
                   visited, agent, closing, removing, launched>>

\* createRun() refuses while shutting down, on a session that is not open or
\* busy, and when the queue is full; the new session of a refused run is rolled
\* back with it.
CreateRun(r, s) ==
    /\ daemon = "up"
    /\ run[r] = "none" /\ \A q \in 1..(r - 1) : run[q] # "none"
    /\ \/ session[s] = "open" /\ UNCHANGED <<session, workspaceOf>>
       \/ \E w \in Workspaces : NewSession(s, w)
    /\ Free(s)
    /\ Cardinality(Queued) < MaxQueued
    /\ sessionOf' = [sessionOf EXCEPT ![r] = s]
    /\ UNCHANGED <<enrolled, operations, daemon, visited, removing>>
    /\ Pump([run EXCEPT ![r] = "queued"], Workers)

\* cancel() of a run no worker owns, which for an active run means a queued one.
CancelQueued(r) ==
    /\ Serving
    /\ run[r] \in ActiveStates /\ worker[r] = "none"
    /\ run' = Finish(r, "cancelled")
    /\ UNCHANGED <<enrolled, session, workspaceOf, sessionOf, operations, workers,
                   daemon, visited, agent, closing, removing, launched>>

\* The rest of cancel(): parked questions are refused, the worker's signal fires
\* and the agent is asked to stop.  The grace timer is set when interrupt()
\* returns, at once if provider.start has not given a handle yet.
StopWorker(r) ==
    /\ run' = [run EXCEPT ![r] = "cancelling"]
    /\ Refuse(Parked(r), {})
    /\ aborted' = aborted \cup {r}
    /\ IF worker[r] = "working"
       THEN interrupting' = interrupting \cup {r} /\ UNCHANGED grace
       ELSE grace' = grace \cup {r} /\ UNCHANGED interrupting

CancelRunning(r) ==
    /\ Serving
    /\ run[r] \in ActiveStates \ {"queued"} /\ worker[r] # "none"
    /\ StopWorker(r)
    /\ UNCHANGED <<enrolled, session, workspaceOf, sessionOf, worker, handed, deadline,
                   daemon, visited, agent, closing, removing, launched>>

\* resolve(): a person or an extension answers a parked operation, and decide()
\* continues.  An allow for a run that may no longer act is recorded and not
\* passed on.
Resolve(o, verdict) ==
    LET r == opRun[o] IN
    /\ Serving
    /\ op[o] = "pending" /\ asking[o] = "parked"
    /\ op' = [op EXCEPT ![o] = IF verdict = "allow" THEN "allowed" ELSE "denied"]
    /\ asking' = [asking EXCEPT ![o] = "idle"]
    /\ IF verdict = "allow" /\ Inactive(r)
       THEN /\ answer' = [answer EXCEPT ![o] = "deny"]
            /\ UNCHANGED <<tally, run>>
       ELSE /\ answer' = [answer EXCEPT ![o] = verdict]
            /\ Count(r, verdict)
            /\ run' = Unpark(run, {o})
    /\ UNCHANGED <<enrolled, session, workspaceOf, sessionOf, opRun, workers, daemon,
                   visited, agent, closing, removing, launched>>

\* retention() removes a session past its window with everything in it, unless a
\* run of it is active.
RemoveSession(s) ==
    LET gone == RunsOf(s) IN
    /\ session[s] \notin {"none", "removed"}
    /\ ~Busy(s)
    /\ session' = [session EXCEPT ![s] = "removed"]
    /\ run' = [r \in Runs |-> IF r \in gone THEN "removed" ELSE run[r]]
    /\ op' = [o \in Ops |-> IF opRun[o] \in gone /\ op[o] # "none"
                            THEN "removed" ELSE op[o]]
    /\ UNCHANGED <<enrolled, workspaceOf, sessionOf, opRun, tally, asking, answer,
                   workers, daemon, visited, agent, closing, removing, launched>>

\* The daemon's own sweep also spares what a worker still holds.
Retention(s) ==
    /\ Serving
    /\ RunsOf(s) \cap Workers = {}
    /\ RemoveSession(s)

-----------------------------------------------------------------------------
(* The provider's side of a run.                                           *)

\* The "started" event: codex sends it while starting, claude when its stream opens.
\* Events of a run that is over are ignored.
ProviderStarted(r) ==
    /\ Serving
    /\ worker[r] # "none" /\ r \in agent \ handed /\ ~Over(r)
    /\ handed' = handed \cup {r}
    /\ run' = SetState(r, "running")
    /\ UNCHANGED <<enrolled, session, workspaceOf, sessionOf, operations, worker, aborted,
                   deadline, interrupting, grace, daemon, visited, agent, closing, removing, launched>>

\* provider.start resolves.  A run cancelled meanwhile is closed and ends.
StartReturns(r) ==
    /\ Serving
    /\ worker[r] = "launching"
    /\ IF r \in aborted
       THEN EndTask(r, "cancelled")
       ELSE /\ worker' = [worker EXCEPT ![r] = "working"]
            /\ UNCHANGED <<records, operations, aborted, handed, deadline, interrupting,
                           grace, daemon, visited, agent, closing, removing, launched>>

\* provider.start or handle.done rejects, or flushing the last output throws.
TaskFails(r) ==
    /\ Serving
    /\ worker[r] # "none"
    /\ EndTask(r, IF r \in aborted THEN "cancelled"
                  ELSE IF r \in handed THEN "outcome_unknown" ELSE "failed")

\* handle.done resolves.  A provider reports a lost agent as unknown only if the
\* agent had the work and nobody had asked to stop it.
Done(r, outcome) ==
    /\ Serving
    /\ worker[r] = "working"
    /\ outcome = "succeeded" => r \in handed
    /\ outcome = "outcome_unknown" => r \in handed \ aborted
    /\ EndTask(r, outcome)

\* The output batcher's timer cannot write: the run is ended, its agent is not.
StorageFails(r) ==
    /\ StorageMayFail
    /\ Serving
    /\ r \in handed /\ worker[r] # "none" /\ ~Over(r)
    /\ run' = Finish(r, "failed")
    /\ Refuse(Parked(r), {})
    /\ UNCHANGED <<enrolled, session, workspaceOf, sessionOf, workers, daemon, visited,
                   agent, closing, removing, launched>>

-----------------------------------------------------------------------------
(* Timers.                                                                 *)

\* The time limit calls cancel(), which does nothing for a run that is over.
Deadline(r) ==
    /\ Serving
    /\ r \in deadline /\ run[r] # "removed"
    /\ deadline' = deadline \ {r}
    /\ IF Over(r)
       THEN UNCHANGED <<run, operations, aborted, interrupting, grace>>
       ELSE StopWorker(r)
    /\ UNCHANGED <<enrolled, session, workspaceOf, sessionOf, worker, handed, daemon,
                   visited, agent, closing, removing, launched>>

\* Slip: cancel() trusts the interrupt and sets no grace timer.
InterruptTrusted(r) ==
    /\ Serving
    /\ r \in interrupting
    /\ interrupting' = interrupting \ {r}
    /\ UNCHANGED <<records, operations, worker, aborted, handed, deadline, grace, daemon,
                   visited, agent, closing, removing, launched>>

\* handle.interrupt() returns to cancel().
InterruptReturns(r) ==
    /\ Serving
    /\ r \in interrupting
    /\ interrupting' = interrupting \ {r}
    /\ grace' = grace \cup {r}
    /\ UNCHANGED <<records, operations, worker, aborted, handed, deadline, daemon,
                   visited, agent, closing, removing, launched>>

\* The grace timer.  Closing the handle makes its done resolve, so execute()
\* returns in the same macrotask; without a handle the agent is left starting.
GraceExpires(r) ==
    /\ Serving
    /\ r \in grace
    /\ \/ /\ worker[r] = "working"
          /\ EndTask(r, "cancelled")
       \/ /\ worker[r] = "launching"
          /\ grace' = grace \ {r}
          /\ run' = Finish(r, "cancelled")
          /\ Refuse(Parked(r), {})
          /\ UNCHANGED <<enrolled, session, workspaceOf, sessionOf, worker, aborted,
                         handed, deadline, interrupting, daemon, visited, agent, closing,
                         removing, launched>>

-----------------------------------------------------------------------------
(* decide(): the only place a permission question is answered.             *)

Ask(r, o) ==
    /\ worker[r] # "none" /\ r \in agent
    /\ r \in handed \/ Over(r)
    /\ opRun[o] = NoRun
    /\ opRun' = [opRun EXCEPT ![o] = r]
    /\ UNCHANGED <<records, workers, daemon, visited, agent, closing, removing, launched>>

\* A question on behalf of a run that is over is refused and not recorded.
AskInactive(r, o) ==
    /\ Serving
    /\ Inactive(r)
    /\ Ask(r, o)
    /\ answer' = [answer EXCEPT ![o] = "deny"]
    /\ UNCHANGED <<op, tally, asking>>

\* The workspace boundary refuses before any rule runs.
AskOutside(r, o) ==
    /\ Serving
    /\ ~Inactive(r)
    /\ Ask(r, o)
    /\ op' = [op EXCEPT ![o] = "denied"]
    /\ answer' = [answer EXCEPT ![o] = "deny"]
    /\ Count(r, "deny")
    /\ UNCHANGED asking

AskDecider(r, o) ==
    /\ Serving
    /\ ~Inactive(r)
    /\ Ask(r, o)
    /\ op' = [op EXCEPT ![o] = "deciding"]
    /\ asking' = [asking EXCEPT ![o] = "decider"]
    /\ UNCHANGED <<tally, answer>>

\* settle() after the decider: a deny (or a decider that throws) is recorded even
\* if the run is over by now, unless retention removed the record.
DeciderSettles(o, verdict) ==
    /\ op' = [op EXCEPT ![o] = IF @ = "removed" THEN @
                               ELSE IF verdict = "allow" THEN "allowed" ELSE "denied"]
    /\ answer' = [answer EXCEPT ![o] = verdict]
    /\ IF op[o] = "removed" THEN UNCHANGED tally ELSE Count(opRun[o], verdict)
    /\ UNCHANGED run

\* The decider took its time: anything but a deny for a run that is over becomes
\* a refusal nobody records.
DeciderTooLate(o) ==
    /\ answer' = [answer EXCEPT ![o] = "deny"]
    /\ UNCHANGED <<op, tally, run>>

DeciderAnswers(o, verdict) ==
    /\ Serving
    /\ asking[o] = "decider"
    /\ asking' = [asking EXCEPT ![o] = "idle"]
    /\ IF verdict = "allow" /\ Inactive(opRun[o])
       THEN DeciderTooLate(o) ELSE DeciderSettles(o, verdict)
    /\ UNCHANGED <<enrolled, session, workspaceOf, sessionOf, opRun, workers, daemon,
                   visited, agent, closing, removing, launched>>

\* The decider says ask: the operation parks and the run visibly waits.
DeciderAsks(o) ==
    LET r == opRun[o] IN
    /\ Serving
    /\ asking[o] = "decider"
    /\ IF Inactive(r)
       THEN /\ asking' = [asking EXCEPT ![o] = "idle"]
            /\ DeciderTooLate(o)
       ELSE /\ asking' = [asking EXCEPT ![o] = "parked"]
            /\ op' = [op EXCEPT ![o] = "pending"]
            /\ run' = [run EXCEPT ![r] = "waiting_for_approval"]
            /\ UNCHANGED <<answer, tally>>
    /\ UNCHANGED <<enrolled, session, workspaceOf, sessionOf, opRun, workers, daemon,
                   visited, agent, closing, removing, launched>>

\* The parking timer: no decision arrived, so the operation is refused.
ParkTimeout(o) ==
    /\ Serving
    /\ asking[o] = "parked"
    /\ Refuse({o}, {})
    /\ run' = Unpark(run, {o})
    /\ UNCHANGED <<enrolled, session, workspaceOf, sessionOf, workers, daemon, visited,
                   agent, closing, removing, launched>>

-----------------------------------------------------------------------------
(* The life of the process, and the command line beside it.                *)

\* The loop of shutdown() tells workers to stop oldest first and awaits each
\* interrupt; a worker without a handle has none, so the loop passes it by at once.
NextVisits(seen) ==
    {r \in Workers \ seen :
        \A q \in Workers \ seen : q < r => worker[q] = "launching"}

Visit(st, batch) ==
    /\ run' = [r \in Runs |-> IF r \in batch /\ ~Over(r) THEN "cancelling" ELSE st[r]]
    /\ aborted' = aborted \cup batch
    /\ visited' = visited \cup batch
    /\ daemon' = "stopping"
    /\ UNCHANGED <<enrolled, session, workspaceOf, sessionOf, worker, handed,
                   interrupting, grace, agent, closing, removing, launched>>

\* shutdown() starts: everything parked is refused, then the loop begins.
BeginShutdown ==
    LET parked == {o \in Ops : asking[o] = "parked"} IN
    /\ daemon = "up"
    /\ Refuse(parked, {})
    /\ Visit(Unpark(run, parked), NextVisits({}))

\* A signal, or a fatal error anywhere in the process.
Shutdown ==
    /\ BeginShutdown
    /\ UNCHANGED deadline

\* The time limit of a run whose record was pruned: cancel() rejects, nobody handles
\* that, and the handler for unhandled rejections stops the daemon.
DeadlineRejects(r) ==
    /\ r \in deadline /\ run[r] = "removed"
    /\ deadline' = deadline \ {r}
    /\ \/ BeginShutdown
       \/ /\ daemon = "stopping"
          /\ UNCHANGED <<records, operations, worker, aborted, handed, interrupting, grace,
                         daemon, visited, agent, closing, removing, launched>>

ShutdownVisits ==
    /\ daemon = "stopping"
    /\ NextVisits(visited) # {}
    /\ Visit(run, NextVisits(visited))
    /\ UNCHANGED <<operations, deadline>>

ForgetMemory ==
    /\ daemon' = "down"
    /\ worker' = [r \in Runs |-> "none"]
    /\ aborted' = {} /\ handed' = {} /\ deadline' = {} /\ interrupting' = {}
    /\ grace' = {} /\ visited' = {}
    /\ UNCHANGED <<enrolled, workspaceOf, sessionOf, removing, launched>>

\* All tasks settled or the five seconds are over: what still has a worker is
\* closed and ends unknown, and the process exits.
ShutdownEnds ==
    LET left == {r \in Workers : ~Over(r)}
        drained == UNION {Parked(r) : r \in left}
        closed == {r \in Workers : worker[r] = "working"}
    IN  /\ daemon = "stopping"
        /\ NextVisits(visited) = {}
        /\ run' = [r \in Runs |-> IF r \in left THEN "outcome_unknown" ELSE run[r]]
        /\ session' = MarkLost(left)
        /\ op' = [o \in Ops |-> IF o \in drained THEN "denied"
                                ELSE IF o \in UNION {Undecided(r) : r \in closed}
                                THEN "expired" ELSE op[o]]
        /\ tally' = [r \in Runs |-> [tally[r] EXCEPT !.denied =
                       @ + Cardinality(OfRun(drained, r))]]
        /\ answer' = [o \in Ops |-> IF o \in drained THEN "deny" ELSE answer[o]]
        /\ asking' = [o \in Ops |-> "idle"]
        /\ agent' = agent \ closed
        /\ closing' = Lingering(agent \cap closed)
        /\ ForgetMemory
        /\ UNCHANGED opRun

\* The process dies anywhere.  Agents outlive it for a while.
Crash ==
    /\ Serving
    /\ asking' = [o \in Ops |-> "idle"]
    /\ ForgetMemory
    /\ UNCHANGED <<session, run, op, opRun, tally, answer, agent, closing>>

\* The process dies in the middle of resolve(): the decision is on record, and neither
\* decide(), which counts it a microtask later, nor the agent has heard of it.
KilledInResolve(o, verdict) ==
    /\ Serving
    /\ op[o] = "pending" /\ asking[o] = "parked"
    /\ op' = [op EXCEPT ![o] = IF verdict = "allow" THEN "allowed" ELSE "denied"]
    /\ asking' = [p \in Ops |-> "idle"]
    /\ ForgetMemory
    /\ UNCHANGED <<session, run, opRun, tally, answer, agent, closing>>

\* Slips: recovery overlooks runs being cancelled; ends runs in a state that is none
\* of RunState.
LostUnlessCancelling == {r \in Runs : run[r] \in InFlightStates \ {"cancelling"}}
RecoveredInterrupted ==
    [r \in Runs |-> IF run[r] \in InFlightStates THEN "interrupted" ELSE run[r]]

\* recover() finds the runs that were mid-flight and ends them as unknown.
Lost == {r \in Runs : run[r] \in InFlightStates}

Recovered == [r \in Runs |-> IF r \in Lost THEN "outcome_unknown" ELSE run[r]]

\* Slip: recovery puts what was in flight back in the queue.
RestartReplaying ==
    /\ daemon = "down"
    /\ daemon' = "up"
    /\ UNCHANGED <<enrolled, session, workspaceOf, sessionOf, operations, visited, removing>>
    /\ Pump([r \in Runs |-> IF r \in Lost THEN "queued" ELSE run[r]], {})

\* The next process takes over the database: recover(), then its pump.
Restart ==
    /\ daemon = "down"
    /\ daemon' = "up"
    /\ session' = MarkLost(Lost)
    /\ op' = [o \in Ops |-> IF op[o] \in {"pending", "deciding"} THEN "expired" ELSE op[o]]
    /\ UNCHANGED <<enrolled, workspaceOf, sessionOf, opRun, tally, asking, answer,
                   visited, removing>>
    /\ Pump(Recovered, {})

\* An agent whose daemon is gone notices and exits.
OrphanExits(r) ==
    /\ r \in agent /\ worker[r] = "none"
    /\ agent' = agent \ {r}
    /\ UNCHANGED <<records, operations, workers, daemon, visited, closing, removing, launched>>

\* An agent that was told to exit is gone at last: of its own accord, or killed two
\* seconds later if the daemon still lives.
AgentExits(r) ==
    /\ r \in closing
    /\ closing' = closing \ {r}
    /\ UNCHANGED <<records, operations, workers, daemon, visited, agent, removing, launched>>

\* `portrail workspace remove` in a process of its own: the check and the delete
\* are separate statements, so the daemon may act in between.
RemoveWorkspaceCheck(w) ==
    /\ w \in (enrolled \cap Removable) \ removing
    /\ \A s \in Sessions : session[s] = "open" /\ workspaceOf[s] = w => ~Busy(s)
    /\ removing' = removing \cup {w}
    /\ UNCHANGED <<records, operations, workers, daemon, visited, agent, closing, launched>>

RemoveWorkspaceDelete(w) ==
    /\ w \in removing
    /\ removing' = removing \ {w}
    /\ enrolled' = enrolled \ {w}
    /\ UNCHANGED <<session, workspaceOf, run, sessionOf, operations, workers, daemon,
                   visited, agent, closing, launched>>

\* `portrail prune` runs retention() in a process of its own, which has no workers.
Prune(s) == RemoveSession(s)

-----------------------------------------------------------------------------
Requests ==
    \/ \E s \in Sessions, w \in Workspaces : CreateSession(s, w)
    \/ \E s \in Sessions : CloseSession(s)
    \/ \E r \in Runs, s \in Sessions : CreateRun(r, s)
    \/ \E r \in Runs : CancelQueued(r)
    \/ \E r \in Runs : CancelRunning(r)
    \/ \E o \in Ops, verdict \in {"allow", "deny"} : Resolve(o, verdict)
    \/ \E s \in Sessions : Retention(s)

ProviderSteps ==
    \/ \E r \in Runs : ProviderStarted(r)
    \/ \E r \in Runs : StartReturns(r)
    \/ \E r \in Runs : TaskFails(r)
    \/ \E r \in Runs, outcome \in TerminalStates : Done(r, outcome)
    \/ \E r \in Runs : StorageFails(r)

Timers ==
    \/ \E r \in Runs : Deadline(r)
    \/ \E r \in Runs : InterruptReturns(r)
    \/ \E r \in Runs : GraceExpires(r)
    \/ \E o \in Ops : ParkTimeout(o)

Decisions ==
    \/ \E r \in Runs, o \in Ops : AskInactive(r, o)
    \/ \E r \in Runs, o \in Ops : AskOutside(r, o)
    \/ \E r \in Runs, o \in Ops : AskDecider(r, o)
    \/ \E o \in Ops, verdict \in {"allow", "deny"} : DeciderAnswers(o, verdict)
    \/ \E o \in Ops : DeciderAsks(o)

Process ==
    \/ Shutdown
    \/ \E r \in Runs : DeadlineRejects(r)
    \/ ShutdownVisits
    \/ ShutdownEnds
    \/ Crash
    \/ \E o \in Ops, verdict \in {"allow", "deny"} : KilledInResolve(o, verdict)
    \/ Restart
    \/ \E r \in Runs : OrphanExits(r)
    \/ \E r \in Runs : AgentExits(r)
    \/ \E w \in Workspaces : RemoveWorkspaceCheck(w)
    \/ \E w \in Workspaces : RemoveWorkspaceDelete(w)
    \/ \E s \in Sessions : Prune(s)

Next == Requests \/ ProviderSteps \/ Timers \/ Decisions \/ Process

Spec == Init /\ [][Next]_vars

\* A shutdown goes on, or is cut short by the hard exit ten seconds into it.
Stopping == daemon = "stopping" /\ (ShutdownVisits \/ ShutdownEnds \/ Crash)

\* Timers fire, provider.start returns within its own time-outs, a decider answers,
\* and a shutdown ends.  Nothing is assumed of the agent, of people, or of who
\* restarts the daemon.
Fairness ==
    /\ \A r \in Runs : /\ WF_vars(Deadline(r))
                       /\ WF_vars(DeadlineRejects(r))
                       /\ WF_vars(GraceExpires(r))
                       /\ WF_vars(StartReturns(r))
    /\ \A o \in Ops : /\ WF_vars(ParkTimeout(o))
                      /\ WF_vars(DeciderAnswers(o, "deny") \/ DeciderAnswers(o, "allow")
                                 \/ DeciderAsks(o))
    /\ WF_vars(Stopping)

\* handle.interrupt() returns to cancel() within the ten seconds codex gives its call;
\* claude's has no limit, and nothing is assumed of it.
InterruptsReturn ==
    \A r \in Runs : WF_vars(InterruptReturns(r) /\ sessionOf[r] \notin Claude)

FairSpec == Spec /\ Fairness /\ InterruptsReturn

-----------------------------------------------------------------------------
TypeOK ==
    /\ enrolled \subseteq Workspaces
    /\ session \in [Sessions -> {"none", "open", "closed", "attention_required", "removed"}]
    /\ workspaceOf \in [Sessions -> Workspaces \cup {None}]
    /\ run \in [Runs -> RunStates]
    /\ sessionOf \in [Runs -> Sessions \cup {None}]
    /\ op \in [Ops -> {"none", "deciding", "pending", "expired", "removed"} \cup Decided]
    /\ opRun \in [Ops -> Runs \cup {NoRun}]
    /\ tally \in [Runs -> [allowed : Nat, denied : Nat]]
    /\ daemon \in {"up", "stopping", "down"}
    /\ worker \in [Runs -> {"none", "launching", "working"}]
    /\ aborted \in SUBSET Runs /\ handed \in SUBSET Runs /\ deadline \in SUBSET Runs
    /\ interrupting \in SUBSET Runs /\ grace \in SUBSET Runs /\ visited \in SUBSET Runs
    /\ asking \in [Ops -> {"idle", "decider", "parked"}]
    /\ agent \in SUBSET Runs /\ closing \in SUBSET Runs
    /\ answer \in [Ops -> {"none", "allow", "deny"}]
    /\ removing \subseteq Workspaces
    /\ launched \in SUBSET Runs

-----------------------------------------------------------------------------
(* What must hold in every state.                                          *)

\* A session never has two runs in progress: createRun counts the active runs in
\* the transaction that inserts, whatever cancel, crash or retention did before.
OneActiveRun ==
    \A r, q \in Runs :
        /\ run[r] \in ActiveStates /\ run[q] \in ActiveStates
        /\ sessionOf[r] = sessionOf[q]
        => r = q

\* An active run's session is open: closing, retention and a lost run never leave
\* work behind in a session that takes none.
ActiveInOpenSession ==
    \A r \in Runs : run[r] \in ActiveStates =>
        sessionOf[r] \in Sessions /\ session[sessionOf[r]] = "open"

\* The pump never holds more workers than config.run.maxConcurrent.
SlotsBounded == Cardinality(Workers) <= MaxConcurrent

\* No wakeup is lost: a run waits only while every slot is taken, although pump()
\* runs only after a commit and after a task, and returns early when it is running.
NoIdleSlot == daemon = "up" /\ Queued # {} => Cardinality(Workers) >= MaxConcurrent

\* Slots are neither overbooked nor lost, whatever ends a run (gateway.ts:477-497).
SlotsKept == SlotsBounded /\ NoIdleSlot

\* A run in flight is owned by a worker of the living process: nothing is left
\* for which no callback or timer will ever come.
InFlightHasWorker ==
    daemon # "down" => \A r \in Runs : run[r] \in InFlightStates => worker[r] # "none"

\* Two agents are alive in one conversation only if one of them was told to exit, its run
\* being over, or was cancelled, pruned, or given up because its output could not be
\* written; across crashes too: an agent that outlives the daemon blocks its session.
OneAgent ==
    LET givenUp == {"cancelled", "removed"} \cup (IF StorageMayFail THEN {"failed"} ELSE {})
        excused(r) == (r \in closing /\ Over(r)) \/ run[r] \in givenUp
    IN  \A r, q \in agent \cup closing :
            r # q /\ sessionOf[r] = sessionOf[q] => excused(r) \/ excused(q)

\* A session that holds a run with an unknown outcome never takes another.
UnknownBlocksSession ==
    \A r \in Runs : run[r] = "outcome_unknown" =>
        session[sessionOf[r]] \in {"attention_required", "closed"}

\* While the daemon lives the pending records are the parked promises, so an
\* answer always finds its question, and what is parked belongs to a live run.
ParkedIsPending ==
    daemon # "down" => \A o \in Ops :
        /\ asking[o] = "parked" <=> op[o] = "pending"
        /\ op[o] = "pending" => run[opRun[o]] \in InFlightStates

\* A decision on record that no agent was told of.
Unheard(o) == op[o] \in Decided /\ answer[o] = "none"

\* The tally `portrail run` exits on counts the refusals on record that the agent heard
\* of and the allows it was given, whoever decided and whenever the run ended.
TallyMatches ==
    \A r \in Runs : run[r] # "removed" =>
        /\ tally[r].denied =
             Cardinality({o \in Ops : opRun[o] = r /\ op[o] = "denied" /\ ~Unheard(o)})
        /\ tally[r].allowed = Cardinality({o \in Ops : opRun[o] = r /\ answer[o] = "allow"})

\* A decision is unheard, and so uncounted, only of a run that was lost with its daemon,
\* and a run has one such decision at most.
UnheardIsLost ==
    \A o \in Ops : Unheard(o) =>
        /\ \/ run[opRun[o]] \in {"outcome_unknown", "removed"}
           \/ daemon = "down" /\ run[opRun[o]] \in InFlightStates
        /\ \A p \in Ops : Unheard(p) /\ opRun[p] = opRun[o] => p = o

\* The records of a run's questions agree with what became of them: the pending ones
\* with the promises that wait, the decided ones with the tally, but for the one decision
\* a dying daemon may have had no time to count.
QuestionsKept == ParkedIsPending /\ TallyMatches /\ UnheardIsLost

-----------------------------------------------------------------------------
(* What no step may do.                                                    *)

\* The end of a run is final: a late completion, a grace timer, a recovery and a
\* shutdown may all find it over and must leave it alone.
TerminalIsFinal ==
    [][\A r \in Runs : run[r] \in TerminalStates => run'[r] \in {run[r], "removed"}]_vars

\* A run that was given to a provider once is never given to one again, in this
\* process or after a restart.
NeverReplayed ==
    [][\A r \in launched : worker[r] = "none" => worker'[r] = "none"]_vars

\* A yes never reaches the agent of a run that is over, cancelling or aborted,
\* however long the decider or the person took.
NoLateAllow ==
    [][\A o \in Ops : answer[o] # "allow" /\ answer'[o] = "allow" =>
         /\ run[opRun[o]] \in InFlightStates \ {"cancelling"}
         /\ opRun[o] \in agent \ (aborted \cup closing)]_vars

\* An operation is decided once: a time-out, a drain, a late decider and the
\* expiry at the end of the run never change a decision or a second answer.
DecisionIsFinal ==
    [][\A o \in Ops :
         /\ op[o] \in Decided => op'[o] \in {op[o], "removed"}
         /\ answer[o] # "none" => answer'[o] = answer[o]]_vars

\* First come, first served: a run never starts over the head of an older one.
FirstComeFirstServed ==
    [][\A q, r \in Runs :
         q < r /\ run[q] = "queued" /\ run'[q] = "queued" =>
            (r \in launched' => r \in launched)]_vars

-----------------------------------------------------------------------------
(* What must happen, under Fairness.                                       *)

\* cancel() awaits an interrupt for which claude has no limit.
AtClaudesMercy(r) == r \in interrupting /\ sessionOf[r] \in Claude

\* Every worker gives its slot back, however the agent behaves: the time limit, the
\* interrupt and the grace timer see to it.  Only claude can withhold it, and only by
\* never returning from an interrupt.
EveryWorkerEnds == \A r \in Runs : worker[r] # "none" ~> worker[r] = "none" \/ AtClaudesMercy(r)

\* Unless claude withholds a slot for good, every slot comes back, and every queued run
\* leaves the queue or the process goes down.
SlotsComeBack ==
    (\A r \in Runs : []<>~AtClaudesMercy(r)) =>
        \A r \in Runs :
            /\ worker[r] # "none" ~> worker[r] = "none"
            /\ run[r] = "queued" ~> run[r] # "queued" \/ daemon = "down"

\* So work goes on: slots come back, and the queue moves up.
WorkGoesOn == EveryWorkerEnds /\ SlotsComeBack

\* Every question the agent asked is answered or dies with the process.
EveryQuestionAnswered == \A o \in Ops : asking[o] # "idle" ~> asking[o] = "idle"

-----------------------------------------------------------------------------
(* What the engine promises to whoever starts runs.                        *)

\* A run in flight is lost when its daemon is.
LifeOf(r) ==
    CASE run[r] = "queued" -> "waiting"
      [] run[r] \in InFlightStates -> IF daemon = "down" THEN "lost" ELSE "working"
      [] run[r] = "removed" -> "gone"
      [] OTHER -> run[r]

Life == INSTANCE RunLifecycle WITH life <- [r \in Runs |-> LifeOf(r)], given <- launched

\* The records of runs, with the engine's workers, timers and crashes out of sight, tell the
\* life a client is promised: given away once, unknown when in doubt, final, one at a time.
LivesAsTold == Life!Spec

-----------------------------------------------------------------------------
(* What the documentation says and the code does not keep (see README).    *)

\* core/gateway.ts, docs/security.md: a run that was handed to an agent and whose
\* outcome is not confirmed ends unknown, never as a guess; `handed` lasts as long
\* as the worker awaits the agent's own account.
NoGuess == \A r \in handed : run[r] \notin {"succeeded", "failed"}

\* docs/api.md: after a cancel the agent stops, or is stopped, whatever it does.
CancelEnds ==
    \A r \in Runs : run[r] = "cancelling" ~> run[r] # "cancelling" \/ daemon = "down"

\* cli/help.ts: pruning is safe next to a running gateway, so a time limit ends at
\* most its own run, and never the daemon.
TimerSparesDaemon ==
    [][daemon = "up" /\ daemon' = "stopping" => deadline' = deadline]_vars

=============================================================================
