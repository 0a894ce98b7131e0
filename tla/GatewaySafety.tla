---------------------------- MODULE GatewaySafety ----------------------------
(* The type invariant of Gateway; its inductive invariant, which is what its   *)
(* records and its worker map always say about each other; the safety          *)
(* properties that follow; the life of a run it implements; and what the pump  *)
(* does with the slots.  All of it for any number of runs and operations.      *)
EXTENDS Gateway, FiniteSetTheorems, FunctionTheorems, TLAPS

-----------------------------------------------------------------------------
(* Type correctness.                                                       *)

\* What a drain counts is a number, because there are finitely many operations.
LEMMA DrainedCount ==
    ASSUME NEW D \in SUBSET Ops, NEW r
    PROVE  Cardinality(OfRun(D, r)) \in Nat
<1>1. IsFiniteSet(Ops)
  BY GatewayAssumption
<1>2. OfRun(D, r) \in SUBSET Ops
  BY DEF OfRun
<1>3. IsFiniteSet(OfRun(D, r))
  BY <1>1, <1>2, FS_Subset
<1> QED
  BY <1>3, FS_CardinalityType

\* Refusing operations keeps the types of the operation records.
LEMMA RefuseType ==
    ASSUME TypeOK, NEW D \in SUBSET Ops, NEW E, Refuse(D, E)
    PROVE  /\ op' \in [Ops -> {"none", "deciding", "pending", "expired", "removed"} \cup Decided]
           /\ opRun' = opRun
           /\ tally' \in [Runs -> [allowed : Nat, denied : Nat]]
           /\ asking' \in [Ops -> {"idle", "decider", "parked"}]
           /\ answer' \in [Ops -> {"none", "allow", "deny"}]
<1>1. \A r \in Runs : Cardinality(OfRun(D, r)) \in Nat
  BY DrainedCount
<1>2. \A r \in Runs : [tally[r] EXCEPT !.denied = @ + Cardinality(OfRun(D, r))]
                        \in [allowed : Nat, denied : Nat]
  BY <1>1 DEF TypeOK
<1>3. tally' \in [Runs -> [allowed : Nat, denied : Nat]]
  BY <1>2 DEF Refuse
<1> QED
  BY <1>3 DEF Refuse, TypeOK, Decided

\* The pump keeps the types of the runs and of the worker map.
LEMMA PumpType ==
    ASSUME TypeOK, NEW st \in [Runs -> RunStates], NEW busy, Pump(st, busy)
    PROVE  /\ run' \in [Runs -> RunStates]
           /\ worker' \in [Runs -> {"none", "launching", "working"}]
           /\ aborted' \in SUBSET Runs /\ handed' \in SUBSET Runs
           /\ deadline' \in SUBSET Runs /\ interrupting' \in SUBSET Runs
           /\ grace' \in SUBSET Runs /\ agent' \in SUBSET Runs
           /\ closing' \in SUBSET Runs /\ launched' \in SUBSET Runs
<1> DEFINE reached == IF daemon' = "up" THEN Reached(st, busy) ELSE {}
           started == reached \cap Startable(st)
<1>1. started \subseteq Runs
  BY DEF Startable
<1>2. run' \in [Runs -> RunStates]
  BY DEF Pump, RunStates, ActiveStates, InFlightStates, TerminalStates
<1>3. worker' \in [Runs -> {"none", "launching", "working"}]
  BY DEF Pump, TypeOK
<1>4. agent' \in SUBSET Runs /\ closing' \in SUBSET Runs
  BY <1>1 DEF Pump, TypeOK, Lingering, ToldToExit
<1> QED
  BY <1>1, <1>2, <1>3, <1>4 DEF Pump, TypeOK

\* The end of a task keeps the types.
LEMMA EndTaskType ==
    ASSUME TypeOK, NEW r \in Runs, NEW outcome \in TerminalStates, EndTask(r, outcome)
    PROVE  TypeOK'
<1>1. Finish(r, outcome) \in [Runs -> RunStates]
  BY DEF Finish, TypeOK, RunStates
<1>2. Pump(Finish(r, outcome), Workers \ {r})
  BY DEF EndTask
<1>3. session' \in [Sessions -> {"none", "open", "closed", "attention_required", "removed"}]
  BY DEF EndTask, Attention, TypeOK
<1>4. Parked(r) \in SUBSET Ops /\ Refuse(Parked(r), Undecided(r) \ Parked(r))
  BY DEF Parked, EndTask
<1> QED
  BY <1>1, <1>2, <1>3, <1>4, PumpType, RefuseType DEF EndTask, TypeOK

\* Telling a worker to stop keeps the types.
LEMMA StopWorkerType ==
    ASSUME TypeOK, NEW r \in Runs, StopWorker(r)
    PROVE  /\ run' \in [Runs -> RunStates]
           /\ op' \in [Ops -> {"none", "deciding", "pending", "expired", "removed"} \cup Decided]
           /\ opRun' = opRun
           /\ tally' \in [Runs -> [allowed : Nat, denied : Nat]]
           /\ asking' \in [Ops -> {"idle", "decider", "parked"}]
           /\ answer' \in [Ops -> {"none", "allow", "deny"}]
           /\ aborted' \in SUBSET Runs /\ interrupting' \in SUBSET Runs /\ grace' \in SUBSET Runs
<1>1. Parked(r) \in SUBSET Ops /\ Refuse(Parked(r), {})
  BY DEF Parked, StopWorker
<1>2. run' \in [Runs -> RunStates]
  BY DEF StopWorker, TypeOK, RunStates, ActiveStates, InFlightStates
<1>3. aborted' \in SUBSET Runs /\ interrupting' \in SUBSET Runs /\ grace' \in SUBSET Runs
  BY DEF StopWorker, TypeOK
<1> QED
  BY <1>1, <1>2, <1>3, RefuseType

\* Counting one decision keeps the tally's type.
LEMMA CountType ==
    ASSUME TypeOK, NEW r \in Runs, NEW verdict, Count(r, verdict)
    PROVE  tally' \in [Runs -> [allowed : Nat, denied : Nat]]
BY DEF Count, TypeOK

LEMMA RemoveSessionType ==
    ASSUME TypeOK, NEW s \in Sessions, RemoveSession(s)
    PROVE  TypeOK'
BY DEF RemoveSession, TypeOK, RunStates, workers

LEMMA RequestsType == TypeOK /\ Requests => TypeOK'
<1> SUFFICES ASSUME TypeOK, Requests PROVE TypeOK'
  OBVIOUS
<1>1. ASSUME NEW s \in Sessions, NEW w \in Workspaces, CreateSession(s, w) PROVE TypeOK'
  BY <1>1 DEF CreateSession, NewSession, TypeOK, operations, workers
<1>2. ASSUME NEW s \in Sessions, CloseSession(s) PROVE TypeOK'
  BY <1>2 DEF CloseSession, TypeOK, operations, workers
<1>3. ASSUME NEW r \in Runs, NEW s \in Sessions, CreateRun(r, s) PROVE TypeOK'
  <2>1. [run EXCEPT ![r] = "queued"] \in [Runs -> RunStates]
    BY DEF TypeOK, RunStates, ActiveStates
  <2>2. Pump([run EXCEPT ![r] = "queued"], Workers)
    BY <1>3 DEF CreateRun
  <2>3. /\ session' \in [Sessions -> {"none", "open", "closed", "attention_required", "removed"}]
        /\ workspaceOf' \in [Sessions -> Workspaces \cup {None}]
        /\ sessionOf' \in [Runs -> Sessions \cup {None}]
    BY <1>3 DEF CreateRun, NewSession, TypeOK
  <2> QED
    BY <1>3, <2>1, <2>2, <2>3, PumpType DEF CreateRun, TypeOK, operations
<1>4. ASSUME NEW r \in Runs, CancelQueued(r) PROVE TypeOK'
  BY <1>4 DEF CancelQueued, Finish, TypeOK, RunStates, TerminalStates, operations, workers
<1>5. ASSUME NEW r \in Runs, CancelRunning(r) PROVE TypeOK'
  BY <1>5, StopWorkerType DEF CancelRunning, TypeOK
<1>6. ASSUME NEW o \in Ops, NEW verdict \in {"allow", "deny"}, Resolve(o, verdict) PROVE TypeOK'
  <2>1. CASE verdict = "allow" /\ Inactive(opRun[o])
    BY <1>6, <2>1 DEF Resolve, TypeOK, Decided, workers
  <2>2. CASE ~(verdict = "allow" /\ Inactive(opRun[o]))
    <3>1. tally' \in [Runs -> [allowed : Nat, denied : Nat]]
      BY <1>6, <2>2 DEF Resolve, Count, TypeOK
    <3>2. run' \in [Runs -> RunStates]
      BY <1>6, <2>2 DEF Resolve, Unpark, TypeOK, RunStates, ActiveStates, InFlightStates
    <3>3. /\ op' \in [Ops -> {"none", "deciding", "pending", "expired", "removed"} \cup Decided]
          /\ asking' \in [Ops -> {"idle", "decider", "parked"}]
          /\ answer' \in [Ops -> {"none", "allow", "deny"}]
          /\ UNCHANGED <<enrolled, session, workspaceOf, sessionOf, opRun, workers, daemon,
                         visited, agent, closing, removing, launched>>
      BY <1>6, <2>2 DEF Resolve, TypeOK, Decided
    <3> QED
      BY <3>1, <3>2, <3>3 DEF TypeOK, workers
  <2> QED
    BY <2>1, <2>2
<1>7. ASSUME NEW s \in Sessions, Retention(s) PROVE TypeOK'
  BY <1>7, RemoveSessionType DEF Retention
<1> QED
  BY <1>1, <1>2, <1>3, <1>4, <1>5, <1>6, <1>7 DEF Requests

LEMMA ProviderStepsType == TypeOK /\ ProviderSteps => TypeOK'
<1> SUFFICES ASSUME TypeOK, ProviderSteps PROVE TypeOK'
  OBVIOUS
<1>1. ASSUME NEW r \in Runs, ProviderStarted(r) PROVE TypeOK'
  BY <1>1 DEF ProviderStarted, SetState, TypeOK, RunStates, ActiveStates, InFlightStates, operations
<1>2. ASSUME NEW r \in Runs, StartReturns(r) PROVE TypeOK'
  <2>1. CASE r \in aborted
    BY <1>2, <2>1, EndTaskType DEF StartReturns, TerminalStates
  <2>2. CASE r \notin aborted
    BY <1>2, <2>2 DEF StartReturns, TypeOK, records, operations
  <2> QED
    BY <2>1, <2>2
<1>3. ASSUME NEW r \in Runs, TaskFails(r) PROVE TypeOK'
  BY <1>3, EndTaskType DEF TaskFails, TerminalStates
<1>4. ASSUME NEW r \in Runs, NEW outcome \in TerminalStates, Done(r, outcome) PROVE TypeOK'
  BY <1>4, EndTaskType DEF Done
<1>5. ASSUME NEW r \in Runs, StorageFails(r) PROVE TypeOK'
  <2>1. Parked(r) \in SUBSET Ops
    BY DEF Parked
  <2>2. Refuse(Parked(r), {}) /\ run' \in [Runs -> RunStates]
    BY <1>5 DEF StorageFails, Finish, TypeOK, RunStates, TerminalStates
  <2> QED
    BY <1>5, <2>1, <2>2, RefuseType DEF StorageFails, TypeOK, workers
<1> QED
  BY <1>1, <1>2, <1>3, <1>4, <1>5 DEF ProviderSteps

LEMMA TimersType == TypeOK /\ Timers => TypeOK'
<1> SUFFICES ASSUME TypeOK, Timers PROVE TypeOK'
  OBVIOUS
<1>1. ASSUME NEW r \in Runs, Deadline(r) PROVE TypeOK'
  <2>1. CASE Over(r)
    BY <1>1, <2>1 DEF Deadline, TypeOK, operations
  <2>2. CASE ~Over(r)
    <3>1. StopWorker(r)
      BY <1>1, <2>2 DEF Deadline
    <3> QED
      BY <1>1, <3>1, StopWorkerType DEF Deadline, TypeOK
  <2> QED
    BY <2>1, <2>2
<1>2. ASSUME NEW r \in Runs, InterruptReturns(r) PROVE TypeOK'
  BY <1>2 DEF InterruptReturns, TypeOK, records, operations
<1>3. ASSUME NEW r \in Runs, GraceExpires(r) PROVE TypeOK'
  <2>1. CASE EndTask(r, "cancelled")
    BY <2>1, EndTaskType DEF TerminalStates
  <2>2. CASE ~EndTask(r, "cancelled")
    <3>1. Parked(r) \in SUBSET Ops /\ Refuse(Parked(r), {})
      BY <1>3, <2>2 DEF Parked, GraceExpires
    <3>2. run' \in [Runs -> RunStates]
      BY <1>3, <2>2 DEF GraceExpires, Finish, TypeOK, RunStates, TerminalStates
    <3> QED
      BY <1>3, <2>2, <3>1, <3>2, RefuseType DEF GraceExpires, TypeOK
  <2> QED
    BY <2>1, <2>2
<1>4. ASSUME NEW o \in Ops, ParkTimeout(o) PROVE TypeOK'
  <2>1. {o} \in SUBSET Ops /\ Refuse({o}, {})
    BY <1>4 DEF ParkTimeout
  <2>2. run' \in [Runs -> RunStates]
    BY <1>4 DEF ParkTimeout, Unpark, TypeOK, RunStates, ActiveStates, InFlightStates
  <2> QED
    BY <1>4, <2>1, <2>2, RefuseType DEF ParkTimeout, TypeOK, workers
<1> QED
  BY <1>1, <1>2, <1>3, <1>4 DEF Timers

LEMMA DecisionsType == TypeOK /\ Decisions => TypeOK'
<1> SUFFICES ASSUME TypeOK, Decisions PROVE TypeOK'
  OBVIOUS
<1>1. ASSUME NEW r \in Runs, NEW o \in Ops, AskInactive(r, o) PROVE TypeOK'
  BY <1>1 DEF AskInactive, Ask, TypeOK, records, workers
<1>2. ASSUME NEW r \in Runs, NEW o \in Ops, AskOutside(r, o) PROVE TypeOK'
  <2>1. tally' \in [Runs -> [allowed : Nat, denied : Nat]]
    BY <1>2, CountType DEF AskOutside
  <2> QED
    BY <1>2, <2>1 DEF AskOutside, Ask, TypeOK, Decided, records, workers
<1>3. ASSUME NEW r \in Runs, NEW o \in Ops, AskDecider(r, o) PROVE TypeOK'
  BY <1>3 DEF AskDecider, Ask, TypeOK, records, workers
<1>4. ASSUME NEW o \in Ops, NEW verdict \in {"allow", "deny"}, DeciderAnswers(o, verdict)
      PROVE  TypeOK'
  <2>1. CASE verdict = "allow" /\ Inactive(opRun[o])
    BY <1>4, <2>1 DEF DeciderAnswers, DeciderTooLate, TypeOK, workers
  <2>2. CASE ~(verdict = "allow" /\ Inactive(opRun[o]))
    <3>1. DeciderSettles(o, verdict)
      BY <1>4, <2>2 DEF DeciderAnswers
    <3>2. tally' \in [Runs -> [allowed : Nat, denied : Nat]]
      BY <3>1 DEF DeciderSettles, Count, TypeOK
    <3> QED
      BY <1>4, <3>1, <3>2 DEF DeciderAnswers, DeciderSettles, TypeOK, Decided, workers
  <2> QED
    BY <2>1, <2>2
<1>5. ASSUME NEW o \in Ops, DeciderAsks(o) PROVE TypeOK'
  <2>1. run' \in [Runs -> RunStates]
    BY <1>5 DEF DeciderAsks, DeciderTooLate, TypeOK, RunStates, ActiveStates, InFlightStates
  <2> QED
    BY <1>5, <2>1 DEF DeciderAsks, DeciderTooLate, TypeOK, workers
<1> QED
  BY <1>1, <1>2, <1>3, <1>4, <1>5 DEF Decisions

\* Telling workers to stop, one batch of the loop of shutdown(), keeps the types.
LEMMA VisitType ==
    ASSUME TypeOK, NEW st \in [Runs -> RunStates], NEW batch \in SUBSET Runs, Visit(st, batch)
    PROVE  /\ run' \in [Runs -> RunStates]
           /\ aborted' \in SUBSET Runs /\ visited' \in SUBSET Runs
           /\ daemon' = "stopping"
BY DEF Visit, TypeOK, RunStates, ActiveStates, InFlightStates

LEMMA ProcessType == TypeOK /\ Process => TypeOK'
<1> SUFFICES ASSUME TypeOK, Process PROVE TypeOK'
  OBVIOUS
<1>a. ASSUME NEW seen PROVE NextVisits(seen) \in SUBSET Runs
  BY DEF NextVisits, Workers
<1>b. ASSUME BeginShutdown, deadline' \in SUBSET Runs PROVE TypeOK'
  <2> DEFINE parked == {o \in Ops : asking[o] = "parked"}
  <2>1. Unpark(run, parked) \in [Runs -> RunStates]
    BY DEF Unpark, TypeOK, RunStates, ActiveStates, InFlightStates
  <2>2. Refuse(parked, {}) /\ Visit(Unpark(run, parked), NextVisits({}))
    BY <1>b DEF BeginShutdown
  <2>3. /\ op' \in [Ops -> {"none", "deciding", "pending", "expired", "removed"} \cup Decided]
        /\ opRun' = opRun
        /\ tally' \in [Runs -> [allowed : Nat, denied : Nat]]
        /\ asking' \in [Ops -> {"idle", "decider", "parked"}]
        /\ answer' \in [Ops -> {"none", "allow", "deny"}]
    <3>1. parked \in SUBSET Ops
      OBVIOUS
    <3> HIDE DEF parked
    <3> QED
      BY <2>2, <3>1, RefuseType
  <2>4. /\ run' \in [Runs -> RunStates]
        /\ aborted' \in SUBSET Runs /\ visited' \in SUBSET Runs
        /\ daemon' = "stopping"
    BY <1>a, <2>1, <2>2, VisitType
  <2> QED
    BY <1>b, <2>2, <2>3, <2>4 DEF Visit, TypeOK
<1>1. ASSUME Shutdown PROVE TypeOK'
  BY <1>1, <1>b DEF Shutdown, TypeOK
<1>2. ASSUME ShutdownVisits PROVE TypeOK'
  <2>1. Visit(run, NextVisits(visited)) /\ UNCHANGED <<operations, deadline>>
    BY <1>2 DEF ShutdownVisits
  <2>2. /\ run' \in [Runs -> RunStates]
        /\ aborted' \in SUBSET Runs /\ visited' \in SUBSET Runs
        /\ daemon' = "stopping"
    BY <1>a, <2>1, VisitType DEF TypeOK
  <2> QED
    BY <2>1, <2>2 DEF Visit, TypeOK, operations
<1>3. ASSUME ShutdownEnds PROVE TypeOK'
  <2> DEFINE drained == UNION {Parked(r) : r \in {q \in Workers : ~Over(q)}}
  <2>1. drained \in SUBSET Ops
    BY DEF Parked
  <2>2. \A r \in Runs : [tally[r] EXCEPT !.denied = @ + Cardinality(OfRun(drained, r))]
                          \in [allowed : Nat, denied : Nat]
    BY <2>1, DrainedCount DEF TypeOK
  <2>3. tally' \in [Runs -> [allowed : Nat, denied : Nat]]
    BY <1>3, <2>2 DEF ShutdownEnds
  <2>4. /\ run' \in [Runs -> RunStates]
        /\ session' \in [Sessions -> {"none", "open", "closed", "attention_required", "removed"}]
    BY <1>3 DEF ShutdownEnds, MarkLost, TypeOK, RunStates, TerminalStates
  <2>5. /\ op' \in [Ops -> {"none", "deciding", "pending", "expired", "removed"} \cup Decided]
        /\ answer' \in [Ops -> {"none", "allow", "deny"}]
        /\ asking' \in [Ops -> {"idle", "decider", "parked"}]
        /\ opRun' = opRun
    BY <1>3 DEF ShutdownEnds, TypeOK, Decided
  <2>6. /\ agent' \in SUBSET Runs /\ closing' \in SUBSET Runs
        /\ ForgetMemory
    BY <1>3 DEF ShutdownEnds, TypeOK, Lingering
  <2> QED
    BY <2>3, <2>4, <2>5, <2>6 DEF ForgetMemory, TypeOK
<1>4. ASSUME Crash PROVE TypeOK'
  BY <1>4 DEF Crash, ForgetMemory, TypeOK
<1>5. ASSUME Restart PROVE TypeOK'
  <2>1. Recovered \in [Runs -> RunStates]
    BY DEF Recovered, TypeOK, RunStates, TerminalStates
  <2>2. Pump(Recovered, {})
    BY <1>5 DEF Restart
  <2>3. session' \in [Sessions -> {"none", "open", "closed", "attention_required", "removed"}]
    BY <1>5 DEF Restart, MarkLost, TypeOK
  <2> QED
    BY <1>5, <2>1, <2>2, <2>3, PumpType DEF Restart, TypeOK
<1>6. ASSUME NEW r \in Runs, OrphanExits(r) PROVE TypeOK'
  BY <1>6 DEF OrphanExits, TypeOK, records, operations, workers
<1>7. ASSUME NEW w \in Workspaces, RemoveWorkspaceCheck(w) PROVE TypeOK'
  BY <1>7 DEF RemoveWorkspaceCheck, TypeOK, records, operations, workers
<1>8. ASSUME NEW w \in Workspaces, RemoveWorkspaceDelete(w) PROVE TypeOK'
  BY <1>8 DEF RemoveWorkspaceDelete, TypeOK, operations, workers
<1>9. ASSUME NEW s \in Sessions, Prune(s) PROVE TypeOK'
  BY <1>9, RemoveSessionType DEF Prune
<1>10. ASSUME NEW r \in Runs, DeadlineRejects(r) PROVE TypeOK'
  <2>1. deadline' \in SUBSET Runs
    BY <1>10 DEF DeadlineRejects, TypeOK
  <2>2. CASE BeginShutdown
    BY <2>1, <2>2, <1>b
  <2>3. CASE ~BeginShutdown
    BY <1>10, <2>1, <2>3 DEF DeadlineRejects, TypeOK, records, operations
  <2> QED
    BY <2>2, <2>3
<1>11. ASSUME NEW r \in Runs, AgentExits(r) PROVE TypeOK'
  BY <1>11 DEF AgentExits, TypeOK, records, operations, workers
<1>12. ASSUME NEW o \in Ops, NEW verdict, KilledInResolve(o, verdict) PROVE TypeOK'
  BY <1>12 DEF KilledInResolve, ForgetMemory, TypeOK, Decided
<1> QED
  BY <1>1, <1>2, <1>3, <1>4, <1>5, <1>6, <1>7, <1>8, <1>9, <1>10, <1>11, <1>12 DEF Process

\* Every record and every entry of the worker map keeps its type, for any number of
\* runs, sessions and operations.
THEOREM TypeCorrect == Spec => []TypeOK
<1>1. Init => TypeOK
  BY DEF Init, TypeOK, RunStates
<1>2. TypeOK /\ [Next]_vars => TypeOK'
  <2> SUFFICES ASSUME TypeOK, [Next]_vars PROVE TypeOK'
    OBVIOUS
  <2>1. CASE UNCHANGED vars
    BY <2>1 DEF vars, records, operations, workers, TypeOK
  <2> QED
    BY <2>1, RequestsType, ProviderStepsType, TimersType, DecisionsType, ProcessType DEF Next
<1> QED
  BY <1>1, <1>2, PTL DEF Spec

-----------------------------------------------------------------------------
(* The inductive invariant.                                                *)

NotBegun == {"none", "queued"}   \* states of a run that no worker ever took up

SessionKnown ==
    \A r \in Runs : run[r] # "none" =>
        sessionOf[r] \in Sessions /\ session[sessionOf[r]] # "none"

WorkersBegun == \A r \in Workers : run[r] \notin NotBegun
LaunchedBegun == \A r \in launched : run[r] \notin NotBegun
DeadlinesOwned == deadline \subseteq Workers

QuestionsBegun ==
    \A o \in Ops : asking[o] # "idle" =>
        opRun[o] \in Runs /\ run[opRun[o]] \notin NotBegun

\* A run has a session from the beginning, and goes when that does.
SessionsKept ==
    \A r \in Runs : IF run[r] = "none" THEN sessionOf[r] = None
                    ELSE run[r] = "removed" <=> session[sessionOf[r]] = "removed"

\* OneActiveRun alone is not inductive: that a callback for a run revives nothing
\* rests on what every worker, timer and question knows of its run.
Inv ==
    /\ TypeOK
    /\ OneActiveRun /\ ActiveInOpenSession /\ UnknownBlocksSession /\ InFlightHasWorker
    /\ SessionKnown /\ WorkersBegun /\ LaunchedBegun /\ DeadlinesOwned /\ QuestionsBegun
    /\ SessionsKept

-----------------------------------------------------------------------------
(* Every step keeps the invariant, and is one of two kinds.                *)

\* What a step may do to a run: with the daemon, when it goes down and when it comes back.
Moves(r) ==
    \/ run'[r] = run[r] /\ (run[r] \in InFlightStates /\ daemon = "down" => daemon' = "down")
    \/ run[r] \in InFlightStates /\ daemon # "down" /\ daemon' # "down" /\ run'[r] \in InFlightStates
    \/ run[r] \in InFlightStates /\ daemon # "down" /\ run'[r] \in TerminalStates
    \/ run[r] \in InFlightStates /\ daemon = "down" /\ daemon' = "up" /\ run'[r] = "outcome_unknown"
    \/ /\ run[r] = "queued" /\ daemon' # "down"
       /\ \/ run'[r] = "starting" /\ daemon' = "up"
          \/ run'[r] \in {"failed", "cancelled"}
    \/ /\ run[r] = "none" /\ Life!Joins(r) /\ daemon' = "up"
       /\ run'[r] \in {"queued", "starting", "failed", "cancelled"}
    \/ run[r] \in TerminalStates /\ run'[r] = "removed"

\* What it may do to all of them.
Lived ==
    /\ \A r \in Runs : Moves(r)
    /\ launched' = launched \cup {r \in Runs : run[r] \in NotBegun /\ run'[r] = "starting"}
    /\ \A r \in Runs : run[r] # "none" => sessionOf'[r] = sessionOf[r]
    /\ <<daemon, daemon'>> \notin {<<"stopping", "up">>, <<"down", "stopping">>}

\* A step that starts no run.
Quiet ==
    /\ launched' = launched
    /\ Queued' \subseteq Queued
    /\ Workers' \subseteq Workers
    /\ daemon' = "up" => daemon = "up" /\ Workers' = Workers
    /\ \A r \in Runs : run[r] \in TerminalStates => run'[r] \in {run[r], "removed"}

\* A step that ends in the pump, with run records st while busy hold a worker.
Pumping(st, busy) ==
    /\ Pump(st, busy)
    /\ \A r \in Runs : run[r] \in TerminalStates \cup {"queued"} => st[r] = run[r]
    /\ \A r \in busy \cup launched : st[r] # "queued"

SafeStep ==
    /\ Inv' /\ Lived
    /\ \/ Quiet
       \/ \E st \in [Runs -> RunStates], busy \in SUBSET Workers : Pumping(st, busy)

-----------------------------------------------------------------------------
(* Steps that start nothing and end no worker.                             *)

\* What such a step may do to a run record.
CalmRun(r) ==
    \/ run'[r] = run[r]
    \/ run[r] \in InFlightStates /\ run'[r] \in InFlightStates \cup (TerminalStates \ {"outcome_unknown"})
    \/ run[r] = "queued" /\ run'[r] = "cancelled"

Calm ==
    /\ \A r \in Runs : CalmRun(r)
    /\ UNCHANGED <<session, sessionOf, launched>>
    /\ Workers' = Workers
    /\ deadline' \subseteq deadline
    /\ daemon' = "down" <=> daemon = "down"
    /\ daemon' = "up" => daemon = "up"
    /\ daemon = "down" => run' = run
    /\ \A o \in Ops : asking'[o] # "idle" =>
         opRun'[o] \in Runs /\ run[opRun'[o]] \notin NotBegun

LEMMA CalmPreserves ==
    ASSUME Inv, TypeOK', Calm
    PROVE  SafeStep
<1> USE DEF ActiveStates, InFlightStates, TerminalStates, CalmRun
<1>1. \A r \in Runs : run'[r] \in ActiveStates => run[r] \in ActiveStates
  BY DEF Calm
<1>2. OneActiveRun' /\ ActiveInOpenSession'
  BY <1>1 DEF Calm, Inv, OneActiveRun, ActiveInOpenSession
<1>3. UnknownBlocksSession'
  BY DEF Calm, Inv, UnknownBlocksSession
<1>4. InFlightHasWorker'
  <2>1. \A r \in Runs : worker[r] # "none" <=> worker'[r] # "none"
    BY DEF Calm, Workers
  <2> QED
    BY <2>1 DEF Calm, Inv, InFlightHasWorker
<1>5. SessionKnown'
  BY DEF Calm, Inv, SessionKnown
<1>6. \A r \in Runs : run[r] \notin NotBegun => run'[r] \notin NotBegun
  BY DEF Calm, NotBegun
<1>7. WorkersBegun' /\ LaunchedBegun' /\ DeadlinesOwned'
  <2>1. Workers \subseteq Runs /\ launched \subseteq Runs
    BY DEF Workers, Inv, TypeOK
  <2> QED
    BY <1>6, <2>1 DEF Calm, Inv, WorkersBegun, LaunchedBegun, DeadlinesOwned
<1>8. QuestionsBegun'
  BY <1>6 DEF Calm, QuestionsBegun
<1>9. Quiet
  <2>1. Queued' \subseteq Queued
    BY DEF Calm, Queued
  <2>2. \A r \in Runs : run[r] \in TerminalStates => run'[r] = run[r]
    BY DEF Calm
  <2> QED
    BY <2>1, <2>2 DEF Calm, Quiet, Inv, TypeOK
<1>10. SessionsKept'
  BY DEF Calm, Inv, SessionsKept
<1>11. Lived
  <2>1. \A r \in Runs : Moves(r)
    BY DEF Calm, Moves
  <2>2. {r \in Runs : run[r] \in NotBegun /\ run'[r] = "starting"} = {}
    BY DEF Calm, NotBegun
  <2> QED
    BY <2>1, <2>2 DEF Calm, Lived
<1> QED
  BY <1>2, <1>3, <1>4, <1>5, <1>7, <1>8, <1>9, <1>10, <1>11 DEF Inv, SafeStep

-----------------------------------------------------------------------------
(* The pump.                                                               *)

\* What a caller of the pump hands to it: run records st that keep the invariant
\* once the runs in busy are the only ones with a worker.
PumpReady(st, busy) ==
    /\ \A r, q \in Runs :
         st[r] \in ActiveStates /\ st[q] \in ActiveStates /\ sessionOf'[r] = sessionOf'[q] => r = q
    /\ \A r \in Runs :
         /\ st[r] # "none" => sessionOf'[r] \in Sessions /\ session'[sessionOf'[r]] # "none"
         /\ st[r] \in ActiveStates => session'[sessionOf'[r]] = "open"
         /\ st[r] = "outcome_unknown" => session'[sessionOf'[r]] \in {"attention_required", "closed"}
         /\ st[r] \in InFlightStates => r \in busy
         /\ r \in busy \cup launched => st[r] \notin NotBegun
         /\ IF st[r] = "none" THEN sessionOf'[r] = None
            ELSE st[r] = "removed" <=> session'[sessionOf'[r]] = "removed"
         /\ run[r] \in TerminalStates \cup {"queued"} => st[r] = run[r]
    /\ busy \subseteq Workers
    /\ \A o \in Ops : asking'[o] # "idle" => opRun'[o] \in Runs /\ st[opRun'[o]] \notin NotBegun

\* How these come about from the run records before: a new run is queued, one in flight is
\* over, or several are that a dead daemon left.
Prepared(st) ==
    /\ daemon' # "down"
    /\ daemon' = daemon \/ (daemon = "down" /\ daemon' = "up")
    /\ \A r \in Runs :
         /\ run[r] # "none" => sessionOf'[r] = sessionOf[r]
         /\ \/ st[r] = run[r]
            \/ run[r] = "none" /\ st[r] = "queued" /\ Life!Joins(r) /\ daemon' = "up"
            \/ run[r] \in InFlightStates /\ st[r] \in TerminalStates
         /\ run[r] \in InFlightStates /\ daemon = "down" => st[r] = "outcome_unknown"

\* The runs a pump gives to a provider.
Begun(st) == {r \in Runs : st[r] = "queued" /\ run'[r] = "starting"}

LEMMA PumpFacts ==
    ASSUME TypeOK, NEW st \in [Runs -> RunStates], NEW busy \in SUBSET Workers, Pump(st, busy)
    PROVE  /\ \A r \in Runs : st[r] # "queued" => run'[r] = st[r]
           /\ \A r \in Runs : st[r] = "queued" =>
                run'[r] \in {"queued", "starting", "failed", "cancelled"}
           /\ Workers' = busy \cup Begun(st)
           /\ launched' = launched \cup Begun(st)
           /\ deadline' \subseteq Workers'
           /\ \A r \in Begun(st) : daemon' = "up"
<1> DEFINE reached == IF daemon' = "up" THEN Reached(st, busy) ELSE {}
           started == reached \cap Startable(st)
<1>1. \A r \in reached : st[r] = "queued"
  BY DEF Reached
<1>2. run' = [r \in Runs |->
                IF r \notin reached THEN st[r]
                ELSE IF r \in started THEN "starting"
                ELSE IF session'[sessionOf'[r]] = "open" THEN "failed" ELSE "cancelled"]
  BY DEF Pump
<1>3. started \subseteq Runs
  BY DEF Startable
<1> HIDE DEF reached, started
<1>4. started \subseteq reached
  BY DEF started
<1>5. Begun(st) = started
  BY <1>1, <1>2, <1>3, <1>4 DEF Begun
<1>6. worker' = [r \in Runs |-> IF r \in started THEN "launching"
                                ELSE IF r \in busy THEN worker[r] ELSE "none"]
  BY DEF Pump, started, reached
<1>7. Workers' = busy \cup started
  BY <1>3, <1>6 DEF Workers
<1>8. launched' = launched \cup started /\ deadline' = (deadline \cap busy) \cup started
  BY DEF Pump, started, reached
<1>9. reached # {} => daemon' = "up"
  BY DEF reached
<1> QED
  BY <1>1, <1>2, <1>4, <1>5, <1>7, <1>8, <1>9

LEMMA PumpLived ==
    ASSUME TypeOK, NEW st \in [Runs -> RunStates], NEW busy \in SUBSET Workers,
           Pump(st, busy), Prepared(st)
    PROVE  Lived
<1> USE DEF InFlightStates, TerminalStates
<1>1. /\ \A r \in Runs : st[r] # "queued" => run'[r] = st[r]
      /\ \A r \in Runs : st[r] = "queued" =>
           run'[r] \in {"queued", "starting", "failed", "cancelled"}
      /\ launched' = launched \cup Begun(st)
      /\ \A r \in Begun(st) : daemon' = "up"
  BY PumpFacts
<1>2. \A r \in Runs : run'[r] = "starting" /\ st[r] = "queued" => daemon' = "up"
  BY <1>1 DEF Begun
<1>3. ASSUME NEW r \in Runs
      PROVE  Moves(r)
  <2>1. CASE st[r] = run[r]
    <3>1. CASE run[r] = "queued"
      BY <1>1, <1>2, <2>1, <3>1 DEF Prepared, Moves
    <3>2. CASE run[r] # "queued"
      BY <1>1, <2>1, <3>2 DEF Prepared, Moves
    <3> QED
      BY <3>1, <3>2
  <2>2. CASE run[r] = "none" /\ st[r] = "queued" /\ Life!Joins(r) /\ daemon' = "up"
    BY <1>1, <2>2 DEF Moves
  <2>3. CASE run[r] \in InFlightStates /\ st[r] \in TerminalStates
    BY <1>1, <2>3 DEF Prepared, Moves
  <2> QED
    BY <2>1, <2>2, <2>3 DEF Prepared
<1>4. Begun(st) = {r \in Runs : run[r] \in NotBegun /\ run'[r] = "starting"}
  BY <1>1 DEF Begun, NotBegun, Prepared
<1> QED
  BY <1>1, <1>3, <1>4 DEF Lived, Prepared

LEMMA PumpPreserves ==
    ASSUME TypeOK, TypeOK', NEW st \in [Runs -> RunStates], NEW busy \in SUBSET Workers,
           Pump(st, busy), PumpReady(st, busy), Prepared(st)
    PROVE  SafeStep
<1> USE DEF ActiveStates, InFlightStates
<1>1. /\ \A r \in Runs : st[r] # "queued" => run'[r] = st[r]
      /\ \A r \in Runs : st[r] = "queued" =>
           run'[r] \in {"queued", "starting", "failed", "cancelled"}
  BY PumpFacts
<1>2. /\ Workers' = busy \cup Begun(st)
      /\ launched' = launched \cup Begun(st)
      /\ deadline' \subseteq Workers'
  BY PumpFacts
<1>3. \A r \in Runs : run'[r] \in ActiveStates => st[r] \in ActiveStates
  BY <1>1
<1>4. OneActiveRun' /\ ActiveInOpenSession'
  BY <1>1, <1>3 DEF PumpReady, OneActiveRun, ActiveInOpenSession
<1>5. UnknownBlocksSession' /\ SessionKnown'
  BY <1>1 DEF PumpReady, UnknownBlocksSession, SessionKnown
<1>6. InFlightHasWorker'
  <2>1. \A r \in Runs : run'[r] \in InFlightStates => r \in Workers'
    BY <1>1, <1>2 DEF PumpReady, Begun
  <2> QED
    BY <2>1 DEF InFlightHasWorker, Workers
<1>7. WorkersBegun' /\ LaunchedBegun' /\ DeadlinesOwned'
  <2>1. busy \subseteq Runs /\ launched \subseteq Runs
    BY DEF Workers, TypeOK
  <2>2. \A r \in busy \cup launched \cup Begun(st) : run'[r] \notin NotBegun
    BY <1>1, <2>1 DEF PumpReady, Begun, NotBegun
  <2> QED
    BY <1>2, <2>2 DEF WorkersBegun, LaunchedBegun, DeadlinesOwned
<1>8. QuestionsBegun'
  BY <1>1 DEF PumpReady, QuestionsBegun, NotBegun
<1>9. Pumping(st, busy)
  BY DEF Pumping, PumpReady, NotBegun, TypeOK, Workers
<1>10. SessionsKept'
  BY <1>1 DEF PumpReady, SessionsKept
<1>11. Lived
  BY PumpLived
<1> QED
  BY <1>4, <1>5, <1>6, <1>7, <1>8, <1>9, <1>10, <1>11 DEF Inv, SafeStep

\* A run that holds a worker and is not over is in flight.
LEMMA WorkerInFlight ==
    ASSUME Inv, NEW r \in Workers, ~Over(r)
    PROVE  r \in Runs /\ run[r] \in InFlightStates
BY DEF Inv, WorkersBegun, NotBegun, Over, Workers, TypeOK, RunStates, ActiveStates

\* Refusals put no question back.
LEMMA RefuseQuestions ==
    ASSUME NEW D, NEW E, Refuse(D, E)
    PROVE  /\ opRun' = opRun
           /\ \A o \in Ops : asking'[o] # "idle" => asking[o] # "idle"
BY DEF Refuse

LEMMA EndTaskPreserves ==
    ASSUME Inv, Serving, NEW r \in Workers, NEW outcome \in TerminalStates,
           EndTask(r, outcome)
    PROVE  SafeStep
<1> USE DEF ActiveStates, InFlightStates, TerminalStates
<1> DEFINE st == Finish(r, outcome)
           busy == Workers \ {r}
<1>1. TypeOK /\ r \in Runs
  BY DEF Inv, Workers
<1>2. TypeOK'
  BY <1>1, EndTaskType
<1>3. st \in [Runs -> RunStates]
  BY <1>1 DEF Finish, TypeOK, RunStates
<1>4. \A q \in Runs \ {r} : st[q] = run[q]
  BY <1>1 DEF Finish, TypeOK
<1>5. Over(r) => st[r] = run[r]
  BY DEF Finish
<1>6. ~Over(r) => st[r] = outcome /\ run[r] \in InFlightStates
  BY <1>1, WorkerInFlight DEF Finish, TypeOK
<1>7. st[r] \in TerminalStates \cup {"removed"}
  BY <1>5, <1>6 DEF Over
<1>8. sessionOf' = sessionOf /\ session' = Attention(r, outcome)
  BY DEF EndTask
<1>9. \A q \in Runs \ {r} : st[q] \in ActiveStates => session'[sessionOf[q]] = "open"
  <2> SUFFICES ASSUME NEW q \in Runs \ {r}, run[q] \in ActiveStates
               PROVE  session'[sessionOf[q]] = "open"
    BY <1>4
  <2>1. sessionOf[q] \in Sessions /\ session[sessionOf[q]] = "open"
    BY DEF Inv, ActiveInOpenSession
  <2>2. CASE Over(r)
    BY <1>8, <2>1, <2>2 DEF Attention
  <2>3. CASE ~Over(r)
    <3>1. sessionOf[q] # sessionOf[r]
      BY <1>1, <1>6, <2>3 DEF Inv, OneActiveRun
    <3> QED
      BY <1>1, <1>8, <2>1, <3>1 DEF Attention, TypeOK
  <2> QED
    BY <2>2, <2>3
<1>10. \A q \in Runs : st[q] = "outcome_unknown" =>
          session'[sessionOf[q]] \in {"attention_required", "closed"}
  <2> SUFFICES ASSUME NEW q \in Runs, st[q] = "outcome_unknown"
               PROVE  session'[sessionOf[q]] \in {"attention_required", "closed"}
    OBVIOUS
  <2>0. run[q] # "none" => sessionOf[q] \in Sessions
    BY DEF Inv, SessionKnown
  <2>1. CASE run[q] = "outcome_unknown"
    <3>1. session[sessionOf[q]] \in {"attention_required", "closed"} /\ sessionOf[q] \in Sessions
      BY <2>0, <2>1 DEF Inv, UnknownBlocksSession
    <3> QED
      BY <1>1, <1>8, <3>1 DEF Attention, TypeOK
  <2>2. CASE run[q] # "outcome_unknown"
    <3>1. q = r /\ ~Over(r) /\ outcome = "outcome_unknown"
      BY <1>4, <1>5, <1>6, <2>2
    <3>2. sessionOf[r] \in Sessions
      BY <1>6, <2>0, <3>1
    <3> QED
      BY <1>1, <1>8, <3>1, <3>2 DEF Attention, TypeOK
  <2> QED
    BY <2>1, <2>2
<1>11. \A q \in Runs : st[q] # "none" =>
          sessionOf[q] \in Sessions /\ session'[sessionOf[q]] # "none"
  <2>1. \A q \in Runs : st[q] # "none" => run[q] # "none"
    BY <1>4, <1>5, <1>6
  <2> QED
    BY <1>1, <1>8, <2>1 DEF Inv, SessionKnown, Attention, TypeOK
<1>12. \A q \in Runs : run[q] \notin NotBegun => st[q] \notin NotBegun
  BY <1>4, <1>7 DEF NotBegun
<1>13. \A q \in busy \cup launched : st[q] \notin NotBegun
  BY <1>1, <1>12 DEF Inv, WorkersBegun, LaunchedBegun, TypeOK, Workers
<1>14. \A q \in Runs : st[q] \in InFlightStates => q \in busy
  BY <1>4, <1>7 DEF Inv, InFlightHasWorker, Workers, Serving
<1>15. \A o \in Ops : asking'[o] # "idle" => opRun'[o] \in Runs /\ st[opRun'[o]] \notin NotBegun
  <2>1. opRun' = opRun /\ \A o \in Ops : asking'[o] # "idle" => asking[o] # "idle"
    BY RefuseQuestions DEF EndTask
  <2> QED
    BY <1>12, <2>1 DEF Inv, QuestionsBegun
<1>16. \A q, p \in Runs :
          st[q] \in ActiveStates /\ st[p] \in ActiveStates /\ sessionOf'[q] = sessionOf'[p] => q = p
  BY <1>4, <1>7, <1>8 DEF Inv, OneActiveRun
<1>17. Pump(st, busy)
  BY DEF EndTask
<1>20. \A q \in Runs : run[q] \in TerminalStates \cup {"queued"} => st[q] = run[q]
  BY <1>4, <1>5, <1>6
<1>21. \A q \in Runs : IF st[q] = "none" THEN sessionOf[q] = None
                       ELSE st[q] = "removed" <=> session'[sessionOf[q]] = "removed"
  <2>1. \A q \in Runs : /\ st[q] = "none" <=> run[q] = "none"
                        /\ st[q] = "removed" <=> run[q] = "removed"
    BY <1>4, <1>5, <1>6
  <2>2. ASSUME NEW q \in Runs, run[q] # "none"
        PROVE  session'[sessionOf[q]] = "removed" <=> session[sessionOf[q]] = "removed"
    <3>1. CASE Over(r) \/ outcome # "outcome_unknown"
      BY <1>8, <3>1 DEF Attention
    <3>2. CASE ~Over(r) /\ outcome = "outcome_unknown"
      <4>1. sessionOf[r] \in Sessions /\ session[sessionOf[r]] = "open"
        BY <1>1, <1>6, <3>2 DEF Inv, ActiveInOpenSession
      <4>2. session' = [session EXCEPT ![sessionOf[r]] = "attention_required"]
        BY <1>8, <3>2 DEF Attention
      <4>3. sessionOf[q] \in Sessions
        BY <2>2 DEF Inv, SessionKnown
      <4> QED
        BY <1>1, <4>1, <4>2, <4>3 DEF TypeOK
    <3> QED
      BY <3>1, <3>2
  <2> QED
    BY <2>1, <2>2 DEF Inv, SessionsKept
<1>22. Prepared(st)
  <2>1. daemon' = daemon /\ daemon # "down"
    BY DEF EndTask, Serving
  <2>2. \A q \in Runs : st[q] = run[q] \/ (run[q] \in InFlightStates /\ st[q] \in TerminalStates)
    BY <1>4, <1>5, <1>6
  <2> HIDE DEF st
  <2> QED
    BY <1>8, <2>1, <2>2 DEF Prepared
<1> HIDE DEF st, busy
<1>18. busy \in SUBSET Workers
  BY DEF busy
<1>19. PumpReady(st, busy)
  <2>1. \A q \in Runs : st[q] \in ActiveStates => session'[sessionOf[q]] = "open"
    BY <1>7, <1>9
  <2> QED
    BY <1>8, <1>10, <1>11, <1>13, <1>14, <1>15, <1>16, <1>18, <1>20, <1>21, <2>1
       DEF PumpReady
<1> QED
  BY <1>1, <1>2, <1>3, <1>17, <1>18, <1>19, <1>22, PumpPreserves

-----------------------------------------------------------------------------
(* One lemma per group of steps.                                           *)

LEMMA RemoveSessionPreserves ==
    ASSUME Inv, TypeOK', NEW s \in Sessions, RemoveSession(s)
    PROVE  SafeStep
<1> USE DEF ActiveStates, InFlightStates, TerminalStates
<1>t. TypeOK
  BY DEF Inv
<1>1. /\ session' = [session EXCEPT ![s] = "removed"]
      /\ run' = [r \in Runs |-> IF r \in RunsOf(s) THEN "removed" ELSE run[r]]
      /\ UNCHANGED <<sessionOf, opRun, asking, workers, daemon, launched>>
  BY DEF RemoveSession
<1>2. \A r \in Runs : IF sessionOf[r] = s THEN run'[r] = "removed" ELSE run'[r] = run[r]
  BY <1>1 DEF RunsOf
<1>3. OneActiveRun' /\ InFlightHasWorker'
  BY <1>1, <1>2 DEF Inv, OneActiveRun, InFlightHasWorker, workers
<1>4. ActiveInOpenSession' /\ UnknownBlocksSession' /\ SessionKnown'
  BY <1>t, <1>1, <1>2 DEF Inv, ActiveInOpenSession, UnknownBlocksSession, SessionKnown, TypeOK
<1>5. WorkersBegun' /\ LaunchedBegun' /\ DeadlinesOwned' /\ QuestionsBegun'
  BY <1>t, <1>1, <1>2 DEF Inv, WorkersBegun, LaunchedBegun, Workers, DeadlinesOwned,
                          QuestionsBegun, NotBegun, workers, TypeOK
<1>6. Quiet
  BY <1>1, <1>2 DEF Quiet, Queued, Workers, workers
<1>7. SessionsKept'
  <2> SUFFICES ASSUME NEW r \in Runs
               PROVE  IF run'[r] = "none" THEN sessionOf[r] = None
                      ELSE run'[r] = "removed" <=> session'[sessionOf[r]] = "removed"
    BY <1>1 DEF SessionsKept
  <2>1. CASE sessionOf[r] = s
    BY <1>t, <1>1, <1>2, <2>1 DEF TypeOK
  <2>2. CASE sessionOf[r] # s
    BY <1>t, <1>1, <1>2, <2>2 DEF Inv, SessionKnown, SessionsKept, TypeOK
  <2> QED
    BY <2>1, <2>2
<1>8. Lived
  <2>1. ASSUME NEW r \in Runs
        PROVE  Moves(r)
    <3>1. CASE sessionOf[r] = s
      <4>1. run[r] # "none"
        BY <3>1, GatewayAssumption DEF Inv, SessionsKept
      <4>2. run[r] \notin ActiveStates
        BY <3>1 DEF RemoveSession, Busy, RunsOf
      <4>3. run'[r] = "removed" /\ run[r] \in TerminalStates \cup {"removed"}
        BY <1>t, <1>2, <3>1, <4>1, <4>2 DEF TypeOK, RunStates
      <4> QED
        BY <4>3 DEF Moves
    <3>2. CASE sessionOf[r] # s
      BY <1>1, <1>2, <3>2 DEF Moves
    <3> QED
      BY <3>1, <3>2
  <2>2. {r \in Runs : run[r] \in NotBegun /\ run'[r] = "starting"} = {}
    BY <1>2 DEF NotBegun
  <2> QED
    BY <1>1, <2>1, <2>2 DEF Lived
<1> QED
  BY <1>3, <1>4, <1>5, <1>6, <1>7, <1>8 DEF Inv, SafeStep

LEMMA RequestsPreserve == Inv /\ Requests => SafeStep
<1> USE DEF ActiveStates, InFlightStates, TerminalStates
<1> SUFFICES ASSUME Inv, Requests PROVE SafeStep
  OBVIOUS
<1>t. TypeOK /\ TypeOK'
  BY RequestsType DEF Inv
<1>l. UNCHANGED <<run, sessionOf, daemon, launched>> => Lived
  BY DEF Lived, Moves, NotBegun
<1>1. ASSUME NEW s \in Sessions, NEW w \in Workspaces, CreateSession(s, w) PROVE SafeStep
  <2>1. /\ session[s] = "none" /\ session' = [session EXCEPT ![s] = "open"]
        /\ UNCHANGED <<run, sessionOf, operations, workers, daemon, launched>>
    BY <1>1 DEF CreateSession, NewSession
  <2>2. \A q \in Sessions : q # s => session'[q] = session[q]
    BY <1>t, <2>1 DEF TypeOK
  <2>3. OneActiveRun' /\ InFlightHasWorker' /\ WorkersBegun' /\ LaunchedBegun'
        /\ DeadlinesOwned' /\ QuestionsBegun'
    BY <2>1 DEF Inv, OneActiveRun, InFlightHasWorker, WorkersBegun, LaunchedBegun, Workers,
                DeadlinesOwned, QuestionsBegun, operations, workers
  <2>4. ActiveInOpenSession' /\ UnknownBlocksSession' /\ SessionKnown'
    BY <1>t, <2>1, <2>2 DEF Inv, ActiveInOpenSession, UnknownBlocksSession, SessionKnown, TypeOK
  <2>5. Quiet
    BY <2>1 DEF Quiet, Queued, Workers, workers
  <2>6. SessionsKept'
    BY <1>t, <2>1, <2>2 DEF Inv, SessionKnown, SessionsKept, TypeOK
  <2> QED
    BY <1>t, <1>l, <2>1, <2>3, <2>4, <2>5, <2>6 DEF Inv, SafeStep
<1>2. ASSUME NEW s \in Sessions, CloseSession(s) PROVE SafeStep
  <2>1. /\ ~Busy(s) /\ session' = [session EXCEPT ![s] = "closed"]
        /\ UNCHANGED <<run, sessionOf, operations, workers, daemon, launched>>
    BY <1>2 DEF CloseSession
  <2>2. \A r \in Runs : run[r] \in ActiveStates => sessionOf[r] # s
    BY <2>1 DEF Busy, RunsOf
  <2>3. OneActiveRun' /\ InFlightHasWorker' /\ WorkersBegun' /\ LaunchedBegun'
        /\ DeadlinesOwned' /\ QuestionsBegun'
    BY <2>1 DEF Inv, OneActiveRun, InFlightHasWorker, WorkersBegun, LaunchedBegun, Workers,
                DeadlinesOwned, QuestionsBegun, operations, workers
  <2>4. ActiveInOpenSession'
    BY <1>t, <2>1, <2>2 DEF Inv, ActiveInOpenSession, TypeOK
  <2>5. UnknownBlocksSession' /\ SessionKnown'
    BY <1>t, <2>1 DEF Inv, UnknownBlocksSession, SessionKnown, TypeOK
  <2>6. Quiet
    BY <2>1 DEF Quiet, Queued, Workers, workers
  <2>7. SessionsKept'
    <3>1. session[s] # "removed"
      BY <1>2 DEF CloseSession
    <3> QED
      BY <1>t, <2>1, <3>1 DEF Inv, SessionKnown, SessionsKept, TypeOK
  <2> QED
    BY <1>t, <1>l, <2>1, <2>3, <2>4, <2>5, <2>6, <2>7 DEF Inv, SafeStep
<1>3. ASSUME NEW r \in Runs, NEW s \in Sessions, CreateRun(r, s) PROVE SafeStep
  <2> DEFINE st == [run EXCEPT ![r] = "queued"]
  <2>1. /\ run[r] = "none" /\ Free(s)
        /\ sessionOf' = [sessionOf EXCEPT ![r] = s]
        /\ UNCHANGED <<operations, daemon>>
        /\ Pump(st, Workers)
    BY <1>3 DEF CreateRun
  <2>2. /\ session'[s] = "open"
        /\ \A q \in Sessions : session[q] # "none" => session'[q] = session[q]
    BY <1>3, <1>t DEF CreateRun, NewSession, TypeOK
  <2>3. /\ st \in [Runs -> RunStates]
        /\ st[r] = "queued" /\ sessionOf'[r] = s
        /\ \A q \in Runs \ {r} : st[q] = run[q] /\ sessionOf'[q] = sessionOf[q]
    BY <1>t, <2>1 DEF TypeOK, RunStates
  <2>4. \A q \in Runs : sessionOf[q] = s => run[q] \notin ActiveStates
    BY <2>1 DEF Free, Busy, RunsOf
  <2> HIDE DEF st
  <2>5. \A q, p \in Runs : st[q] \in ActiveStates /\ st[p] \in ActiveStates
                            /\ sessionOf'[q] = sessionOf'[p] => q = p
    BY <2>3, <2>4 DEF Inv, OneActiveRun
  <2>6. \A q \in Runs :
           /\ st[q] # "none" => sessionOf'[q] \in Sessions /\ session'[sessionOf'[q]] # "none"
           /\ st[q] \in ActiveStates => session'[sessionOf'[q]] = "open"
           /\ st[q] = "outcome_unknown" =>
                session'[sessionOf'[q]] \in {"attention_required", "closed"}
    BY <2>2, <2>3 DEF Inv, SessionKnown, ActiveInOpenSession, UnknownBlocksSession
  <2>7. \A q \in Runs : run[q] \notin NotBegun => st[q] \notin NotBegun
    BY <2>1, <2>3 DEF NotBegun
  <2>8. Serving
    BY <1>3 DEF CreateRun, Serving
  <2>9. \A q \in Runs : /\ st[q] \in InFlightStates => q \in Workers
                        /\ q \in Workers \cup launched => st[q] \notin NotBegun
    BY <2>3, <2>7, <2>8 DEF Inv, InFlightHasWorker, WorkersBegun, LaunchedBegun, Workers, Serving
  <2>10. \A o \in Ops : asking'[o] # "idle" => opRun'[o] \in Runs /\ st[opRun'[o]] \notin NotBegun
    BY <2>1, <2>7 DEF Inv, QuestionsBegun, operations
  <2>11. \A q \in Runs : run[q] \in TerminalStates \cup {"queued"} => st[q] = run[q]
    BY <2>1, <2>3
  <2>13. \A q \in Runs : IF st[q] = "none" THEN sessionOf'[q] = None
                         ELSE st[q] = "removed" <=> session'[sessionOf'[q]] = "removed"
    BY <2>2, <2>3 DEF Inv, SessionKnown, SessionsKept
  <2>12. PumpReady(st, Workers)
    BY <2>5, <2>6, <2>9, <2>10, <2>11, <2>13 DEF PumpReady
  <2>14. Prepared(st)
    <3>1. daemon = "up" /\ daemon' = "up"
      BY <1>3, <2>1 DEF CreateRun
    <3>2. Life!Joins(r)
      <4>1. session[s] \in {"none", "open"}
        BY <1>3 DEF CreateRun, NewSession
      <4>2. ASSUME NEW q \in Runs, sessionOf[q] = s
            PROVE  LifeOf(q) \in TerminalStates \ {"outcome_unknown"}
        <5>1. run[q] # "none"
          BY <4>2, GatewayAssumption DEF Inv, SessionsKept
        <5>2. run[q] \notin {"removed", "outcome_unknown"}
          BY <4>1, <4>2, <5>1 DEF Inv, SessionsKept, UnknownBlocksSession
        <5>3. run[q] \in TerminalStates \ {"outcome_unknown"}
          BY <1>t, <2>4, <4>2, <5>1, <5>2 DEF TypeOK, RunStates
        <5> QED
          BY <5>3 DEF LifeOf
      <4> QED
        BY <2>3, <3>1, <4>2 DEF Life!Joins, Life!Outcomes
    <3> QED
      BY <2>1, <2>3, <3>1, <3>2 DEF Prepared
  <2> QED
    BY <1>t, <2>1, <2>3, <2>12, <2>14, PumpPreserves
<1>4. ASSUME NEW r \in Runs, CancelQueued(r) PROVE SafeStep
  <2>1. run[r] = "queued"
    BY <1>4 DEF CancelQueued, Serving, Inv, InFlightHasWorker
  <2>2. Calm
    BY <1>4, <1>t, <2>1 DEF CancelQueued, Finish, Over, Calm, Serving, CalmRun, Workers, operations,
                            workers, Inv, QuestionsBegun, TypeOK
  <2> QED
    BY <1>t, <2>2, CalmPreserves
<1>5. ASSUME NEW r \in Runs, CancelRunning(r) PROVE SafeStep
  <2>1. /\ run[r] \in InFlightStates /\ daemon # "down"
        /\ run' = [run EXCEPT ![r] = "cancelling"]
        /\ UNCHANGED <<session, sessionOf, worker, deadline, daemon, launched>>
        /\ Refuse(Parked(r), {})
    BY <1>5 DEF CancelRunning, StopWorker, Serving
  <2>2. Calm
    BY <1>t, <2>1, RefuseQuestions DEF Calm, CalmRun, Workers, Inv, QuestionsBegun, TypeOK
  <2> QED
    BY <1>t, <2>2, CalmPreserves
<1>6. ASSUME NEW o \in Ops, NEW verdict \in {"allow", "deny"}, Resolve(o, verdict) PROVE SafeStep
  <2>1. \A r \in Runs : CalmRun(r)
    BY <1>6, <1>t DEF Resolve, Unpark, CalmRun, TypeOK
  <2>2. Calm
    BY <1>6, <1>t, <2>1 DEF Resolve, Calm, Serving, Workers, workers, Inv, QuestionsBegun, TypeOK
  <2> QED
    BY <1>t, <2>2, CalmPreserves
<1>7. ASSUME NEW s \in Sessions, Retention(s) PROVE SafeStep
  BY <1>7, <1>t, RemoveSessionPreserves DEF Retention
<1> QED
  BY <1>1, <1>2, <1>3, <1>4, <1>5, <1>6, <1>7 DEF Requests

LEMMA ProviderStepsPreserve == Inv /\ ProviderSteps => SafeStep
<1> USE DEF ActiveStates, InFlightStates, TerminalStates
<1> SUFFICES ASSUME Inv, ProviderSteps PROVE SafeStep
  OBVIOUS
<1>t. TypeOK /\ TypeOK'
  BY ProviderStepsType DEF Inv
<1>1. ASSUME NEW r \in Runs, ProviderStarted(r) PROVE SafeStep
  <2>1. r \in Workers
    BY <1>1 DEF ProviderStarted, Workers
  <2>2. \A q \in Runs : CalmRun(q)
    BY <1>1, <1>t, <2>1, WorkerInFlight DEF ProviderStarted, SetState, CalmRun, TypeOK
  <2>3. Calm
    BY <1>1, <2>2 DEF ProviderStarted, Calm, Serving, Workers, operations, Inv, QuestionsBegun
  <2> QED
    BY <1>t, <2>3, CalmPreserves
<1>2. ASSUME NEW r \in Runs, StartReturns(r) PROVE SafeStep
  <2>1. r \in Workers /\ Serving
    BY <1>2 DEF StartReturns, Workers
  <2>2. CASE r \in aborted
    BY <1>2, <2>1, <2>2, EndTaskPreserves DEF StartReturns
  <2>3. CASE r \notin aborted
    <3>1. UNCHANGED <<records, operations, daemon, deadline, launched>>
          /\ worker' = [worker EXCEPT ![r] = "working"]
      BY <1>2, <2>3 DEF StartReturns
    <3>2. Workers' = Workers
      BY <1>t, <2>1, <3>1 DEF Workers, TypeOK
    <3>3. Calm
      BY <3>1, <3>2 DEF Calm, CalmRun, records, operations, Inv, QuestionsBegun
    <3> QED
      BY <1>t, <3>3, CalmPreserves
  <2> QED
    BY <2>2, <2>3
<1>3. ASSUME NEW r \in Runs, TaskFails(r) PROVE SafeStep
  BY <1>3, EndTaskPreserves DEF TaskFails, Workers
<1>4. ASSUME NEW r \in Runs, NEW outcome \in TerminalStates, Done(r, outcome) PROVE SafeStep
  BY <1>4, EndTaskPreserves DEF Done, Workers
<1>5. ASSUME NEW r \in Runs, StorageFails(r) PROVE SafeStep
  <2>1. r \in Workers /\ ~Over(r)
    BY <1>5 DEF StorageFails, Workers
  <2>2. \A q \in Runs : CalmRun(q)
    BY <1>5, <1>t, <2>1, WorkerInFlight DEF StorageFails, Finish, CalmRun, TypeOK
  <2>3. Calm
    BY <1>5, <2>2, RefuseQuestions DEF StorageFails, Calm, Serving, Workers, workers, Inv, QuestionsBegun
  <2> QED
    BY <1>t, <2>3, CalmPreserves
<1> QED
  BY <1>1, <1>2, <1>3, <1>4, <1>5 DEF ProviderSteps

LEMMA TimersPreserve == Inv /\ Timers => SafeStep
<1> USE DEF ActiveStates, InFlightStates, TerminalStates
<1> SUFFICES ASSUME Inv, Timers PROVE SafeStep
  OBVIOUS
<1>t. TypeOK /\ TypeOK'
  BY TimersType DEF Inv
<1>1. ASSUME NEW r \in Runs, Deadline(r) PROVE SafeStep
  <2>1. /\ UNCHANGED <<session, sessionOf, worker, daemon, launched>>
        /\ deadline' = deadline \ {r} /\ daemon # "down"
    BY <1>1 DEF Deadline, Serving
  <2>2. CASE Over(r)
    <3>1. Calm
      BY <1>1, <2>1, <2>2 DEF Deadline, Calm, CalmRun, Workers, operations, Inv, QuestionsBegun
    <3> QED
      BY <1>t, <3>1, CalmPreserves
  <2>3. CASE ~Over(r)
    <3>1. run[r] \in InFlightStates
      BY <1>1, <2>3, WorkerInFlight DEF Deadline, Inv, DeadlinesOwned
    <3>2. run' = [run EXCEPT ![r] = "cancelling"] /\ Refuse(Parked(r), {})
      BY <1>1, <2>3 DEF Deadline, StopWorker
    <3>3. Calm
      BY <1>t, <2>1, <3>1, <3>2, RefuseQuestions
         DEF Calm, CalmRun, Workers, Inv, QuestionsBegun, TypeOK
    <3> QED
      BY <1>t, <3>3, CalmPreserves
  <2> QED
    BY <2>2, <2>3
<1>2. ASSUME NEW r \in Runs, InterruptReturns(r) PROVE SafeStep
  <2>1. Calm
    BY <1>2 DEF InterruptReturns, Calm, CalmRun, Workers, records, operations, Inv, QuestionsBegun
  <2> QED
    BY <1>t, <2>1, CalmPreserves
<1>3. ASSUME NEW r \in Runs, GraceExpires(r) PROVE SafeStep
  <2>1. r \in Workers /\ Serving
    BY <1>3 DEF GraceExpires, Workers
  <2>2. CASE EndTask(r, "cancelled")
    BY <2>1, <2>2, EndTaskPreserves
  <2>3. CASE ~EndTask(r, "cancelled")
    <3>1. /\ run' = Finish(r, "cancelled") /\ Refuse(Parked(r), {})
          /\ UNCHANGED <<session, sessionOf, worker, deadline, daemon, launched>>
      BY <1>3, <2>3 DEF GraceExpires
    <3>2. \A q \in Runs : CalmRun(q)
      BY <1>t, <2>1, <3>1, WorkerInFlight DEF Finish, CalmRun, TypeOK
    <3>3. Calm
      BY <2>1, <3>1, <3>2, RefuseQuestions DEF Calm, Serving, Workers, Inv, QuestionsBegun
    <3> QED
      BY <1>t, <3>3, CalmPreserves
  <2> QED
    BY <2>2, <2>3
<1>4. ASSUME NEW o \in Ops, ParkTimeout(o) PROVE SafeStep
  <2>1. \A q \in Runs : CalmRun(q)
    BY <1>4 DEF ParkTimeout, Unpark, CalmRun
  <2>2. Calm
    BY <1>4, <2>1, RefuseQuestions DEF ParkTimeout, Calm, Serving, Workers, workers, Inv, QuestionsBegun
  <2> QED
    BY <1>t, <2>2, CalmPreserves
<1> QED
  BY <1>1, <1>2, <1>3, <1>4 DEF Timers

LEMMA DecisionsPreserve == Inv /\ Decisions => SafeStep
<1> USE DEF ActiveStates, InFlightStates, TerminalStates
<1> SUFFICES ASSUME Inv, Decisions PROVE SafeStep
  OBVIOUS
<1>t. TypeOK /\ TypeOK'
  BY DecisionsType DEF Inv
<1>a. ASSUME NEW r \in Runs, NEW o \in Ops, Ask(r, o),
             \A q \in Ops \ {o} : asking'[q] = asking[q]
      PROVE  SafeStep
  <2>1. run[r] \notin NotBegun
    BY <1>a DEF Ask, Inv, WorkersBegun, Workers
  <2>2. /\ opRun' = [opRun EXCEPT ![o] = r]
        /\ UNCHANGED <<records, workers, daemon, launched>>
    BY <1>a DEF Ask
  <2>3. \A q \in Ops : asking'[q] # "idle" => opRun'[q] \in Runs /\ run[opRun'[q]] \notin NotBegun
    BY <1>a, <1>t, <2>1, <2>2 DEF Inv, QuestionsBegun, TypeOK
  <2>4. Calm
    BY <2>2, <2>3 DEF Calm, CalmRun, Workers, records, workers
  <2> QED
    BY <1>t, <2>4, CalmPreserves
<1>1. ASSUME NEW r \in Runs, NEW o \in Ops, AskInactive(r, o) PROVE SafeStep
  BY <1>1, <1>a DEF AskInactive
<1>2. ASSUME NEW r \in Runs, NEW o \in Ops, AskOutside(r, o) PROVE SafeStep
  BY <1>2, <1>a DEF AskOutside
<1>3. ASSUME NEW r \in Runs, NEW o \in Ops, AskDecider(r, o) PROVE SafeStep
  BY <1>3, <1>t, <1>a DEF AskDecider, TypeOK
<1>4. ASSUME NEW o \in Ops, NEW verdict \in {"allow", "deny"}, DeciderAnswers(o, verdict)
      PROVE  SafeStep
  <2>1. run' = run /\ UNCHANGED <<session, sessionOf, opRun, workers, daemon, launched>>
    BY <1>4 DEF DeciderAnswers, DeciderTooLate, DeciderSettles
  <2>2. asking' = [asking EXCEPT ![o] = "idle"]
    BY <1>4 DEF DeciderAnswers
  <2>3. Calm
    BY <1>t, <2>1, <2>2 DEF Calm, CalmRun, Workers, workers, Inv, QuestionsBegun, TypeOK
  <2> QED
    BY <1>t, <2>3, CalmPreserves
<1>5. ASSUME NEW o \in Ops, DeciderAsks(o) PROVE SafeStep
  <2>1. /\ asking[o] = "decider" /\ daemon # "down"
        /\ UNCHANGED <<session, sessionOf, opRun, workers, daemon, launched>>
        /\ \A q \in Ops \ {o} : asking'[q] = asking[q]
    BY <1>5, <1>t DEF DeciderAsks, Serving, TypeOK
  <2>2. opRun[o] \in Runs /\ run[opRun[o]] \notin NotBegun
    BY <2>1 DEF Inv, QuestionsBegun
  <2>3. \A q \in Runs : CalmRun(q)
    <3>1. CASE Inactive(opRun[o])
      BY <1>5, <3>1 DEF DeciderAsks, DeciderTooLate, CalmRun
    <3>2. CASE ~Inactive(opRun[o])
      <4>1. run' = [run EXCEPT ![opRun[o]] = "waiting_for_approval"]
        BY <1>5, <3>2 DEF DeciderAsks
      <4>2. run[opRun[o]] \in InFlightStates
        BY <1>t, <2>2, <3>2 DEF Inactive, Over, NotBegun, TypeOK, RunStates
      <4> QED
        BY <1>t, <4>1, <4>2 DEF CalmRun, TypeOK
    <3> QED
      BY <3>1, <3>2
  <2>4. Calm
    BY <2>1, <2>2, <2>3 DEF Calm, Workers, workers, Inv, QuestionsBegun
  <2> QED
    BY <1>t, <2>4, CalmPreserves
<1> QED
  BY <1>1, <1>2, <1>3, <1>4, <1>5 DEF Decisions

\* One batch of the loop of shutdown() is calm, on records in which waiting runs
\* may have gone back to running.
LEMMA VisitCalm ==
    ASSUME Inv, Serving, TypeOK', NEW D,
           NEW seen, Visit(Unpark(run, D), NextVisits(seen)),
           deadline' \subseteq deadline, opRun' = opRun,
           \A o \in Ops : asking'[o] # "idle" => asking[o] # "idle"
    PROVE  SafeStep
<1> USE DEF ActiveStates, InFlightStates, TerminalStates
<1>1. NextVisits(seen) \subseteq Workers
  BY DEF NextVisits
<1>2. UNCHANGED <<session, sessionOf, worker, launched>> /\ daemon' = "stopping"
  BY DEF Visit
<1>3. \A r \in Runs : CalmRun(r)
  BY <1>1, WorkerInFlight DEF Visit, Unpark, CalmRun
<1>4. Calm
  BY <1>2, <1>3 DEF Calm, Workers, Serving, Inv, QuestionsBegun
<1> QED
  BY <1>4, CalmPreserves

\* Runs that were in flight and are over at once, with their sessions: when the
\* process gives up on them, or the next one finds them.
LostNow(lost) ==
    /\ session' = MarkLost(lost)
    /\ sessionOf' = sessionOf
    /\ \A r \in lost : run[r] \in InFlightStates

LEMMA LostSessions ==
    ASSUME Inv, NEW lost \in SUBSET Runs, LostNow(lost)
    PROVE  \A r \in Runs :
             /\ r \notin lost /\ run[r] \in ActiveStates => session'[sessionOf[r]] = "open"
             /\ run[r] = "outcome_unknown" \/ r \in lost =>
                  session'[sessionOf[r]] \in {"attention_required", "closed"}
             /\ run[r] # "none" => sessionOf[r] \in Sessions /\ session'[sessionOf[r]] # "none"
<1> USE DEF ActiveStates, InFlightStates
<1> SUFFICES ASSUME NEW r \in Runs, run[r] # "none"
             PROVE  /\ r \notin lost /\ run[r] \in ActiveStates =>
                         session'[sessionOf[r]] = "open"
                    /\ run[r] = "outcome_unknown" \/ r \in lost =>
                         session'[sessionOf[r]] \in {"attention_required", "closed"}
                    /\ sessionOf[r] \in Sessions /\ session'[sessionOf[r]] # "none"
  BY DEF LostNow
<1>1. sessionOf[r] \in Sessions /\ session[sessionOf[r]] # "none"
  BY DEF Inv, SessionKnown
<1>2. session'[sessionOf[r]] = IF RunsOf(sessionOf[r]) \cap lost # {} THEN "attention_required"
                               ELSE session[sessionOf[r]]
  BY <1>1 DEF LostNow, MarkLost
<1>3. r \in lost => RunsOf(sessionOf[r]) \cap lost # {}
  BY DEF RunsOf
<1>4. ASSUME r \notin lost, run[r] \in ActiveStates
      PROVE  RunsOf(sessionOf[r]) \cap lost = {}
  BY <1>4 DEF RunsOf, LostNow, Inv, OneActiveRun
<1>5. r \notin lost /\ run[r] \in ActiveStates => session'[sessionOf[r]] = "open"
  BY <1>2, <1>4 DEF Inv, ActiveInOpenSession
<1>6. run[r] = "outcome_unknown" \/ r \in lost =>
        session'[sessionOf[r]] \in {"attention_required", "closed"}
  BY <1>2, <1>3 DEF Inv, UnknownBlocksSession
<1> QED
  BY <1>1, <1>2, <1>5, <1>6

LEMMA LostKept ==
    ASSUME Inv, NEW lost \in SUBSET Runs, LostNow(lost)
    PROVE  \A r \in Runs : IF run[r] = "none" THEN sessionOf'[r] = None
                           ELSE run[r] = "removed" <=> session'[sessionOf'[r]] = "removed"
<1> SUFFICES ASSUME NEW r \in Runs, run[r] # "none"
             PROVE  run[r] = "removed" <=> session'[sessionOf[r]] = "removed"
  BY DEF LostNow, Inv, SessionsKept
<1>1. sessionOf[r] \in Sessions
  BY DEF Inv, SessionKnown
<1>2. session'[sessionOf[r]] = IF RunsOf(sessionOf[r]) \cap lost # {} THEN "attention_required"
                               ELSE session[sessionOf[r]]
  BY <1>1 DEF LostNow, MarkLost
<1>3. ASSUME NEW q \in RunsOf(sessionOf[r]) \cap lost
      PROVE  session[sessionOf[r]] = "open"
  <2>1. q \in Runs /\ sessionOf[q] = sessionOf[r] /\ run[q] \in ActiveStates
    BY <1>3 DEF RunsOf, LostNow, ActiveStates
  <2> QED
    BY <2>1 DEF Inv, ActiveInOpenSession
<1> QED
  BY <1>2, <1>3 DEF Inv, SessionsKept

LEMMA ShutdownEndsPreserves ==
    ASSUME Inv, TypeOK', ShutdownEnds
    PROVE  SafeStep
<1> USE DEF ActiveStates, InFlightStates, TerminalStates
<1> DEFINE left == {r \in Workers : ~Over(r)}
<1>1. /\ run' = [r \in Runs |-> IF r \in left THEN "outcome_unknown" ELSE run[r]]
      /\ session' = MarkLost(left) /\ sessionOf' = sessionOf /\ launched' = launched
      /\ daemon' = "down" /\ worker' = [r \in Runs |-> "none"] /\ deadline' = {}
      /\ asking' = [o \in Ops |-> "idle"]
  BY DEF ShutdownEnds, ForgetMemory
<1>2. \A r \in left : r \in Runs /\ run[r] \in InFlightStates
  BY WorkerInFlight
<1>12. daemon = "stopping"
  BY DEF ShutdownEnds
<1> HIDE DEF left
<1>3. left \in SUBSET Runs /\ LostNow(left)
  BY <1>1, <1>2 DEF LostNow
<1>4. \A r \in Runs :
        /\ r \notin left /\ run[r] \in ActiveStates => session'[sessionOf[r]] = "open"
        /\ run[r] = "outcome_unknown" \/ r \in left =>
             session'[sessionOf[r]] \in {"attention_required", "closed"}
        /\ run[r] # "none" => sessionOf[r] \in Sessions /\ session'[sessionOf[r]] # "none"
  BY <1>3, LostSessions
<1>5. \A r \in Runs : run'[r] \in ActiveStates => run[r] \in ActiveStates /\ r \notin left
  BY <1>1
<1>6. OneActiveRun' /\ ActiveInOpenSession'
  BY <1>1, <1>4, <1>5 DEF Inv, OneActiveRun, ActiveInOpenSession
<1>7. UnknownBlocksSession' /\ SessionKnown'
  BY <1>1, <1>2, <1>4 DEF UnknownBlocksSession, SessionKnown
<1>8. InFlightHasWorker' /\ WorkersBegun' /\ DeadlinesOwned' /\ QuestionsBegun'
  BY <1>1 DEF InFlightHasWorker, WorkersBegun, Workers, DeadlinesOwned, QuestionsBegun
<1>9. LaunchedBegun'
  BY <1>1 DEF Inv, LaunchedBegun, NotBegun, TypeOK
<1>10. Quiet
  BY <1>1, <1>2 DEF Quiet, Queued, Workers
<1>11. SessionsKept'
  <2>1. \A r \in Runs : IF run[r] = "none" THEN sessionOf'[r] = None
                        ELSE run[r] = "removed" <=> session'[sessionOf'[r]] = "removed"
    BY <1>3, LostKept
  <2>2. \A r \in Runs : /\ run'[r] = "none" <=> run[r] = "none"
                        /\ run'[r] = "removed" <=> run[r] = "removed"
    BY <1>1, <1>2
  <2> QED
    BY <2>1, <2>2 DEF SessionsKept
<1>13. Lived
  <2>1. \A r \in Runs : Moves(r)
    BY <1>1, <1>2, <1>12 DEF Moves
  <2>2. {r \in Runs : run[r] \in NotBegun /\ run'[r] = "starting"} = {}
    BY <1>1 DEF NotBegun
  <2> QED
    BY <1>1, <2>1, <2>2 DEF Lived
<1> QED
  BY <1>6, <1>7, <1>8, <1>9, <1>10, <1>11, <1>13 DEF Inv, SafeStep

LEMMA RestartPreserves ==
    ASSUME Inv, TypeOK', Restart
    PROVE  SafeStep
<1> USE DEF ActiveStates, InFlightStates, TerminalStates
<1>1. /\ session' = MarkLost(Lost) /\ UNCHANGED <<sessionOf, opRun, asking>>
      /\ Pump(Recovered, {})
  BY DEF Restart
<1>2. Lost \in SUBSET Runs /\ LostNow(Lost)
  BY <1>1 DEF LostNow, Lost
<1>3. \A r \in Runs :
        /\ r \notin Lost /\ run[r] \in ActiveStates => session'[sessionOf[r]] = "open"
        /\ run[r] = "outcome_unknown" \/ r \in Lost =>
             session'[sessionOf[r]] \in {"attention_required", "closed"}
        /\ run[r] # "none" => sessionOf[r] \in Sessions /\ session'[sessionOf[r]] # "none"
  BY <1>2, LostSessions
<1>4. Recovered \in [Runs -> RunStates]
  BY DEF Inv, Recovered, TypeOK, RunStates
<1>5. \A r \in Runs : IF r \in Lost THEN Recovered[r] = "outcome_unknown" /\ run[r] # "none"
                      ELSE Recovered[r] = run[r] /\ run[r] \notin InFlightStates
  BY DEF Recovered, Lost
<1>6. \A r \in Runs : run[r] \notin NotBegun => Recovered[r] \notin NotBegun
  BY <1>5 DEF NotBegun
<1>7. \A q, p \in Runs :
        Recovered[q] \in ActiveStates /\ Recovered[p] \in ActiveStates
          /\ sessionOf'[q] = sessionOf'[p] => q = p
  BY <1>1, <1>5 DEF Inv, OneActiveRun
<1>8. \A r \in Runs :
        /\ Recovered[r] # "none" => sessionOf'[r] \in Sessions /\ session'[sessionOf'[r]] # "none"
        /\ Recovered[r] \in ActiveStates => session'[sessionOf'[r]] = "open"
        /\ Recovered[r] = "outcome_unknown" =>
             session'[sessionOf'[r]] \in {"attention_required", "closed"}
        /\ Recovered[r] \notin InFlightStates
  BY <1>1, <1>3, <1>5
<1>9. \A r \in Runs : r \in {} \cup launched => Recovered[r] \notin NotBegun
  BY <1>6 DEF Inv, LaunchedBegun
<1>10. \A o \in Ops : asking'[o] # "idle" =>
         opRun'[o] \in Runs /\ Recovered[opRun'[o]] \notin NotBegun
  BY <1>1, <1>6 DEF Inv, QuestionsBegun
<1>11. \A r \in Runs : run[r] \in TerminalStates \cup {"queued"} => Recovered[r] = run[r]
  BY <1>5 DEF Lost
<1>13. \A r \in Runs : IF Recovered[r] = "none" THEN sessionOf'[r] = None
                       ELSE Recovered[r] = "removed" <=> session'[sessionOf'[r]] = "removed"
  <2>1. \A r \in Runs : IF run[r] = "none" THEN sessionOf'[r] = None
                        ELSE run[r] = "removed" <=> session'[sessionOf'[r]] = "removed"
    BY <1>2, LostKept
  <2>2. \A r \in Runs : /\ Recovered[r] = "none" <=> run[r] = "none"
                        /\ Recovered[r] = "removed" <=> run[r] = "removed"
    BY <1>5 DEF Lost
  <2> QED
    BY <2>1, <2>2
<1>12. PumpReady(Recovered, {})
  BY <1>7, <1>8, <1>9, <1>10, <1>11, <1>13 DEF PumpReady
<1>14. Prepared(Recovered)
  <2>1. daemon = "down" /\ daemon' = "up"
    BY DEF Restart
  <2>2. \A r \in Runs : r \in Lost <=> run[r] \in InFlightStates
    BY DEF Lost
  <2> QED
    BY <1>1, <1>5, <2>1, <2>2 DEF Prepared
<1> QED
  BY <1>1, <1>4, <1>12, <1>14, PumpPreserves DEF Inv

LEMMA ProcessPreserve == Inv /\ Process => SafeStep
<1> USE DEF ActiveStates, InFlightStates, TerminalStates
<1> SUFFICES ASSUME Inv, Process PROVE SafeStep
  OBVIOUS
<1>t. TypeOK /\ TypeOK'
  BY ProcessType DEF Inv
<1>a. ASSUME BeginShutdown, deadline' \subseteq deadline PROVE SafeStep
  <2> DEFINE parked == {o \in Ops : asking[o] = "parked"}
  <2>1. Refuse(parked, {}) /\ Visit(Unpark(run, parked), NextVisits({})) /\ Serving
    BY <1>a DEF BeginShutdown, Serving
  <2> HIDE DEF parked
  <2> QED
    BY <1>t, <1>a, <2>1, RefuseQuestions, VisitCalm
<1>1. ASSUME Shutdown PROVE SafeStep
  BY <1>1, <1>a DEF Shutdown
<1>2. ASSUME ShutdownVisits PROVE SafeStep
  <2>1. run = Unpark(run, {})
    BY <1>t DEF Unpark, TypeOK
  <2>2. /\ Serving /\ UNCHANGED <<operations, deadline>>
        /\ Visit(run, NextVisits(visited))
    BY <1>2 DEF ShutdownVisits, Serving
  <2>3. Visit(Unpark(run, {}), NextVisits(visited))
    BY <2>1, <2>2
  <2> QED
    BY <1>t, <2>2, <2>3, VisitCalm DEF operations
<1>3. ASSUME ShutdownEnds PROVE SafeStep
  BY <1>3, <1>t, ShutdownEndsPreserves
<1>d. ASSUME UNCHANGED <<session, run, opRun>>, ForgetMemory,
             asking' = [o \in Ops |-> "idle"]
      PROVE  SafeStep
  <2>1. /\ UNCHANGED <<session, run, sessionOf, launched>>
        /\ daemon' = "down" /\ worker' = [r \in Runs |-> "none"] /\ deadline' = {}
        /\ asking' = [o \in Ops |-> "idle"]
    BY <1>d DEF ForgetMemory
  <2>2. Quiet
    BY <2>1 DEF Quiet, Queued, Workers
  <2>3. Lived
    BY <2>1 DEF Lived, Moves, NotBegun
  <2> QED
    BY <1>t, <2>1, <2>2, <2>3
       DEF SafeStep, Inv, OneActiveRun, ActiveInOpenSession, UnknownBlocksSession,
           InFlightHasWorker, SessionKnown, WorkersBegun, LaunchedBegun, Workers,
           DeadlinesOwned, QuestionsBegun, SessionsKept
<1>4. ASSUME Crash PROVE SafeStep
  BY <1>4, <1>d DEF Crash
<1>12. ASSUME NEW o \in Ops, NEW verdict, KilledInResolve(o, verdict) PROVE SafeStep
  BY <1>12, <1>d DEF KilledInResolve
<1>5. ASSUME Restart PROVE SafeStep
  BY <1>5, <1>t, RestartPreserves
<1>6. ASSUME UNCHANGED <<session, run, sessionOf, operations, workers, daemon, launched>>
      PROVE  SafeStep
  <2>1. Calm
    BY <1>6 DEF Calm, CalmRun, Workers, operations, workers, Inv, QuestionsBegun
  <2> QED
    BY <1>t, <2>1, CalmPreserves
<1>7. ASSUME NEW r \in Runs, OrphanExits(r) PROVE SafeStep
  BY <1>7, <1>6 DEF OrphanExits, records
<1>13. ASSUME NEW r \in Runs, AgentExits(r) PROVE SafeStep
  BY <1>13, <1>6 DEF AgentExits, records
<1>8. ASSUME NEW w \in Workspaces, RemoveWorkspaceCheck(w) PROVE SafeStep
  BY <1>8, <1>6 DEF RemoveWorkspaceCheck, records
<1>9. ASSUME NEW w \in Workspaces, RemoveWorkspaceDelete(w) PROVE SafeStep
  BY <1>9, <1>6 DEF RemoveWorkspaceDelete
<1>10. ASSUME NEW s \in Sessions, Prune(s) PROVE SafeStep
  BY <1>10, <1>t, RemoveSessionPreserves DEF Prune
<1>11. ASSUME NEW r \in Runs, DeadlineRejects(r) PROVE SafeStep
  <2>1. deadline' = deadline \ {r}
    BY <1>11 DEF DeadlineRejects
  <2>2. CASE BeginShutdown
    BY <2>1, <2>2, <1>a
  <2>3. CASE ~BeginShutdown
    <3>1. UNCHANGED <<run, session, sessionOf, operations, worker, daemon, launched>>
      BY <1>11, <2>3 DEF DeadlineRejects, records
    <3>2. Calm
      BY <2>1, <3>1 DEF Calm, CalmRun, Workers, operations, Inv, QuestionsBegun
    <3> QED
      BY <1>t, <3>2, CalmPreserves
  <2> QED
    BY <2>2, <2>3
<1> QED
  BY <1>1, <1>2, <1>3, <1>4, <1>5, <1>7, <1>8, <1>9, <1>10, <1>11, <1>12, <1>13 DEF Process

-----------------------------------------------------------------------------
(* The theorems.                                                           *)

LEMMA InvHolds == Init => Inv
<1> SUFFICES ASSUME Init PROVE Inv
  OBVIOUS
<1>1. TypeOK
  BY DEF Init, TypeOK, RunStates
<1>2. SessionKnown /\ WorkersBegun /\ LaunchedBegun /\ DeadlinesOwned /\ QuestionsBegun
  BY DEF Init, SessionKnown, WorkersBegun, Workers, LaunchedBegun, DeadlinesOwned, QuestionsBegun
<1>3. OneActiveRun /\ ActiveInOpenSession /\ UnknownBlocksSession /\ InFlightHasWorker
  BY DEF Init, OneActiveRun, ActiveInOpenSession, UnknownBlocksSession, InFlightHasWorker,
         ActiveStates, InFlightStates
<1>4. SessionsKept
  BY DEF Init, SessionsKept
<1> QED
  BY <1>1, <1>2, <1>3, <1>4 DEF Inv

LEMMA EveryStep == Inv /\ [Next]_vars => SafeStep
<1> SUFFICES ASSUME Inv, [Next]_vars PROVE SafeStep
  OBVIOUS
<1>1. CASE UNCHANGED vars
  <2>1. TypeOK'
    BY <1>1 DEF Inv, vars, records, operations, workers, TypeOK
  <2>2. Calm
    BY <1>1 DEF Calm, CalmRun, Workers, vars, records, operations, workers, Inv, QuestionsBegun
  <2> QED
    BY <2>1, <2>2, CalmPreserves
<1> QED
  BY <1>1, RequestsPreserve, ProviderStepsPreserve, TimersPreserve, DecisionsPreserve,
     ProcessPreserve DEF Next

\* What the records and the worker map say about each other, in every state.
THEOREM Invariance == Spec => []Inv
<1>1. Inv /\ [Next]_vars => Inv'
  BY EveryStep DEF SafeStep
<1> QED
  BY <1>1, InvHolds, PTL DEF Spec

\* A session never has two runs in progress.
THEOREM OneActiveRunHolds == Spec => []OneActiveRun
<1>1. Inv => OneActiveRun
  BY DEF Inv
<1> QED
  BY <1>1, Invariance, PTL

\* An active run's session is open.
THEOREM ActiveInOpenSessionHolds == Spec => []ActiveInOpenSession
<1>1. Inv => ActiveInOpenSession
  BY DEF Inv
<1> QED
  BY <1>1, Invariance, PTL

\* A session that holds a run with an unknown outcome takes no other.
THEOREM UnknownBlocksSessionHolds == Spec => []UnknownBlocksSession
<1>1. Inv => UnknownBlocksSession
  BY DEF Inv
<1> QED
  BY <1>1, Invariance, PTL

\* A run in flight is owned by a worker of the living process.
THEOREM InFlightHasWorkerHolds == Spec => []InFlightHasWorker
<1>1. Inv => InFlightHasWorker
  BY DEF Inv
<1> QED
  BY <1>1, Invariance, PTL

\* The end of a run is final.
THEOREM TerminalIsFinalHolds == Spec => TerminalIsFinal
<1> DEFINE Final == \A r \in Runs : run[r] \in TerminalStates => run'[r] \in {run[r], "removed"}
<1>1. Inv /\ [Next]_vars => [Final]_vars
  <2> SUFFICES ASSUME Inv, [Next]_vars PROVE Final
    OBVIOUS
  <2>1. CASE Quiet
    BY <2>1 DEF Quiet
  <2>2. ASSUME NEW st \in [Runs -> RunStates], NEW busy \in SUBSET Workers, Pumping(st, busy)
        PROVE  Final
    <3>1. \A r \in Runs : st[r] # "queued" => run'[r] = st[r]
      BY <2>2, PumpFacts DEF Pumping, Inv
    <3> QED
      BY <2>2, <3>1 DEF Pumping, TerminalStates
  <2> QED
    BY <2>1, <2>2, EveryStep DEF SafeStep
<1> QED
  BY <1>1, Invariance, PTL DEF Spec, TerminalIsFinal

\* A run that was given to a provider once is never given to one again.
THEOREM NeverReplayedHolds == Spec => NeverReplayed
<1> DEFINE Once == \A r \in launched : worker[r] = "none" => worker'[r] = "none"
<1>1. Inv /\ [Next]_vars => [Once]_vars
  <2> SUFFICES ASSUME Inv, [Next]_vars PROVE Once
    OBVIOUS
  <2>1. ASSUME Workers' \cap launched \subseteq Workers
        PROVE  Once
    BY <2>1 DEF Workers, Inv, TypeOK
  <2>2. CASE Quiet
    BY <2>1, <2>2 DEF Quiet
  <2>3. ASSUME NEW st \in [Runs -> RunStates], NEW busy \in SUBSET Workers, Pumping(st, busy)
        PROVE  Once
    <3>1. Workers' = busy \cup Begun(st)
      BY <2>3, PumpFacts DEF Pumping, Inv
    <3> QED
      BY <2>1, <2>3, <3>1 DEF Pumping, Begun
  <2> QED
    BY <2>2, <2>3, EveryStep DEF SafeStep
<1> QED
  BY <1>1, Invariance, PTL DEF Spec, NeverReplayed

-----------------------------------------------------------------------------
(* The engine implements RunLifecycle.                                     *)

\* What a record says is one thing in the life of its run.
LEMMA LifeFacts ==
    ASSUME TypeOK
    PROVE  \A r \in Runs :
             /\ run[r] \in RunStates
             /\ run[r] = "none" <=> LifeOf(r) = "none"
             /\ run[r] = "queued" <=> LifeOf(r) = "waiting"
             /\ run[r] \in InFlightStates /\ daemon = "down" <=> LifeOf(r) = "lost"
             /\ run[r] \in InFlightStates /\ daemon # "down" <=> LifeOf(r) = "working"
             /\ run[r] \in TerminalStates <=> LifeOf(r) \in Life!Outcomes
             /\ run[r] \in TerminalStates => LifeOf(r) = run[r]
             /\ run[r] = "removed" <=> LifeOf(r) = "gone"
<1> USE DEF RunStates, ActiveStates, InFlightStates, TerminalStates
<1> SUFFICES ASSUME NEW r \in Runs, run[r] \in RunStates
             PROVE  /\ run[r] = "none" <=> LifeOf(r) = "none"
                    /\ run[r] = "queued" <=> LifeOf(r) = "waiting"
                    /\ run[r] \in InFlightStates /\ daemon = "down" <=> LifeOf(r) = "lost"
                    /\ run[r] \in InFlightStates /\ daemon # "down" <=> LifeOf(r) = "working"
                    /\ run[r] \in TerminalStates <=> LifeOf(r) \in Life!Outcomes
                    /\ run[r] \in TerminalStates => LifeOf(r) = run[r]
                    /\ run[r] = "removed" <=> LifeOf(r) = "gone"
  BY DEF TypeOK
<1>1. CASE run[r] \in InFlightStates
  BY <1>1 DEF LifeOf, Life!Outcomes
<1>2. CASE run[r] \in TerminalStates
  BY <1>2 DEF LifeOf, Life!Outcomes
<1>3. CASE run[r] \in {"none", "queued", "removed"}
  BY <1>3 DEF LifeOf, Life!Outcomes
<1> QED
  BY <1>1, <1>2, <1>3

\* The same of the next state.
LEMMA NextLifeFacts ==
    ASSUME TypeOK'
    PROVE  \A r \in Runs :
             /\ run'[r] \in RunStates
             /\ run'[r] = "none" <=> LifeOf(r)' = "none"
             /\ run'[r] = "queued" <=> LifeOf(r)' = "waiting"
             /\ run'[r] \in InFlightStates /\ daemon' = "down" <=> LifeOf(r)' = "lost"
             /\ run'[r] \in InFlightStates /\ daemon' # "down" <=> LifeOf(r)' = "working"
             /\ run'[r] \in TerminalStates <=> LifeOf(r)' \in Life!Outcomes
             /\ run'[r] \in TerminalStates => LifeOf(r)' = run'[r]
             /\ run'[r] = "removed" <=> LifeOf(r)' = "gone"
<1> USE DEF RunStates, ActiveStates, InFlightStates, TerminalStates
<1> SUFFICES ASSUME NEW r \in Runs, run'[r] \in RunStates
             PROVE  /\ run'[r] = "none" <=> LifeOf(r)' = "none"
                    /\ run'[r] = "queued" <=> LifeOf(r)' = "waiting"
                    /\ run'[r] \in InFlightStates /\ daemon' = "down" <=> LifeOf(r)' = "lost"
                    /\ run'[r] \in InFlightStates /\ daemon' # "down" <=> LifeOf(r)' = "working"
                    /\ run'[r] \in TerminalStates <=> LifeOf(r)' \in Life!Outcomes
                    /\ run'[r] \in TerminalStates => LifeOf(r)' = run'[r]
                    /\ run'[r] = "removed" <=> LifeOf(r)' = "gone"
  BY DEF TypeOK
<1>1. CASE run'[r] \in InFlightStates
  BY <1>1 DEF LifeOf, Life!Outcomes
<1>2. CASE run'[r] \in TerminalStates
  BY <1>2 DEF LifeOf, Life!Outcomes
<1>3. CASE run'[r] \in {"none", "queued", "removed"}
  BY <1>3 DEF LifeOf, Life!Outcomes
<1> QED
  BY <1>1, <1>2, <1>3

\* A record's move is a move of its life.
LEMMA MovesTold ==
    ASSUME TypeOK, TypeOK', NEW r \in Runs, Moves(r)
    PROVE  Life!Lives(r)
<1> DEFINE then == LifeOf(r)
           now == LifeOf(r)'
<1>1. /\ run[r] = "none" => then = "none"
      /\ run[r] = "queued" => then = "waiting"
      /\ run[r] \in InFlightStates /\ daemon = "down" => then = "lost"
      /\ run[r] \in InFlightStates /\ daemon # "down" => then = "working"
      /\ run[r] \in TerminalStates => then \in Life!Outcomes /\ then = run[r]
      /\ run[r] = "removed" => then = "gone"
      /\ run[r] \in RunStates
  BY LifeFacts
<1>2. /\ run'[r] = "none" => now = "none"
      /\ run'[r] = "queued" => now = "waiting"
      /\ run'[r] \in InFlightStates /\ daemon' = "down" => now = "lost"
      /\ run'[r] \in InFlightStates /\ daemon' # "down" => now = "working"
      /\ run'[r] \in TerminalStates => now \in Life!Outcomes /\ now = run'[r]
      /\ run'[r] = "removed" => now = "gone"
  BY NextLifeFacts
<1>3. /\ [q \in Runs |-> LifeOf(q)][r] = then
      /\ [q \in Runs |-> LifeOf(q)]'[r] = now
  OBVIOUS
<1> HIDE DEF then, now
<1>4. \/ now = then
      \/ then = "none" /\ Life!Joins(r) /\ now \in {"waiting", "working", "failed", "cancelled"}
      \/ /\ then = "waiting" /\ daemon' # "down" /\ now \in {"working", "failed", "cancelled"}
         /\ now = "working" => daemon' = "up"
      \/ then = "working" /\ now \in Life!Outcomes
      \/ then = "working" /\ daemon' = "down" /\ now = "lost"
      \/ then = "lost" /\ daemon' = "up" /\ now = "outcome_unknown"
      \/ then \in Life!Outcomes /\ now = "gone"
  <2> USE DEF RunStates, ActiveStates, InFlightStates, TerminalStates
  <2>1. CASE run'[r] = run[r] /\ (run[r] \in InFlightStates /\ daemon = "down" => daemon' = "down")
    BY <1>1, <1>2, <2>1
  <2>2. CASE /\ run[r] \in InFlightStates /\ daemon # "down" /\ daemon' # "down"
             /\ run'[r] \in InFlightStates
    BY <1>1, <1>2, <2>2
  <2>3. CASE run[r] \in InFlightStates /\ daemon # "down" /\ run'[r] \in TerminalStates
    BY <1>1, <1>2, <2>3
  <2>4. CASE /\ run[r] \in InFlightStates /\ daemon = "down" /\ daemon' = "up"
             /\ run'[r] = "outcome_unknown"
    BY <1>1, <1>2, <2>4
  <2>5. CASE /\ run[r] = "queued" /\ daemon' # "down"
             /\ \/ run'[r] = "starting" /\ daemon' = "up"
                \/ run'[r] \in {"failed", "cancelled"}
    BY <1>1, <1>2, <2>5
  <2>6. CASE /\ run[r] = "none" /\ Life!Joins(r) /\ daemon' = "up"
             /\ run'[r] \in {"queued", "starting", "failed", "cancelled"}
    BY <1>1, <1>2, <2>6
  <2>7. CASE run[r] \in TerminalStates /\ run'[r] = "removed"
    BY <1>1, <1>2, <2>7
  <2> QED
    BY <2>1, <2>2, <2>3, <2>4, <2>5, <2>6, <2>7 DEF Moves
<1> QED
  BY <1>3, <1>4
     DEF Life!Lives, Life!Arrives, Life!LeavesQueue, Life!Ends, Life!IsLost, Life!IsFound,
         Life!IsRemoved

\* Every step of the engine is a step of the promised life, or none.
LEMMA StepTold == Inv /\ Inv' /\ Lived => Life!Next
<1> SUFFICES ASSUME Inv, Inv', Lived PROVE Life!Next
  OBVIOUS
<1>t. TypeOK /\ TypeOK'
  BY DEF Inv
<1> DEFINE then(r) == LifeOf(r)
           now(r) == LifeOf(r)'
<1>1. \A r \in Runs : /\ [q \in Runs |-> LifeOf(q)][r] = then(r)
                      /\ [q \in Runs |-> LifeOf(q)]'[r] = now(r)
  OBVIOUS
<1>2. \A r \in Runs :
        /\ run[r] \in RunStates
        /\ run[r] = "none" <=> then(r) = "none"
        /\ run[r] \in InFlightStates /\ daemon # "down" <=> then(r) = "working"
  BY <1>t, LifeFacts
<1>3. \A r \in Runs :
        /\ run'[r] \in RunStates
        /\ run'[r] = "none" <=> now(r) = "none"
        /\ run'[r] \in InFlightStates /\ daemon' = "down" <=> now(r) = "lost"
        /\ run'[r] \in InFlightStates /\ daemon' # "down" <=> now(r) = "working"
        /\ run'[r] = "removed" <=> now(r) = "gone"
  BY <1>t, NextLifeFacts
<1> HIDE DEF then, now
<1>4. \A r \in Runs : Life!Lives(r)
  BY <1>t, MovesTold DEF Lived
<1>5. Life!Attended
  BY <1>1, <1>3 DEF Life!Attended
<1>6. \A r \in Runs : then(r) # "working" /\ now(r) = "working"
                      <=> run[r] \in NotBegun /\ run'[r] = "starting"
  <2> USE DEF RunStates, ActiveStates, InFlightStates, TerminalStates, NotBegun
  <2> SUFFICES ASSUME NEW r \in Runs
               PROVE  then(r) # "working" /\ now(r) = "working"
                      <=> run[r] \in NotBegun /\ run'[r] = "starting"
    OBVIOUS
  <2>1. Moves(r)
    BY DEF Lived
  <2>2. then(r) # "working" <=> ~(run[r] \in InFlightStates /\ daemon # "down")
    BY <1>2
  <2>3. now(r) = "working" <=> run'[r] \in InFlightStates /\ daemon' # "down"
    BY <1>3
  <2> QED
    BY <2>1, <2>2, <2>3 DEF Moves
<1>7. Life!GivenOnce
  BY <1>1, <1>6 DEF Life!GivenOnce, Lived
<1>8. ASSUME NEW r \in Runs
      PROVE  /\ then(r) # "none" => sessionOf'[r] = sessionOf[r]
             /\ now(r) = "none" => sessionOf'[r] = None
             /\ now(r) = "gone" => \A q \in Runs : sessionOf'[q] = sessionOf'[r] => now(q) = "gone"
  <2>1. then(r) # "none" => sessionOf'[r] = sessionOf[r]
    BY <1>2 DEF Lived
  <2>2. \A q \in Runs : IF run'[q] = "none" THEN sessionOf'[q] = None
                        ELSE run'[q] = "removed" <=> session'[sessionOf'[q]] = "removed"
    BY DEF Inv, SessionsKept
  <2>3. now(r) = "none" => sessionOf'[r] = None
    BY <1>3, <2>2
  <2>4. ASSUME now(r) = "gone", NEW q \in Runs, sessionOf'[q] = sessionOf'[r]
        PROVE  now(q) = "gone"
    <3>1. run'[r] = "removed"
      BY <1>3, <2>4
    <3>2. sessionOf'[r] \in Sessions
      BY <3>1 DEF Inv, SessionKnown
    <3>3. run'[q] # "none"
      BY <2>2, <2>4, <3>2, GatewayAssumption
    <3> QED
      BY <1>3, <2>2, <2>4, <3>1, <3>3
  <2> QED
    BY <2>1, <2>3, <2>4
<1>9. Life!Together
  BY <1>1, <1>8 DEF Life!Together
<1> QED
  BY <1>4, <1>5, <1>7, <1>9 DEF Life!Next, Lived

\* The engine keeps what is promised to whoever starts runs, whatever its workers, timers and
\* crashes do: it implements RunLifecycle.
THEOREM LivesAsToldHolds == Spec => LivesAsTold
<1>1. Init => Life!Init
  BY DEF Init, Life!Init, LifeOf, InFlightStates
<1>2. Inv /\ Inv' /\ [Next]_vars => [Life!Next]_(Life!vars)
  BY EveryStep, StepTold DEF SafeStep
<1> QED
  BY <1>1, <1>2, Invariance, PTL DEF Spec, LivesAsTold, Life!Spec

-----------------------------------------------------------------------------
(* The slots: how many runs the pump starts, and which ones.               *)

\* How many startable runs are older than this one.
Older(S, r) == {q \in S : q < r}
Rank(S, r) == Cardinality(Older(S, r))

LEMMA RunsFinite ==
    \A S : S \subseteq Runs => IsFiniteSet(S) /\ Cardinality(S) \in Nat
<1>1. IsFiniteSet(Runs)
  BY GatewayAssumption, FS_Interval DEF Runs
<1> QED
  BY <1>1, FS_Subset, FS_CardinalityType

LEMMA RunsAreNumbers == \A r \in Runs : r \in Nat
BY GatewayAssumption DEF Runs

\* Ranks grow with age.
LEMMA RankMonotonic ==
    ASSUME NEW S \in SUBSET Runs, NEW q \in Runs, NEW r \in Runs, q < r
    PROVE  /\ Rank(S, q) \in Nat /\ Rank(S, r) \in Nat
           /\ Rank(S, q) <= Rank(S, r)
           /\ q \in S => Rank(S, q) < Rank(S, r)
<1>1. q \in Nat /\ r \in Nat /\ \A x \in S : x \in Nat
  BY RunsAreNumbers
<1>2. Older(S, q) \subseteq Older(S, r) /\ q \notin Older(S, q)
  <2>1. \A x \in S : x < q => x < r
    BY <1>1
  <2>2. ~(q < q)
    BY <1>1
  <2> QED
    BY <2>1, <2>2 DEF Older
<1>3. IsFiniteSet(Older(S, q)) /\ IsFiniteSet(Older(S, r))
  <2>1. Older(S, q) \subseteq Runs /\ Older(S, r) \subseteq Runs
    BY DEF Older
  <2> QED
    BY <2>1, RunsFinite
<1>4. Rank(S, q) \in Nat /\ Rank(S, r) \in Nat
  BY <1>3, FS_CardinalityType DEF Rank
<1>5. /\ Rank(S, q) <= Rank(S, r)
      /\ Rank(S, q) = Rank(S, r) => Older(S, q) = Older(S, r)
  BY <1>2, <1>3, FS_Subset DEF Rank
<1>6. q \in S => q \in Older(S, r)
  BY DEF Older
<1> QED
  BY <1>2, <1>4, <1>5, <1>6

\* As many runs of a set have a rank below k as there are, up to k.
LEMMA RankCount ==
    ASSUME NEW S \in SUBSET Runs, NEW k \in Nat,
           NEW T, T = {r \in S : Rank(S, r) < k}
    PROVE  /\ Cardinality(T) <= k
           /\ \A q \in Runs : Rank(S, q) >= k => Cardinality(T) >= k
<1>0. /\ IsFiniteSet(S) /\ IsFiniteSet(T) /\ Cardinality(T) \in Nat
      /\ \A q \in S : q \in Nat
  <2>1. S \subseteq Runs /\ T \subseteq Runs
    OBVIOUS
  <2> QED
    BY <2>1, RunsFinite, RunsAreNumbers
<1>1. \A r \in S : Rank(S, r) \in Nat
  <2>1. \A r \in S : Older(S, r) \subseteq Runs
    BY DEF Older
  <2> QED
    BY <2>1, RunsFinite DEF Rank
<1>2. \A q, r \in S : Rank(S, q) = Rank(S, r) => q = r
  <2> SUFFICES ASSUME NEW q \in S, NEW r \in S, Rank(S, q) = Rank(S, r), q # r PROVE FALSE
    OBVIOUS
  <2>1. q < r \/ r < q
    BY <1>0
  <2> QED
    BY <2>1, RankMonotonic
<1>3. Cardinality(T) <= k
  <2> DEFINE f == [r \in T |-> Rank(S, r)]
  <2>1. f \in [T -> 0..(k - 1)]
    BY <1>1
  <2>2. f \in Injection(T, 0..(k - 1))
    BY <1>2, <2>1 DEF Injection, IsInjective
  <2>3. IsFiniteSet(0..(k - 1)) /\ Cardinality(0..(k - 1)) = k
    BY FS_Interval
  <2> HIDE DEF f
  <2> QED
    BY <2>2, <2>3, FS_Injection
<1>4. ASSUME NEW q \in Runs, Rank(S, q) >= k
      PROVE  Cardinality(T) >= k
  <2> DEFINE A == Older(S, q)
             n == Cardinality(A)
             g == [r \in A |-> Rank(S, r)]
             h == [r \in T |-> Rank(S, r)]
  <2>1. A \subseteq S /\ IsFiniteSet(A) /\ n \in Nat
    BY RunsFinite DEF Older
  <2>2. \A r \in A : Rank(S, r) \in 0..(n - 1)
    <3> SUFFICES ASSUME NEW r \in A PROVE Rank(S, r) \in Nat /\ Rank(S, r) < n
      BY <2>1
    <3>1. r \in Runs /\ r \in S /\ r < q
      BY DEF Older
    <3> QED
      BY <3>1, RankMonotonic DEF Rank
  <2>3. g \in Injection(A, 0..(n - 1))
    BY <1>2, <2>1, <2>2 DEF Injection, IsInjective
  <2>4. IsFiniteSet(0..(n - 1)) /\ Cardinality(0..(n - 1)) = n
    BY <2>1, FS_Interval
  <2>5. g \in Surjection(A, 0..(n - 1))
    <3> HIDE DEF g, A
    <3> QED
      BY <2>3, <2>4, FS_Injection
  <2>6. n >= k
    BY <1>4 DEF Rank
  <2>7. \A i \in 0..(k - 1) : \E r \in T : Rank(S, r) = i
    <3> SUFFICES ASSUME NEW i \in 0..(k - 1) PROVE \E r \in T : Rank(S, r) = i
      OBVIOUS
    <3>1. i \in 0..(n - 1)
      BY <2>1, <2>6
    <3>2. PICK r \in A : g[r] = i
      BY <2>5, <3>1 DEF Surjection
    <3>3. r \in S /\ Rank(S, r) = i
      BY <2>1, <3>2
    <3> QED
      BY <3>3
  <2>8. h \in Surjection(T, 0..(k - 1))
    <3>1. h \in [T -> 0..(k - 1)]
      BY <1>1
    <3> QED
      BY <2>7, <3>1 DEF Surjection
  <2>9. IsFiniteSet(0..(k - 1)) /\ Cardinality(0..(k - 1)) = k
    BY FS_Interval
  <2> HIDE DEF h
  <2> QED
    BY <1>0, <2>8, <2>9, FS_Surjection
<1> QED
  BY <1>3, <1>4

-----------------------------------------------------------------------------
(* Which runs a pump starts.                                               *)

Room(busy) == MaxConcurrent - Cardinality(busy)

LEMMA PumpChoice ==
    ASSUME NEW st \in [Runs -> RunStates], NEW busy \in SUBSET Runs, Pump(st, busy)
    PROVE  LET S == Startable(st) IN
           /\ daemon' = "up" => Begun(st) = {r \in S : Rank(S, r) < Room(busy)}
           /\ daemon' # "up" => Begun(st) = {}
           /\ \A r \in Runs : daemon' = "up" /\ run'[r] = "queued" =>
                st[r] = "queued" /\ ~(Rank(S, r) < Room(busy))
<1> DEFINE S == Startable(st)
           reached == IF daemon' = "up" THEN Reached(st, busy) ELSE {}
<1>1. S \in SUBSET Runs
  BY DEF Startable
<1>2. run' = [r \in Runs |->
                IF r \notin reached THEN st[r]
                ELSE IF r \in reached \cap S THEN "starting"
                ELSE IF session'[sessionOf'[r]] = "open" THEN "failed" ELSE "cancelled"]
  BY DEF Pump
<1>3. \A r \in S : st[r] = "queued"
  BY DEF Startable
<1>4. \A r \in Runs : r \in Reached(st, busy) <=> st[r] = "queued" /\ Rank(S, r) < Room(busy)
  <2> SUFFICES ASSUME NEW r \in Runs
               PROVE  r \in Reached(st, busy) <=> st[r] = "queued" /\ Rank(S, r) < Room(busy)
    OBVIOUS
  <2>1. Older(S, r) \in SUBSET Runs
    BY <1>1 DEF Older
  <2>2. Cardinality(busy) \in Nat /\ Rank(S, r) \in Nat
    BY <2>1, RunsFinite DEF Rank
  <2>3. r \in Reached(st, busy) <=> st[r] = "queued" /\ Cardinality(busy) + Rank(S, r) < MaxConcurrent
    BY DEF Reached, Rank, Older
  <2> HIDE DEF S
  <2> QED
    BY <2>2, <2>3, GatewayAssumption DEF Room
<1> HIDE DEF S
<1>5. CASE daemon' = "up"
  <2>1. reached = Reached(st, busy) /\ reached \subseteq Runs
    BY <1>5 DEF Reached
  <2>2. \A r \in reached : st[r] = "queued"
    BY <1>4, <2>1
  <2> HIDE DEF reached
  <2>3. Begun(st) = reached \cap S
    BY <1>1, <1>2, <1>3, <2>1, <2>2 DEF Begun
  <2>4. reached \cap S = {r \in S : Rank(S, r) < Room(busy)}
    BY <1>1, <1>3, <1>4, <2>1
  <2>5. \A r \in Runs : run'[r] = "queued" => st[r] = "queued" /\ ~(Rank(S, r) < Room(busy))
    BY <1>2, <1>4, <2>1
  <2> QED
    BY <1>5, <2>3, <2>4, <2>5 DEF S
<1>6. CASE daemon' # "up"
  <2>1. Begun(st) = {}
    BY <1>2, <1>6 DEF Begun
  <2> QED
    BY <1>6, <2>1
<1> QED
  BY <1>5, <1>6

LEMMA PumpSlots ==
    ASSUME Inv, NEW st \in [Runs -> RunStates], NEW busy \in SUBSET Workers, Pumping(st, busy),
           SlotsBounded
    PROVE  SlotsBounded' /\ NoIdleSlot'
<1> DEFINE S == Startable(st)
           k == Room(busy)
           T == Begun(st)
<1>1. Workers \subseteq Runs /\ busy \subseteq Runs /\ T \subseteq Runs /\ S \in SUBSET Runs
  BY DEF Workers, Begun, Startable
<1>2. /\ IsFiniteSet(Workers) /\ IsFiniteSet(busy) /\ IsFiniteSet(T)
      /\ Cardinality(Workers) \in Nat /\ Cardinality(busy) \in Nat /\ Cardinality(T) \in Nat
  BY <1>1, RunsFinite
<1>3. Cardinality(busy) <= Cardinality(Workers)
  BY <1>2, FS_Subset
<1>4. k \in Nat /\ k = MaxConcurrent - Cardinality(busy) /\ MaxConcurrent \in Nat
  BY <1>2, <1>3, GatewayAssumption DEF SlotsBounded, Room
<1>5. Workers' = busy \cup T /\ busy \cap T = {}
  BY PumpFacts DEF Pumping, Inv, Begun
<1>6. Cardinality(Workers') = Cardinality(busy) + Cardinality(T)
  <2>1. Cardinality({}) = 0
    BY FS_EmptySet
  <2> HIDE DEF T
  <2>2. Cardinality(busy \cup T) = Cardinality(busy) + Cardinality(T) - Cardinality(busy \cap T)
    BY <1>2, FS_Union
  <2> QED
    BY <1>2, <1>5, <2>1, <2>2
<1>7. /\ daemon' = "up" => T = {r \in S : Rank(S, r) < k}
      /\ daemon' # "up" => T = {}
      /\ \A r \in Runs : daemon' = "up" /\ run'[r] = "queued" => ~(Rank(S, r) < k)
  BY <1>1, PumpChoice DEF Pumping
<1> HIDE DEF S, k, T
<1>8. CASE daemon' = "up"
  <2>1. /\ Cardinality(T) <= k
        /\ \A q \in Runs : Rank(S, q) >= k => Cardinality(T) >= k
    BY <1>1, <1>4, <1>7, <1>8, RankCount
  <2>2. SlotsBounded'
    BY <1>2, <1>4, <1>6, <2>1 DEF SlotsBounded
  <2>3. ASSUME NEW q \in Queued' PROVE Cardinality(T) >= k
    <3>1. q \in Runs /\ ~(Rank(S, q) < k)
      BY <1>7, <1>8, <2>3 DEF Queued
    <3>2. Older(S, q) \in SUBSET Runs
      BY <1>1 DEF Older
    <3>3. Rank(S, q) \in Nat
      BY <3>2, RunsFinite DEF Rank
    <3> QED
      BY <1>4, <2>1, <3>1, <3>3
  <2>4. NoIdleSlot'
    BY <1>2, <1>4, <1>6, <2>3 DEF NoIdleSlot
  <2> QED
    BY <2>2, <2>4
<1>9. CASE daemon' # "up"
  <2>1. Cardinality(T) = 0
    BY <1>7, <1>9, FS_EmptySet
  <2> QED
    BY <1>2, <1>4, <1>6, <1>9, <2>1 DEF SlotsBounded, NoIdleSlot
<1> QED
  BY <1>8, <1>9

LEMMA QuietSlots ==
    ASSUME Inv, Quiet, SlotsBounded, NoIdleSlot
    PROVE  SlotsBounded' /\ NoIdleSlot'
<1>1. Workers \subseteq Runs /\ Workers' \subseteq Workers
  BY DEF Workers, Quiet
<1>2. IsFiniteSet(Workers) /\ Cardinality(Workers) \in Nat /\ Cardinality(Workers') \in Nat
  BY <1>1, RunsFinite
<1>3. Cardinality(Workers') <= Cardinality(Workers)
  BY <1>1, <1>2, FS_Subset
<1>4. SlotsBounded'
  BY <1>2, <1>3, GatewayAssumption DEF SlotsBounded
<1>5. NoIdleSlot'
  BY DEF NoIdleSlot, Quiet
<1> QED
  BY <1>4, <1>5

SlotInv == Inv /\ SlotsBounded /\ NoIdleSlot

\* The pump never holds more workers than there are slots, and leaves a run waiting
\* only while every slot is taken.
THEOREM SlotsHold == Spec => []SlotsKept
<1>1. Init => SlotInv
  <2> SUFFICES ASSUME Init PROVE SlotsBounded /\ NoIdleSlot
    BY InvHolds DEF SlotInv
  <2>1. Workers = {} /\ Queued = {}
    BY DEF Init, Workers, Queued
  <2> QED
    BY <2>1, FS_EmptySet, GatewayAssumption DEF SlotsBounded, NoIdleSlot
<1>2. SlotInv /\ [Next]_vars => SlotInv'
  <2> SUFFICES ASSUME SlotInv, [Next]_vars PROVE SlotInv'
    OBVIOUS
  <2>1. SafeStep
    BY EveryStep DEF SlotInv
  <2> QED
    BY <2>1, PumpSlots, QuietSlots DEF SafeStep, SlotInv
<1>3. SlotInv => SlotsKept
  BY DEF SlotInv, SlotsKept
<1> QED
  BY <1>1, <1>2, <1>3, PTL DEF Spec

\* First come, first served: a run never starts over the head of an older one.
THEOREM FirstComeFirstServedHolds == Spec => FirstComeFirstServed
<1> DEFINE Fair == \A q, r \in Runs :
                     q < r /\ run[q] = "queued" /\ run'[q] = "queued" =>
                       (r \in launched' => r \in launched)
<1>1. Inv /\ [Next]_vars => [Fair]_vars
  <2> SUFFICES ASSUME Inv, [Next]_vars PROVE Fair
    OBVIOUS
  <2>1. CASE Quiet
    BY <2>1 DEF Quiet
  <2>2. ASSUME NEW st \in [Runs -> RunStates], NEW busy \in SUBSET Workers, Pumping(st, busy)
        PROVE  Fair
    <3> DEFINE S == Startable(st)
    <3> SUFFICES ASSUME NEW q \in Runs, NEW r \in Runs, q < r, run'[q] = "queued", r \in Begun(st)
                 PROVE  FALSE
      BY <2>2, PumpFacts DEF Pumping, Inv
    <3>1. busy \in SUBSET Runs
      BY DEF Workers
    <3>2. daemon' = "up" /\ Rank(S, r) < Room(busy) /\ ~(Rank(S, q) < Room(busy))
      BY <2>2, <3>1, PumpChoice DEF Pumping
    <3>3. S \in SUBSET Runs
      BY DEF Startable
    <3> HIDE DEF S
    <3>4. /\ Rank(S, q) \in Nat /\ Rank(S, r) \in Nat
          /\ Rank(S, q) <= Rank(S, r)
      BY <3>3, RankMonotonic
    <3>5. Room(busy) \in Int
      BY <3>1, RunsFinite, GatewayAssumption DEF Room
    <3> QED
      BY <3>2, <3>4, <3>5
  <2> QED
    BY <2>1, <2>2, EveryStep DEF SafeStep
<1> QED
  BY <1>1, Invariance, PTL DEF Spec, FirstComeFirstServed

==============================================================================
