---------------------------- MODULE GatewayQuestions --------------------------
(* Theorems about what Gateway does with the questions of agents, and about     *)
(* the agents themselves, for any number of runs, sessions and operations.      *)
EXTENDS GatewaySafety

-----------------------------------------------------------------------------
(* Agents.                                                                 *)

\* How a run ends whose agent may go on for a while.
GivenUp == {"cancelled", "removed"} \cup (IF StorageMayFail THEN {"failed"} ELSE {})

WorkersAlive == Workers \subseteq agent

AgentStates == \A r \in agent : run[r] \in InFlightStates \cup {"outcome_unknown"} \cup GivenUp

OneUnknown ==
    \A r, q \in Runs :
        run[r] = "outcome_unknown" /\ run[q] = "outcome_unknown" /\ sessionOf[r] = sessionOf[q]
        => r = q

ClosingOver == \A r \in closing : Over(r)

\* OneAgent is not inductive: that an agent is not left behind by an outcome it did
\* not report rests on which outcomes close its handle, and that two unknown ones
\* never meet on what a session takes.
AgentInv == WorkersAlive /\ AgentStates /\ OneUnknown /\ ClosingOver

\* What a step does to the runs and to the agents.
AgentStep ==
    /\ \A r \in Runs : run'[r] = "outcome_unknown" =>
            run[r] \in ActiveStates \cup {"outcome_unknown"} /\ sessionOf'[r] = sessionOf[r]
    /\ WorkersAlive' /\ AgentStates'
    /\ \A r \in closing' : r \in closing \/ Over(r)'

LEMMA AgentStepPreserves ==
    ASSUME Inv, AgentInv, AgentStep, Lived
    PROVE  AgentInv'
<1>0. ClosingOver'
  <2>1. closing \subseteq Runs /\ \A r \in closing : Over(r)
    BY DEF Inv, TypeOK, AgentInv, ClosingOver
  <2>2. \A r \in Runs : Over(r) => Over(r)'
    BY DEF Lived, Moves, Over, TerminalStates, InFlightStates
  <2> QED
    BY <2>1, <2>2 DEF AgentStep, ClosingOver
<1> SUFFICES ASSUME NEW r \in Runs, NEW q \in Runs,
                    run'[r] = "outcome_unknown", run'[q] = "outcome_unknown",
                    sessionOf'[r] = sessionOf'[q]
             PROVE  r = q
  BY <1>0 DEF AgentInv, AgentStep, OneUnknown
<1>1. /\ run[r] \in ActiveStates \cup {"outcome_unknown"}
      /\ run[q] \in ActiveStates \cup {"outcome_unknown"}
      /\ sessionOf[r] = sessionOf[q]
  BY DEF AgentStep
<1>2. \A p \in Runs : /\ run[p] \in ActiveStates => session[sessionOf[p]] = "open"
                      /\ run[p] = "outcome_unknown" => session[sessionOf[p]] # "open"
  BY DEF Inv, ActiveInOpenSession, UnknownBlocksSession
<1>3. CASE run[r] = "outcome_unknown" /\ run[q] = "outcome_unknown"
  BY <1>1, <1>3 DEF AgentInv, OneUnknown
<1>4. CASE run[r] \in ActiveStates /\ run[q] \in ActiveStates
  BY <1>1, <1>4 DEF Inv, OneActiveRun
<1> QED
  BY <1>1, <1>2, <1>3, <1>4

\* Steps that start no agent, and end a run only in a way that may leave its agent alive.
AgentCalm ==
    /\ sessionOf' = sessionOf
    /\ Workers' \subseteq agent' /\ agent' \subseteq agent /\ closing' \subseteq closing
    /\ \A r \in Runs : run'[r] = run[r] \/ run'[r] \in InFlightStates \cup GivenUp

LEMMA AgentCalmStep ==
    ASSUME Inv, AgentInv, AgentCalm
    PROVE  AgentStep
<1>1. agent \subseteq Runs
  BY DEF Inv, TypeOK
<1>2. "outcome_unknown" \notin InFlightStates \cup GivenUp
  BY DEF InFlightStates, GivenUp
<1> QED
  BY <1>1, <1>2 DEF AgentInv, AgentCalm, AgentStep, WorkersAlive, AgentStates

\* The pump ends the agents of workers that return and begins those it starts.
LEMMA PumpAgents ==
    ASSUME Inv, AgentInv, NEW st \in [Runs -> RunStates], NEW busy \in SUBSET Workers,
           Pump(st, busy),
           \A r \in Runs : st[r] = "outcome_unknown" =>
               run[r] \in ActiveStates \cup {"outcome_unknown"} /\ sessionOf'[r] = sessionOf[r],
           \A r \in agent : r \notin Workers \ busy =>
               st[r] \in InFlightStates \cup {"outcome_unknown"} \cup GivenUp,
           \A r \in Workers \ busy : st[r] \in TerminalStates \cup {"removed"}
    PROVE  AgentStep
<1>1. /\ \A r \in Runs : st[r] # "queued" => run'[r] = st[r]
      /\ \A r \in Runs : st[r] = "queued" => run'[r] # "outcome_unknown"
      /\ Workers' = busy \cup Begun(st)
  BY PumpFacts DEF Inv
<1>2. agent' = (agent \ (Workers \ busy)) \cup Begun(st)
  <2> DEFINE reached == IF daemon' = "up" THEN Reached(st, busy) ELSE {}
             started == reached \cap Startable(st)
  <2>1. agent' = (agent \ (Workers \ busy)) \cup started
    BY DEF Pump, ToldToExit
  <2>2. run' = [r \in Runs |->
                  IF r \notin reached THEN st[r]
                  ELSE IF r \in started THEN "starting"
                  ELSE IF session'[sessionOf'[r]] = "open" THEN "failed" ELSE "cancelled"]
    BY DEF Pump
  <2>3. \A r \in started : r \in Runs /\ st[r] = "queued"
    BY DEF Startable
  <2>4. started \subseteq reached
    OBVIOUS
  <2> HIDE DEF reached, started
  <2>5. Begun(st) = started
    BY <2>2, <2>3, <2>4 DEF Begun
  <2> QED
    BY <2>1, <2>5
<1>3. \A r \in Begun(st) : r \in Runs /\ run'[r] = "starting"
  BY DEF Begun
<1>4. agent \subseteq Runs /\ Workers \subseteq agent
  BY DEF Inv, TypeOK, AgentInv, WorkersAlive
<1>5. \A r \in agent' : run'[r] \in InFlightStates \cup {"outcome_unknown"} \cup GivenUp
  <2> SUFFICES ASSUME NEW r \in agent', r \notin Begun(st)
               PROVE  run'[r] \in InFlightStates \cup {"outcome_unknown"} \cup GivenUp
    BY <1>3 DEF InFlightStates
  <2>1. r \in Runs /\ st[r] \in InFlightStates \cup {"outcome_unknown"} \cup GivenUp
    BY <1>2, <1>4
  <2>2. st[r] # "queued"
    BY <2>1 DEF InFlightStates, GivenUp
  <2> QED
    BY <1>1, <2>1, <2>2
<1>6. WorkersAlive'
  BY <1>1, <1>2, <1>4 DEF WorkersAlive
<1>7. \A r \in closing' : r \in closing \/ Over(r)'
  <2> SUFFICES ASSUME NEW r \in closing', r \notin closing PROVE Over(r)'
    OBVIOUS
  <2>1. r \in Workers \ busy
    BY DEF Pump, Lingering, ToldToExit
  <2>2. st[r] \in TerminalStates \cup {"removed"} /\ st[r] # "queued" /\ r \in Runs
    BY <2>1 DEF TerminalStates, Workers
  <2> QED
    BY <1>1, <2>2 DEF Over
<1> QED
  BY <1>1, <1>5, <1>6, <1>7 DEF AgentStep, AgentStates

LEMMA RemoveSessionAgents ==
    ASSUME Inv, AgentInv, NEW s \in Sessions, RemoveSession(s)
    PROVE  AgentStep
<1>1. AgentCalm
  BY DEF RemoveSession, AgentCalm, GivenUp, AgentInv, WorkersAlive, Workers, workers
<1> QED
  BY <1>1, AgentCalmStep

LEMMA EndTaskAgents ==
    ASSUME Inv, AgentInv, NEW r \in Workers, NEW outcome \in TerminalStates, EndTask(r, outcome)
    PROVE  AgentStep
<1> DEFINE st == Finish(r, outcome)
           busy == Workers \ {r}
<1>1. TypeOK /\ r \in Runs
  BY DEF Inv, Workers
<1>2. st \in [Runs -> RunStates]
  BY <1>1 DEF Finish, TypeOK, RunStates
<1>3. \A q \in Runs \ {r} : st[q] = run[q]
  BY <1>1 DEF Finish, TypeOK
<1>4. st[r] = run[r] \/ run[r] \in ActiveStates
  BY <1>1, WorkerInFlight DEF Finish, TypeOK, ActiveStates
<1>5. sessionOf' = sessionOf /\ Pump(st, busy)
  BY DEF EndTask
<1>6. Workers \ busy = {r}
  OBVIOUS
<1>9. st[r] \in TerminalStates \cup {"removed"}
  BY <1>1 DEF Finish, Over, TypeOK
<1> HIDE DEF st, busy
<1>7. busy \in SUBSET Workers
  BY DEF busy
<1>8. agent \subseteq Runs
  BY <1>1 DEF TypeOK
<1>10. \A q \in Workers \ busy : st[q] \in TerminalStates \cup {"removed"}
  BY <1>6, <1>9
<1> QED
  BY <1>2, <1>3, <1>4, <1>5, <1>6, <1>7, <1>8, <1>10, PumpAgents DEF AgentInv, AgentStates

LEMMA RequestsAgents == Inv /\ AgentInv /\ Requests => AgentStep
<1> SUFFICES ASSUME Inv, AgentInv, Requests PROVE AgentStep
  OBVIOUS
<1>t. TypeOK /\ Workers \subseteq agent
  BY DEF Inv, AgentInv, WorkersAlive
<1>1. ASSUME NEW s \in Sessions, NEW w \in Workspaces, CreateSession(s, w) PROVE AgentStep
  <2>1. AgentCalm
    BY <1>1, <1>t DEF CreateSession, AgentCalm, Workers, workers
  <2> QED
    BY <2>1, AgentCalmStep
<1>2. ASSUME NEW s \in Sessions, CloseSession(s) PROVE AgentStep
  <2>1. AgentCalm
    BY <1>2, <1>t DEF CloseSession, AgentCalm, Workers, workers
  <2> QED
    BY <2>1, AgentCalmStep
<1>3. ASSUME NEW r \in Runs, NEW s \in Sessions, CreateRun(r, s) PROVE AgentStep
  <2> DEFINE st == [run EXCEPT ![r] = "queued"]
  <2>1. run[r] = "none" /\ sessionOf' = [sessionOf EXCEPT ![r] = s] /\ Pump(st, Workers)
    BY <1>3 DEF CreateRun
  <2>2. /\ st \in [Runs -> RunStates] /\ st[r] = "queued"
        /\ \A q \in Runs \ {r} : st[q] = run[q] /\ sessionOf'[q] = sessionOf[q]
    BY <1>t, <2>1 DEF TypeOK, RunStates, ActiveStates
  <2>3. r \notin agent
    BY <2>1 DEF AgentInv, AgentStates, InFlightStates, GivenUp
  <2> HIDE DEF st
  <2>4. agent \subseteq Runs
    BY <1>t DEF TypeOK
  <2> QED
    BY <2>1, <2>2, <2>3, <2>4, PumpAgents DEF AgentInv, AgentStates
<1>4. ASSUME NEW r \in Runs, CancelQueued(r) PROVE AgentStep
  <2>1. AgentCalm
    BY <1>4, <1>t DEF CancelQueued, Finish, AgentCalm, GivenUp, Workers, workers, TypeOK
  <2> QED
    BY <2>1, AgentCalmStep
<1>5. ASSUME NEW r \in Runs, CancelRunning(r) PROVE AgentStep
  <2>1. AgentCalm
    BY <1>5, <1>t DEF CancelRunning, StopWorker, AgentCalm, InFlightStates, Workers, TypeOK
  <2> QED
    BY <2>1, AgentCalmStep
<1>6. ASSUME NEW o \in Ops, NEW verdict \in {"allow", "deny"}, Resolve(o, verdict) PROVE AgentStep
  <2>1. AgentCalm
    BY <1>6, <1>t DEF Resolve, Unpark, AgentCalm, InFlightStates, Workers, workers, TypeOK
  <2> QED
    BY <2>1, AgentCalmStep
<1>7. ASSUME NEW s \in Sessions, Retention(s) PROVE AgentStep
  BY <1>7, RemoveSessionAgents DEF Retention
<1> QED
  BY <1>1, <1>2, <1>3, <1>4, <1>5, <1>6, <1>7 DEF Requests

LEMMA ProviderStepsAgents == Inv /\ AgentInv /\ ProviderSteps => AgentStep
<1> SUFFICES ASSUME Inv, AgentInv, ProviderSteps PROVE AgentStep
  OBVIOUS
<1>t. TypeOK /\ Workers \subseteq agent
  BY DEF Inv, AgentInv, WorkersAlive
<1>1. ASSUME NEW r \in Runs, ProviderStarted(r) PROVE AgentStep
  <2>1. AgentCalm
    BY <1>1, <1>t DEF ProviderStarted, SetState, AgentCalm, InFlightStates, Workers, TypeOK
  <2> QED
    BY <2>1, AgentCalmStep
<1>2. ASSUME NEW r \in Runs, StartReturns(r) PROVE AgentStep
  <2>1. r \in Workers
    BY <1>2 DEF StartReturns, Workers
  <2>2. CASE r \in aborted
    BY <1>2, <2>1, <2>2, EndTaskAgents DEF StartReturns, TerminalStates
  <2>3. CASE r \notin aborted
    <3>1. AgentCalm
      BY <1>2, <1>t, <2>3 DEF StartReturns, AgentCalm, Workers, records, TypeOK
    <3> QED
      BY <3>1, AgentCalmStep
  <2> QED
    BY <2>2, <2>3
<1>3. ASSUME NEW r \in Runs, TaskFails(r) PROVE AgentStep
  BY <1>3, EndTaskAgents DEF TaskFails, Workers, TerminalStates
<1>4. ASSUME NEW r \in Runs, NEW outcome \in TerminalStates, Done(r, outcome) PROVE AgentStep
  BY <1>4, EndTaskAgents DEF Done, Workers
<1>5. ASSUME NEW r \in Runs, StorageFails(r) PROVE AgentStep
  <2>1. AgentCalm
    BY <1>5, <1>t DEF StorageFails, Finish, AgentCalm, GivenUp, Workers, workers, TypeOK
  <2> QED
    BY <2>1, AgentCalmStep
<1> QED
  BY <1>1, <1>2, <1>3, <1>4, <1>5 DEF ProviderSteps

LEMMA TimersAgents == Inv /\ AgentInv /\ Timers => AgentStep
<1> SUFFICES ASSUME Inv, AgentInv, Timers PROVE AgentStep
  OBVIOUS
<1>t. TypeOK /\ Workers \subseteq agent
  BY DEF Inv, AgentInv, WorkersAlive
<1>1. ASSUME NEW r \in Runs, Deadline(r) PROVE AgentStep
  <2>1. AgentCalm
    BY <1>1, <1>t DEF Deadline, StopWorker, AgentCalm, InFlightStates, Workers, TypeOK
  <2> QED
    BY <2>1, AgentCalmStep
<1>2. ASSUME NEW r \in Runs, InterruptReturns(r) PROVE AgentStep
  <2>1. AgentCalm
    BY <1>2, <1>t DEF InterruptReturns, AgentCalm, Workers, records
  <2> QED
    BY <2>1, AgentCalmStep
<1>3. ASSUME NEW r \in Runs, GraceExpires(r) PROVE AgentStep
  <2>1. r \in Workers
    BY <1>3 DEF GraceExpires, Workers
  <2>2. CASE EndTask(r, "cancelled")
    BY <2>1, <2>2, EndTaskAgents DEF TerminalStates
  <2>3. CASE ~EndTask(r, "cancelled")
    <3>1. AgentCalm
      BY <1>3, <1>t, <2>3 DEF GraceExpires, Finish, AgentCalm, GivenUp, Workers, TypeOK
    <3> QED
      BY <3>1, AgentCalmStep
  <2> QED
    BY <2>2, <2>3
<1>4. ASSUME NEW o \in Ops, ParkTimeout(o) PROVE AgentStep
  <2>1. AgentCalm
    BY <1>4, <1>t DEF ParkTimeout, Unpark, AgentCalm, InFlightStates, Workers, workers
  <2> QED
    BY <2>1, AgentCalmStep
<1> QED
  BY <1>1, <1>2, <1>3, <1>4 DEF Timers

LEMMA DecisionsAgents == Inv /\ AgentInv /\ Decisions => AgentStep
<1> SUFFICES ASSUME Inv, AgentInv, Decisions PROVE AgentCalm
  BY AgentCalmStep
<1>t. TypeOK /\ Workers \subseteq agent
  BY DEF Inv, AgentInv, WorkersAlive
<1>1. ASSUME NEW r \in Runs, NEW o \in Ops, Ask(r, o) PROVE AgentCalm
  BY <1>1, <1>t DEF Ask, AgentCalm, Workers, workers, records
<1>2. ASSUME NEW o \in Ops, NEW verdict \in {"allow", "deny"}, DeciderAnswers(o, verdict)
      PROVE  AgentCalm
  BY <1>2, <1>t DEF DeciderAnswers, DeciderTooLate, DeciderSettles, AgentCalm, Workers, workers
<1>3. ASSUME NEW o \in Ops, DeciderAsks(o) PROVE AgentCalm
  <2>1. UNCHANGED <<sessionOf, worker, agent, closing>>
    BY <1>3 DEF DeciderAsks, workers
  <2>2. run' = run \/ run' = [run EXCEPT ![opRun[o]] = "waiting_for_approval"]
    BY <1>3 DEF DeciderAsks, DeciderTooLate
  <2> QED
    BY <1>t, <2>1, <2>2 DEF AgentCalm, InFlightStates, Workers, TypeOK
<1> QED
  BY <1>1, <1>2, <1>3 DEF Decisions, AskInactive, AskOutside, AskDecider

LEMMA RestartAgents ==
    ASSUME Inv, AgentInv, Restart
    PROVE  AgentStep
<1>1. Pump(Recovered, {}) /\ sessionOf' = sessionOf
  BY DEF Restart
<1>2. Recovered \in [Runs -> RunStates]
  BY DEF Inv, Recovered, TypeOK, RunStates, TerminalStates
<1>3. \A r \in Runs : Recovered[r] = run[r] \/ (run[r] \in ActiveStates /\ Recovered[r] = "outcome_unknown")
  BY DEF Recovered, Lost, ActiveStates
<1>4. agent \subseteq Runs
  BY DEF Inv, TypeOK
<1>5. \A r \in agent : Recovered[r] \in InFlightStates \cup {"outcome_unknown"} \cup GivenUp
  BY <1>3, <1>4 DEF AgentInv, AgentStates
<1>6. \A r \in Workers : Recovered[r] \in TerminalStates \cup {"removed"}
  BY WorkerInFlight DEF Recovered, Lost, TerminalStates, Workers, Over
<1> QED
  BY <1>1, <1>2, <1>3, <1>5, <1>6, PumpAgents

LEMMA ProcessAgents == Inv /\ AgentInv /\ Process => AgentStep
<1> SUFFICES ASSUME Inv, AgentInv, Process PROVE AgentStep
  OBVIOUS
<1>t. TypeOK /\ Workers \subseteq agent /\ agent \subseteq Runs
  BY DEF Inv, AgentInv, WorkersAlive, TypeOK
<1>a. ASSUME NEW D, NEW batch, Visit(Unpark(run, D), batch) PROVE AgentCalm
  BY <1>a, <1>t DEF Visit, Unpark, AgentCalm, InFlightStates, Workers
<1>b. ASSUME BeginShutdown PROVE AgentCalm
  BY <1>b, <1>a DEF BeginShutdown
<1>1. ASSUME Shutdown PROVE AgentCalm
  BY <1>1, <1>b DEF Shutdown
<1>2. ASSUME ShutdownVisits PROVE AgentCalm
  BY <1>2, <1>t DEF ShutdownVisits, Visit, AgentCalm, InFlightStates, Workers
<1>3. ASSUME ShutdownEnds PROVE AgentStep
  <2>1. /\ \A r \in Runs : run'[r] = run[r] \/ (r \in Workers /\ ~Over(r) /\ run'[r] = "outcome_unknown")
        /\ sessionOf' = sessionOf /\ agent' \subseteq agent /\ worker' = [r \in Runs |-> "none"]
    BY <1>3, <1>t DEF ShutdownEnds, ForgetMemory
  <2>2. \A r \in Workers : ~Over(r) => run[r] \in ActiveStates
    BY WorkerInFlight DEF ActiveStates
  <2>3. \A r \in closing' : r \in closing \/ Over(r)'
    <3> SUFFICES ASSUME NEW r \in closing', r \notin closing PROVE Over(r)'
      OBVIOUS
    <3>1. r \in Workers /\ r \in Runs
      BY <1>3 DEF ShutdownEnds, Lingering, Workers
    <3>2. run'[r] = IF ~Over(r) THEN "outcome_unknown" ELSE run[r]
      BY <1>3, <3>1 DEF ShutdownEnds
    <3> QED
      BY <3>2 DEF Over, TerminalStates
  <2> QED
    BY <1>t, <2>1, <2>2, <2>3 DEF AgentStep, AgentInv, WorkersAlive, AgentStates, Workers
<1>4. ASSUME Crash PROVE AgentCalm
  BY <1>4, <1>t DEF Crash, ForgetMemory, AgentCalm, Workers
<1>12. ASSUME NEW o \in Ops, NEW verdict, KilledInResolve(o, verdict) PROVE AgentCalm
  BY <1>12, <1>t DEF KilledInResolve, ForgetMemory, AgentCalm, Workers
<1>5. ASSUME Restart PROVE AgentStep
  BY <1>5, RestartAgents
<1>6. ASSUME UNCHANGED <<run, sessionOf, worker>>, Workers \subseteq agent', agent' \subseteq agent,
             closing' \subseteq closing
      PROVE  AgentCalm
  BY <1>6 DEF AgentCalm, Workers
<1>7. ASSUME NEW r \in Runs, OrphanExits(r) PROVE AgentCalm
  BY <1>7, <1>6, <1>t DEF OrphanExits, records, workers, Workers
<1>13. ASSUME NEW r \in Runs, AgentExits(r) PROVE AgentCalm
  BY <1>13, <1>6, <1>t DEF AgentExits, records, workers
<1>8. ASSUME NEW w \in Workspaces, RemoveWorkspaceCheck(w) PROVE AgentCalm
  BY <1>8, <1>6, <1>t DEF RemoveWorkspaceCheck, records, workers
<1>9. ASSUME NEW w \in Workspaces, RemoveWorkspaceDelete(w) PROVE AgentCalm
  BY <1>9, <1>6, <1>t DEF RemoveWorkspaceDelete, workers
<1>10. ASSUME NEW s \in Sessions, Prune(s) PROVE AgentStep
  BY <1>10, RemoveSessionAgents DEF Prune
<1>11. ASSUME NEW r \in Runs, DeadlineRejects(r) PROVE AgentCalm
  BY <1>11, <1>b, <1>6, <1>t DEF DeadlineRejects, records
<1> QED
  BY <1>1, <1>2, <1>3, <1>4, <1>5, <1>7, <1>8, <1>9, <1>10, <1>11, <1>12, <1>13, AgentCalmStep
     DEF Process

LEMMA EveryStepAgents == Inv /\ AgentInv /\ [Next]_vars => AgentInv'
<1>1. Inv /\ AgentInv /\ UNCHANGED vars => AgentCalm
  BY DEF AgentInv, AgentCalm, WorkersAlive, Workers, vars, records, workers
<1>2. Inv /\ [Next]_vars => Lived
  BY EveryStep DEF SafeStep
<1> QED
  BY <1>1, <1>2, AgentCalmStep, AgentStepPreserves, RequestsAgents, ProviderStepsAgents, TimersAgents,
     DecisionsAgents, ProcessAgents DEF Next

LEMMA AgentInvariance == Spec => []AgentInv
<1>1. Init => AgentInv
  BY DEF Init, AgentInv, WorkersAlive, Workers, AgentStates, OneUnknown, ClosingOver
<1> QED
  BY <1>1, EveryStepAgents, Invariance, PTL DEF Spec

\* Two agents are alive in one conversation only if one of them was told to exit, its run
\* being over, or was given up: a lost agent blocks its session, in this process and after
\* a restart (gateway.ts:630-660, rpc.ts:232-240).
THEOREM OneAgentHolds == Spec => []OneAgent
<1>1. Inv /\ AgentInv => OneAgent
  <2> SUFFICES ASSUME Inv, AgentInv,
                      NEW r \in agent \cup closing, NEW q \in agent \cup closing,
                      r # q, sessionOf[r] = sessionOf[q],
                      ~(r \in closing /\ Over(r)), run[r] \notin GivenUp,
                      ~(q \in closing /\ Over(q)), run[q] \notin GivenUp
               PROVE  FALSE
    BY DEF OneAgent, GivenUp
  <2>0. r \in agent /\ q \in agent
    BY DEF AgentInv, ClosingOver
  <2>1. r \in Runs /\ q \in Runs
    BY <2>0 DEF Inv, TypeOK
  <2>2. /\ run[r] \in ActiveStates \cup {"outcome_unknown"}
        /\ run[q] \in ActiveStates \cup {"outcome_unknown"}
    BY <2>0 DEF AgentInv, AgentStates, ActiveStates
  <2> QED
    BY <2>1, <2>2 DEF Inv, OneActiveRun, ActiveInOpenSession, UnknownBlocksSession, AgentInv, OneUnknown
<1> QED
  BY <1>1, AgentInvariance, Invariance, PTL

-----------------------------------------------------------------------------
(* Questions.                                                              *)

Unasked == \A o \in Ops : opRun[o] = NoRun => op[o] = "none" /\ answer[o] = "none" /\ asking[o] = "idle"

\* What waits for the decider is not answered, and not decided either, although it may
\* have expired with its run or gone with its session.
WaitingOpen ==
    \A o \in Ops : asking[o] # "idle" =>
        answer[o] = "none" /\ op[o] \in {"deciding", "pending", "expired", "removed"}

DownIdle == daemon = "down" => \A o \in Ops : asking[o] = "idle"

RemovedTogether == \A o \in Ops : op[o] = "removed" => run[opRun[o]] = "removed"

QuestionInv ==
    Unasked /\ WaitingOpen /\ DownIdle /\ RemovedTogether /\ ParkedIsPending /\ TallyMatches

\* The two action properties, as formulas about one step.
Final ==
    \A o \in Ops :
        /\ op[o] \in Decided => op'[o] \in {op[o], "removed"}
        /\ answer[o] # "none" => answer'[o] = answer[o]

YesInTime ==
    \A o \in Ops : answer[o] # "allow" /\ answer'[o] = "allow" =>
        /\ run[opRun[o]] \in InFlightStates \ {"cancelling"}
        /\ opRun[o] \in agent \ (aborted \cup closing)

\* Who decides tells the agent: no step but a kill in resolve() leaves a decision unheard.
Heard == \A o \in Ops : Unheard(o)' => Unheard(o) /\ opRun'[o] = opRun[o]

QuestionStep == QuestionInv' /\ Final /\ YesInTime /\ Heard

Denied(r) == {o \in Ops : opRun[o] = r /\ op[o] = "denied" /\ ~Unheard(o)}
Allowed(r) == {o \in Ops : opRun[o] = r /\ answer[o] = "allow"}

LEMMA OpsFinite ==
    ASSUME NEW S \in SUBSET Ops
    PROVE  IsFiniteSet(S) /\ Cardinality(S) \in Nat
BY GatewayAssumption, FS_Subset, FS_CardinalityType

LEMMA TallySplit ==
    TallyMatches <=>
        \A r \in Runs : run[r] # "removed" =>
            tally[r].denied = Cardinality(Denied(r)) /\ tally[r].allowed = Cardinality(Allowed(r))
BY DEF TallyMatches, Denied, Allowed

\* What is asked belongs to a run.
LEMMA AskedOfRun ==
    ASSUME TypeOK, Unasked, NEW o \in Ops, op[o] # "none" \/ answer[o] # "none" \/ asking[o] # "idle"
    PROVE  opRun[o] \in Runs
BY DEF TypeOK, Unasked

-----------------------------------------------------------------------------
(* The tally.                                                              *)

\* What is counted for no run leaves the numbers right.
LEMMA TallyKept ==
    ASSUME TallyMatches, tally' = tally,
           \A r \in Runs : run'[r] # "removed" =>
               run[r] # "removed" /\ Denied(r)' = Denied(r) /\ Allowed(r)' = Allowed(r)
    PROVE  TallyMatches'
BY DEF TallyMatches, Denied, Allowed

\* Refusals of parked questions are counted for their runs.
LEMMA TallyRefused ==
    ASSUME TypeOK, TallyMatches, NEW D \in SUBSET Ops,
           \A o \in D : op[o] = "pending" /\ answer[o] = "none",
           opRun' = opRun,
           tally' = [r \in Runs |-> [tally[r] EXCEPT !.denied = @ + Cardinality(OfRun(D, r))]],
           \A o \in Ops :
               /\ op'[o] = "denied" /\ answer'[o] # "none" <=>
                    (op[o] = "denied" /\ answer[o] # "none") \/ o \in D
               /\ answer'[o] = "allow" <=> answer[o] = "allow",
           \A r \in Runs : run'[r] # "removed" => run[r] # "removed"
    PROVE  TallyMatches'
<1> SUFFICES ASSUME NEW r \in Runs, run'[r] # "removed"
             PROVE  /\ tally'[r].denied = Cardinality(Denied(r)')
                    /\ tally'[r].allowed = Cardinality(Allowed(r)')
  BY DEF TallyMatches, Denied, Allowed
<1>1. tally[r].denied = Cardinality(Denied(r)) /\ tally[r].allowed = Cardinality(Allowed(r))
  BY TallySplit
<1>2. Denied(r)' = Denied(r) \cup OfRun(D, r) /\ Denied(r) \cap OfRun(D, r) = {}
  BY DEF Denied, OfRun, Unheard, Decided
<1>3. Allowed(r)' = Allowed(r)
  BY DEF Allowed
<1>4. /\ tally'[r].denied = tally[r].denied + Cardinality(OfRun(D, r))
      /\ tally'[r].allowed = tally[r].allowed
  BY DEF TypeOK
<1>5. Denied(r) \in SUBSET Ops /\ OfRun(D, r) \in SUBSET Ops
  BY DEF Denied, OfRun
<1>6. Cardinality(Denied(r) \cup OfRun(D, r)) = Cardinality(Denied(r)) + Cardinality(OfRun(D, r))
  <2>1. /\ IsFiniteSet(Denied(r)) /\ Cardinality(Denied(r)) \in Nat
        /\ IsFiniteSet(OfRun(D, r)) /\ Cardinality(OfRun(D, r)) \in Nat
    BY <1>5, OpsFinite
  <2>2. Cardinality(Denied(r) \cup OfRun(D, r)) =
          Cardinality(Denied(r)) + Cardinality(OfRun(D, r)) - Cardinality(Denied(r) \cap OfRun(D, r))
    BY <2>1, FS_Union
  <2>3. Cardinality(Denied(r) \cap OfRun(D, r)) = 0
    BY <1>2, FS_EmptySet
  <2> QED
    BY <2>1, <2>2, <2>3
<1> QED
  BY <1>1, <1>2, <1>3, <1>4, <1>6

\* One decision is counted for its run.
LEMMA TallyCounted ==
    ASSUME TypeOK, TallyMatches, NEW o \in Ops, NEW r \in Runs,
           NEW verdict \in {"allow", "deny"}, Count(r, verdict),
           opRun'[o] = r, op[o] # "denied", answer[o] # "allow",
           op'[o] = "denied" <=> verdict = "deny", answer'[o] = verdict,
           \A q \in Ops \ {o} : opRun'[q] = opRun[q] /\ op'[q] = op[q] /\ answer'[q] = answer[q],
           \A q \in Runs : run'[q] # "removed" => run[q] # "removed"
    PROVE  TallyMatches'
<1> SUFFICES ASSUME NEW q \in Runs, run'[q] # "removed"
             PROVE  /\ tally'[q].denied = Cardinality(Denied(q)')
                    /\ tally'[q].allowed = Cardinality(Allowed(q)')
  BY DEF TallyMatches, Denied, Allowed
<1>1. tally[q].denied = Cardinality(Denied(q)) /\ tally[q].allowed = Cardinality(Allowed(q))
  BY TallySplit
<1>2. /\ Denied(q)' = IF q = r /\ verdict = "deny" THEN Denied(q) \cup {o} ELSE Denied(q)
      /\ Allowed(q)' = IF q = r /\ verdict = "allow" THEN Allowed(q) \cup {o} ELSE Allowed(q)
  BY DEF Denied, Allowed, Unheard, Decided
<1>3. Cardinality(Denied(q) \cup {o}) = Cardinality(Denied(q)) + 1
  <2>1. o \notin Denied(q) /\ Denied(q) \in SUBSET Ops
    BY DEF Denied
  <2> QED
    BY <2>1, OpsFinite, FS_AddElement
<1>4. Cardinality(Allowed(q) \cup {o}) = Cardinality(Allowed(q)) + 1
  <2>1. o \notin Allowed(q) /\ Allowed(q) \in SUBSET Ops
    BY DEF Allowed
  <2> QED
    BY <2>1, OpsFinite, FS_AddElement
<1>5. /\ tally'[q].denied = IF q = r /\ verdict = "deny" THEN tally[q].denied + 1 ELSE tally[q].denied
      /\ tally'[q].allowed = IF q = r /\ verdict = "allow" THEN tally[q].allowed + 1
                             ELSE tally[q].allowed
  BY DEF Count, TypeOK
<1> QED
  BY <1>1, <1>2, <1>3, <1>4, <1>5

-----------------------------------------------------------------------------
(* Steps that answer no question with a decision.                          *)

\* What the runs of the questions that stay may do meanwhile.
RunsSpare(refused) ==
    /\ daemon' = "down" <=> daemon = "down"
    /\ \A r \in Runs : run[r] = "removed" => run'[r] = "removed"
    /\ daemon # "down" =>
         \A o \in Ops : op[o] = "pending" /\ o \notin refused => run'[opRun[o]] \in InFlightStates

\* Parked questions D are refused for want of a decision, and E, which are not parked,
\* expire: a drain, a time-out, the end of a task.
LEMMA RefusePreserves ==
    ASSUME TypeOK, QuestionInv, NEW D \in SUBSET Ops, NEW E, Refuse(D, E),
           \A o \in D : asking[o] = "parked",
           \A o \in E : o \in Ops /\ op[o] \in {"deciding", "pending"} /\ asking[o] # "parked",
           RunsSpare(D)
    PROVE  QuestionStep
<1> USE DEF QuestionInv
<1>1. /\ op' = [o \in Ops |-> IF o \in D THEN "denied" ELSE IF o \in E THEN "expired" ELSE op[o]]
      /\ asking' = [o \in Ops |-> IF o \in D THEN "idle" ELSE asking[o]]
      /\ answer' = [o \in Ops |-> IF o \in D THEN "deny" ELSE answer[o]]
      /\ tally' = [r \in Runs |-> [tally[r] EXCEPT !.denied = @ + Cardinality(OfRun(D, r))]]
      /\ opRun' = opRun
  BY DEF Refuse
<1>2. \A o \in D : op[o] = "pending" /\ answer[o] = "none" /\ daemon # "down"
  BY DEF DownIdle, ParkedIsPending, WaitingOpen
<1>3. \A o \in D \cup E : opRun[o] # NoRun
  BY <1>2 DEF Unasked
<1>4. Unasked'
  BY <1>1, <1>3 DEF Unasked
<1>5. WaitingOpen' /\ DownIdle'
  BY <1>1 DEF WaitingOpen, DownIdle, RunsSpare
<1>6. RemovedTogether'
  <2> SUFFICES ASSUME NEW o \in Ops, op'[o] = "removed" PROVE run'[opRun'[o]] = "removed"
    BY DEF RemovedTogether
  <2>1. op[o] = "removed" /\ opRun'[o] = opRun[o]
    BY <1>1
  <2>2. opRun[o] \in Runs /\ run[opRun[o]] = "removed"
    BY <2>1, AskedOfRun DEF RemovedTogether
  <2> QED
    BY <2>1, <2>2 DEF RunsSpare
<1>7. ParkedIsPending'
  BY <1>1, <1>2 DEF ParkedIsPending, RunsSpare
<1>8. TallyMatches'
  <2>1. \A r \in Runs : run'[r] # "removed" => run[r] # "removed"
    BY DEF RunsSpare
  <2> QED
    BY <1>1, <1>2, <2>1, TallyRefused
<1>9. Final /\ YesInTime /\ Heard
  BY <1>1, <1>2 DEF Final, YesInTime, Decided, Heard, Unheard
<1> QED
  BY <1>4, <1>5, <1>6, <1>7, <1>8, <1>9 DEF QuestionStep

\* A step that leaves the questions alone refuses none.
LEMMA UntouchedRefuses ==
    ASSUME TypeOK, UNCHANGED operations
    PROVE  Refuse({}, {})
<1>1. \A r : OfRun({}, r) = {}
  BY DEF OfRun
<1>2. \A r : Cardinality(OfRun({}, r)) = 0
  BY <1>1, FS_EmptySet
<1>3. \A r \in Runs : tally[r] = [tally[r] EXCEPT !.denied = @ + 0]
  BY DEF TypeOK
<1>4. tally = [r \in Runs |-> [tally[r] EXCEPT !.denied = @ + Cardinality(OfRun({}, r))]]
  BY <1>2, <1>3 DEF TypeOK
<1> QED
  BY <1>4 DEF Refuse, TypeOK, operations

LEMMA UntouchedPreserves ==
    ASSUME TypeOK, QuestionInv, UNCHANGED operations, RunsSpare({})
    PROVE  QuestionStep
<1>1. Refuse({}, {})
  BY UntouchedRefuses
<1> QED
  BY <1>1, RefusePreserves

\* A run of a question that waits is one of Runs.
LEMMA PendingOfRun ==
    ASSUME TypeOK, QuestionInv, daemon # "down", NEW o \in Ops, op[o] = "pending"
    PROVE  opRun[o] \in Runs /\ run[opRun[o]] \in InFlightStates /\ asking[o] = "parked"
BY AskedOfRun DEF QuestionInv, ParkedIsPending

\* The pump touches no run that is in flight or removed.
LEMMA PumpSpares ==
    ASSUME TypeOK, QuestionInv, Serving, NEW st \in [Runs -> RunStates], NEW busy \in SUBSET Workers,
           Pump(st, busy), NEW refused,
           daemon' = daemon,
           \A r \in Runs : run[r] = "removed" => st[r] = "removed",
           \A o \in Ops : op[o] = "pending" /\ o \notin refused => st[opRun[o]] = run[opRun[o]]
    PROVE  RunsSpare(refused)
<1>1. \A r \in Runs : st[r] # "queued" => run'[r] = st[r]
  BY PumpFacts
<1> QED
  BY <1>1, PendingOfRun DEF RunsSpare, InFlightStates, Serving

LEMMA EndTaskQuestions ==
    ASSUME Inv, QuestionInv, Serving, NEW r \in Workers, NEW outcome \in TerminalStates,
           EndTask(r, outcome)
    PROVE  QuestionStep
<1> DEFINE st == Finish(r, outcome)
           busy == Workers \ {r}
<1>1. TypeOK /\ r \in Runs
  BY DEF Inv, Workers
<1>2. st \in [Runs -> RunStates]
  BY <1>1 DEF Finish, TypeOK, RunStates
<1>3. /\ \A q \in Runs \ {r} : st[q] = run[q]
      /\ run[r] = "removed" => st[r] = "removed"
  BY <1>1 DEF Finish, TypeOK, Over
<1>4. Pump(st, busy) /\ daemon' = daemon /\ Refuse(Parked(r), Undecided(r) \ Parked(r))
  BY DEF EndTask
<1>5. \A o \in Ops : op[o] = "pending" /\ o \notin Parked(r) => st[opRun[o]] = run[opRun[o]]
  BY <1>1, <1>3, PendingOfRun DEF Parked, Serving
<1> HIDE DEF st, busy
<1>6. busy \in SUBSET Workers
  BY DEF busy
<1>7. RunsSpare(Parked(r))
  BY <1>1, <1>2, <1>3, <1>4, <1>5, <1>6, PumpSpares
<1>8. Parked(r) \in SUBSET Ops /\ \A o \in Parked(r) : asking[o] = "parked"
  BY DEF Parked
<1>9. \A o \in Undecided(r) \ Parked(r) :
        o \in Ops /\ op[o] \in {"deciding", "pending"} /\ asking[o] # "parked"
  BY DEF Undecided, Parked
<1> QED
  BY <1>1, <1>4, <1>7, <1>8, <1>9, RefusePreserves

\* The parked questions of one run are refused; the run may be stopped or ended.
LEMMA DrainQuestions ==
    ASSUME Inv, QuestionInv, NEW r \in Runs, Refuse(Parked(r), {}), daemon' = daemon,
           \A q \in Runs \ {r} : run'[q] = run[q],
           run[r] = "removed" => run'[r] = "removed"
    PROVE  QuestionStep
<1>1. TypeOK
  BY DEF Inv
<1>2. Parked(r) \in SUBSET Ops /\ \A o \in Parked(r) : asking[o] = "parked"
  BY DEF Parked
<1>3. RunsSpare(Parked(r))
  BY <1>1, PendingOfRun DEF RunsSpare, Parked
<1> QED
  BY <1>1, <1>2, <1>3, RefusePreserves

\* The questions are left alone, and so are the runs of those that wait.
LEMMA LeftAloneQuestions ==
    ASSUME Inv, QuestionInv, UNCHANGED operations, daemon' = "down" <=> daemon = "down",
           \A r \in Runs :
               \/ run'[r] = run[r]
               \/ run[r] \in ActiveStates /\ run'[r] \in InFlightStates
               \/ run[r] \in NotBegun
    PROVE  QuestionStep
<1>1. TypeOK
  BY DEF Inv
<1>2. RunsSpare({})
  BY <1>1, PendingOfRun DEF RunsSpare, ActiveStates, InFlightStates, NotBegun
<1> QED
  BY <1>1, <1>2, UntouchedPreserves

-----------------------------------------------------------------------------
(* Requests and what the provider does.                                    *)

\* A yes reaches an agent that may act: it is alive, and its run goes on.
LEMMA MayAct ==
    ASSUME Inv, AgentInv, Serving, NEW r \in Runs, run[r] \notin NotBegun, ~Inactive(r)
    PROVE  run[r] \in InFlightStates \ {"cancelling"} /\ r \in agent \ (aborted \cup closing)
<1>1. run[r] \in InFlightStates \ {"cancelling"} /\ r \notin aborted
  BY DEF Inactive, Over, Inv, TypeOK, RunStates, ActiveStates, NotBegun
<1>2. r \in Workers
  BY <1>1 DEF Inv, InFlightHasWorker, Workers, Serving
<1>3. r \notin closing
  BY <1>1 DEF AgentInv, ClosingOver, Over, InFlightStates, TerminalStates
<1> QED
  BY <1>1, <1>2, <1>3 DEF AgentInv, WorkersAlive

LEMMA ResolveQuestions ==
    ASSUME Inv, AgentInv, QuestionInv, NEW o \in Ops, NEW verdict \in {"allow", "deny"},
           Resolve(o, verdict)
    PROVE  QuestionStep
<1> USE DEF QuestionInv
<1>t. TypeOK /\ Serving
  BY DEF Inv, Resolve
<1>1. op[o] = "pending" /\ asking[o] = "parked" /\ answer[o] = "none"
  BY DEF Resolve, WaitingOpen
<1>2. opRun[o] \in Runs /\ run[opRun[o]] \in InFlightStates /\ run[opRun[o]] \notin NotBegun
  BY <1>t, <1>1, PendingOfRun DEF Serving, InFlightStates, NotBegun
<1>3. /\ op' = [op EXCEPT ![o] = IF verdict = "allow" THEN "allowed" ELSE "denied"]
      /\ asking' = [asking EXCEPT ![o] = "idle"]
      /\ UNCHANGED <<opRun, aborted, daemon, agent>>
  BY DEF Resolve, workers
<1>4. \A r \in Runs :
        \/ run'[r] = run[r]
        \/ run[r] = "waiting_for_approval" /\ run'[r] = "running"
  BY DEF Resolve, Unpark
<1>5. /\ answer' = [answer EXCEPT ![o] = IF verdict = "allow" /\ Inactive(opRun[o])
                                         THEN "deny" ELSE verdict]
      /\ IF verdict = "allow" /\ Inactive(opRun[o]) THEN tally' = tally
         ELSE Count(opRun[o], verdict)
  BY DEF Resolve
<1>6. \A q \in Ops \ {o} : op'[q] = op[q] /\ answer'[q] = answer[q] /\ asking'[q] = asking[q]
  BY <1>t, <1>3, <1>5 DEF TypeOK
<1>7. /\ op'[o] = IF verdict = "allow" THEN "allowed" ELSE "denied"
      /\ asking'[o] = "idle"
      /\ answer'[o] = IF verdict = "allow" /\ Inactive(opRun[o]) THEN "deny" ELSE verdict
  BY <1>t, <1>3, <1>5 DEF TypeOK
<1>8. Unasked' /\ WaitingOpen' /\ DownIdle'
  BY <1>t, <1>1, <1>2, <1>3, <1>6, <1>7 DEF Unasked, WaitingOpen, DownIdle, NoRun
<1>9. RemovedTogether'
  <2> SUFFICES ASSUME NEW q \in Ops, op'[q] = "removed" PROVE run'[opRun[q]] = "removed"
    BY <1>3 DEF RemovedTogether
  <2>1. q # o /\ op[q] = "removed"
    BY <1>6, <1>7
  <2> QED
    BY <1>t, <1>4, <2>1, AskedOfRun DEF RemovedTogether
<1>10. ParkedIsPending'
  <2> SUFFICES ASSUME NEW q \in Ops
               PROVE  /\ asking'[q] = "parked" <=> op'[q] = "pending"
                      /\ op'[q] = "pending" => run'[opRun[q]] \in InFlightStates
    BY <1>3 DEF ParkedIsPending
  <2>1. CASE q = o
    BY <1>7, <2>1
  <2>2. CASE q # o
    <3>1. op'[q] = "pending" => run'[opRun[q]] \in InFlightStates
      BY <1>t, <1>4, <1>6, <2>2, PendingOfRun DEF Serving, InFlightStates
    <3> QED
      BY <1>t, <1>6, <2>2, <3>1 DEF ParkedIsPending, Serving
  <2> QED
    BY <2>1, <2>2
<1>11. TallyMatches'
  <2>1. \A r \in Runs : run'[r] # "removed" => run[r] # "removed"
    BY <1>4
  <2>2. CASE verdict = "allow" /\ Inactive(opRun[o])
    <3>1. \A r \in Runs : Denied(r)' = Denied(r) /\ Allowed(r)' = Allowed(r)
      BY <1>1, <1>3, <1>6, <1>7, <2>2 DEF Denied, Allowed, Unheard
    <3> QED
      BY <1>5, <2>1, <2>2, <3>1, TallyKept
  <2>3. CASE ~(verdict = "allow" /\ Inactive(opRun[o]))
    <3>1. /\ Count(opRun[o], verdict) /\ opRun'[o] = opRun[o] /\ answer'[o] = verdict
          /\ op'[o] = "denied" <=> verdict = "deny"
      BY <1>3, <1>5, <1>7, <2>3
    <3> QED
      BY <1>t, <1>1, <1>2, <1>3, <1>6, <2>1, <3>1, TallyCounted
  <2> QED
    BY <2>2, <2>3
<1>12. Final /\ Heard
  BY <1>1, <1>3, <1>6, <1>7 DEF Final, Decided, Heard, Unheard
<1>13. YesInTime
  <2> SUFFICES ASSUME answer'[o] = "allow"
               PROVE  /\ run[opRun[o]] \in InFlightStates \ {"cancelling"}
                      /\ opRun[o] \in agent \ (aborted \cup closing)
    BY <1>6 DEF YesInTime
  <2>1. ~Inactive(opRun[o])
    BY <1>7
  <2> QED
    BY <1>t, <1>2, <2>1, MayAct
<1> QED
  BY <1>8, <1>9, <1>10, <1>11, <1>12, <1>13 DEF QuestionStep

LEMMA RemoveSessionQuestions ==
    ASSUME Inv, QuestionInv, NEW s \in Sessions, RemoveSession(s)
    PROVE  QuestionStep
<1> USE DEF QuestionInv
<1>t. TypeOK
  BY DEF Inv
<1>1. /\ run' = [r \in Runs |-> IF r \in RunsOf(s) THEN "removed" ELSE run[r]]
      /\ op' = [o \in Ops |-> IF opRun[o] \in RunsOf(s) /\ op[o] # "none" THEN "removed" ELSE op[o]]
      /\ UNCHANGED <<opRun, tally, asking, answer, daemon>>
  BY DEF RemoveSession
<1>2. RunsOf(s) \subseteq Runs /\ \A r \in RunsOf(s) : run[r] \notin ActiveStates
  BY DEF RemoveSession, Busy, RunsOf
<1>3. \A o \in Ops : op[o] # "none" => opRun[o] \in Runs
  BY <1>t, AskedOfRun
<1>4. daemon # "down" => \A o \in Ops : op[o] = "pending" => opRun[o] \notin RunsOf(s)
  BY <1>t, <1>2, PendingOfRun DEF ActiveStates
<1>5. Unasked' /\ WaitingOpen' /\ DownIdle'
  BY <1>1 DEF Unasked, WaitingOpen, DownIdle
<1>6. RemovedTogether'
  BY <1>1, <1>3 DEF RemovedTogether
<1>7. ParkedIsPending'
  BY <1>t, <1>1, <1>4, PendingOfRun DEF ParkedIsPending
<1>8. TallyMatches'
  <2>1. \A r \in Runs : run'[r] # "removed" => r \notin RunsOf(s) /\ run[r] # "removed"
    BY <1>1
  <2>2. \A r \in Runs \ RunsOf(s) : Denied(r)' = Denied(r) /\ Allowed(r)' = Allowed(r)
    BY <1>1 DEF Denied, Allowed, Unheard
  <2> QED
    BY <1>1, <2>1, <2>2, TallyKept
<1>9. Final /\ YesInTime /\ Heard
  BY <1>1 DEF Final, YesInTime, Heard, Unheard, Decided
<1> QED
  BY <1>5, <1>6, <1>7, <1>8, <1>9 DEF QuestionStep

LEMMA RequestsQuestions == Inv /\ AgentInv /\ QuestionInv /\ Requests => QuestionStep
<1> SUFFICES ASSUME Inv, AgentInv, QuestionInv, Requests PROVE QuestionStep
  OBVIOUS
<1>t. TypeOK
  BY DEF Inv
<1>1. ASSUME NEW s \in Sessions, NEW w \in Workspaces, CreateSession(s, w) PROVE QuestionStep
  <2>1. UNCHANGED operations /\ UNCHANGED <<daemon, run>>
    BY <1>1 DEF CreateSession
  <2> QED
    BY <2>1, LeftAloneQuestions
<1>2. ASSUME NEW s \in Sessions, CloseSession(s) PROVE QuestionStep
  <2>1. UNCHANGED operations /\ UNCHANGED <<daemon, run>>
    BY <1>2 DEF CloseSession
  <2> QED
    BY <2>1, LeftAloneQuestions
<1>3. ASSUME NEW r \in Runs, NEW s \in Sessions, CreateRun(r, s) PROVE QuestionStep
  <2> DEFINE st == [run EXCEPT ![r] = "queued"]
  <2>1. run[r] = "none" /\ UNCHANGED <<operations, daemon>> /\ Pump(st, Workers) /\ Serving
    BY <1>3 DEF CreateRun, Serving
  <2>2. st \in [Runs -> RunStates] /\ \A q \in Runs : run[q] # "none" => st[q] = run[q]
    BY <1>t, <2>1 DEF TypeOK, RunStates, ActiveStates
  <2> HIDE DEF st
  <2>3. \A o \in Ops : op[o] = "pending" => st[opRun[o]] = run[opRun[o]]
    BY <1>t, <2>1, <2>2, PendingOfRun DEF Serving, InFlightStates
  <2>4. RunsSpare({})
    BY <1>t, <2>1, <2>2, <2>3, PumpSpares
  <2> QED
    BY <1>t, <2>1, <2>4, UntouchedPreserves
<1>4. ASSUME NEW r \in Runs, CancelQueued(r) PROVE QuestionStep
  <2>1. run[r] = "queued"
    BY <1>4 DEF CancelQueued, Serving, Inv, InFlightHasWorker, ActiveStates
  <2>2. \A q \in Runs \ {r} : run'[q] = run[q]
    BY <1>4, <1>t DEF CancelQueued, Finish, TypeOK
  <2>3. UNCHANGED operations /\ UNCHANGED daemon
    BY <1>4 DEF CancelQueued
  <2> QED
    BY <2>1, <2>2, <2>3, LeftAloneQuestions DEF NotBegun
<1>5. ASSUME NEW r \in Runs, CancelRunning(r) PROVE QuestionStep
  <2>1. run[r] # "removed" /\ \A q \in Runs \ {r} : run'[q] = run[q]
    BY <1>5, <1>t DEF CancelRunning, StopWorker, TypeOK, ActiveStates, InFlightStates
  <2> QED
    BY <1>5, <2>1, DrainQuestions DEF CancelRunning, StopWorker
<1>6. ASSUME NEW o \in Ops, NEW verdict \in {"allow", "deny"}, Resolve(o, verdict)
      PROVE  QuestionStep
  BY <1>6, ResolveQuestions
<1>7. ASSUME NEW s \in Sessions, Retention(s) PROVE QuestionStep
  BY <1>7, RemoveSessionQuestions DEF Retention
<1> QED
  BY <1>1, <1>2, <1>3, <1>4, <1>5, <1>6, <1>7 DEF Requests

LEMMA ProviderStepsQuestions == Inv /\ QuestionInv /\ ProviderSteps => QuestionStep
<1> SUFFICES ASSUME Inv, QuestionInv, ProviderSteps PROVE QuestionStep
  OBVIOUS
<1>t. TypeOK
  BY DEF Inv
<1>1. ASSUME NEW r \in Runs, ProviderStarted(r) PROVE QuestionStep
  <2>1. r \in Workers /\ ~Over(r)
    BY <1>1 DEF ProviderStarted, Workers
  <2>2. run[r] \in ActiveStates /\ run' = [run EXCEPT ![r] = "running"]
    BY <1>1, <2>1, WorkerInFlight DEF ProviderStarted, SetState, ActiveStates
  <2>3. \A q \in Runs : run'[q] = run[q] \/ (run[q] \in ActiveStates /\ run'[q] \in InFlightStates)
    BY <1>t, <2>2 DEF TypeOK, InFlightStates
  <2>4. UNCHANGED operations /\ UNCHANGED daemon
    BY <1>1 DEF ProviderStarted
  <2> QED
    BY <2>3, <2>4, LeftAloneQuestions
<1>2. ASSUME NEW r \in Runs, StartReturns(r) PROVE QuestionStep
  <2>1. r \in Workers /\ Serving
    BY <1>2 DEF StartReturns, Workers
  <2>2. CASE r \in aborted
    BY <1>2, <2>1, <2>2, EndTaskQuestions DEF StartReturns, TerminalStates
  <2>3. CASE r \notin aborted
    <3>1. UNCHANGED operations /\ UNCHANGED daemon /\ UNCHANGED records
      BY <1>2, <2>3 DEF StartReturns
    <3> QED
      BY <3>1, LeftAloneQuestions DEF records
  <2> QED
    BY <2>2, <2>3
<1>3. ASSUME NEW r \in Runs, TaskFails(r) PROVE QuestionStep
  BY <1>3, EndTaskQuestions DEF TaskFails, Workers, TerminalStates
<1>4. ASSUME NEW r \in Runs, NEW outcome \in TerminalStates, Done(r, outcome) PROVE QuestionStep
  BY <1>4, EndTaskQuestions DEF Done, Workers
<1>5. ASSUME NEW r \in Runs, StorageFails(r) PROVE QuestionStep
  <2>1. run[r] # "removed" /\ \A q \in Runs \ {r} : run'[q] = run[q]
    BY <1>5, <1>t DEF StorageFails, Finish, Over, TypeOK
  <2> QED
    BY <1>5, <2>1, DrainQuestions DEF StorageFails
<1> QED
  BY <1>1, <1>2, <1>3, <1>4, <1>5 DEF ProviderSteps

LEMMA TimersQuestions == Inv /\ QuestionInv /\ Timers => QuestionStep
<1> SUFFICES ASSUME Inv, QuestionInv, Timers PROVE QuestionStep
  OBVIOUS
<1>t. TypeOK
  BY DEF Inv
<1>1. ASSUME NEW r \in Runs, Deadline(r) PROVE QuestionStep
  <2>1. UNCHANGED daemon /\ run[r] # "removed"
    BY <1>1 DEF Deadline
  <2>2. CASE Over(r)
    <3>1. UNCHANGED operations /\ UNCHANGED run
      BY <1>1, <2>2 DEF Deadline
    <3> QED
      BY <2>1, <3>1, LeftAloneQuestions
  <2>3. CASE ~Over(r)
    <3>1. Refuse(Parked(r), {}) /\ \A q \in Runs \ {r} : run'[q] = run[q]
      BY <1>1, <1>t, <2>3 DEF Deadline, StopWorker, TypeOK
    <3> QED
      BY <2>1, <3>1, DrainQuestions
  <2> QED
    BY <2>2, <2>3
<1>2. ASSUME NEW r \in Runs, InterruptReturns(r) PROVE QuestionStep
  <2>1. UNCHANGED operations /\ UNCHANGED daemon /\ UNCHANGED records
    BY <1>2 DEF InterruptReturns
  <2> QED
    BY <2>1, LeftAloneQuestions DEF records
<1>3. ASSUME NEW r \in Runs, GraceExpires(r) PROVE QuestionStep
  <2>1. r \in Workers /\ Serving
    BY <1>3 DEF GraceExpires, Workers
  <2>2. CASE EndTask(r, "cancelled")
    BY <2>1, <2>2, EndTaskQuestions DEF TerminalStates
  <2>3. CASE ~EndTask(r, "cancelled")
    <3>1. /\ run' = Finish(r, "cancelled") /\ Refuse(Parked(r), {})
          /\ UNCHANGED daemon
      BY <1>3, <2>3 DEF GraceExpires
    <3>2. /\ \A q \in Runs \ {r} : run'[q] = run[q]
          /\ run[r] = "removed" => run'[r] = "removed"
      BY <1>t, <3>1 DEF Finish, Over, TypeOK
    <3> QED
      BY <3>1, <3>2, DrainQuestions
  <2> QED
    BY <2>2, <2>3
<1>4. ASSUME NEW o \in Ops, ParkTimeout(o) PROVE QuestionStep
  <2>1. {o} \in SUBSET Ops /\ Refuse({o}, {}) /\ asking[o] = "parked" /\ UNCHANGED daemon
    BY <1>4 DEF ParkTimeout
  <2>2. \A r \in Runs :
          \/ run'[r] = run[r]
          \/ run[r] = "waiting_for_approval" /\ run'[r] = "running"
    BY <1>4 DEF ParkTimeout, Unpark
  <2>3. RunsSpare({o})
    BY <1>t, <2>1, <2>2, PendingOfRun DEF RunsSpare, InFlightStates
  <2> QED
    BY <1>t, <2>1, <2>3, RefusePreserves
<1> QED
  BY <1>1, <1>2, <1>3, <1>4 DEF Timers

-----------------------------------------------------------------------------
(* What decide() does.                                                     *)

\* A question that was never asked before.
LEMMA AskQuestions ==
    ASSUME Inv, QuestionInv, NEW r \in Runs, NEW o \in Ops, Ask(r, o),
           UNCHANGED daemon,
           \A q \in Ops \ {o} : op'[q] = op[q] /\ answer'[q] = answer[q] /\ asking'[q] = asking[q],
           op'[o] \in {"none", "deciding", "denied"}, answer'[o] \in {"none", "deny"},
           asking'[o] \in {"idle", "decider"},
           asking'[o] # "idle" => daemon # "down" /\ answer'[o] = "none" /\ op'[o] = "deciding",
           \/ op'[o] # "denied" /\ tally' = tally
           \/ op'[o] = "denied" /\ answer'[o] = "deny" /\ Count(r, "deny")
    PROVE  QuestionStep
<1> USE DEF QuestionInv
<1>t. TypeOK
  BY DEF Inv
<1>1. /\ opRun[o] = NoRun
      /\ op[o] = "none" /\ answer[o] = "none" /\ asking[o] = "idle"
  BY DEF Ask, Unasked
<1>2. /\ opRun'[o] = r /\ r # NoRun
      /\ \A q \in Ops \ {o} : opRun'[q] = opRun[q]
      /\ run' = run
  BY <1>t DEF Ask, TypeOK, records, Runs, NoRun
<1>3. Unasked' /\ WaitingOpen' /\ DownIdle'
  BY <1>1, <1>2 DEF Unasked, WaitingOpen, DownIdle
<1>4. RemovedTogether' /\ ParkedIsPending'
  BY <1>2 DEF RemovedTogether, ParkedIsPending
<1>5. TallyMatches'
  <2>1. CASE op'[o] # "denied" /\ tally' = tally
    <3>1. \A q \in Runs : Denied(q)' = Denied(q) /\ Allowed(q)' = Allowed(q)
      BY <1>1, <1>2, <2>1 DEF Denied, Allowed, Unheard
    <3> QED
      BY <1>2, <2>1, <3>1, TallyKept
  <2>2. CASE op'[o] = "denied" /\ answer'[o] = "deny" /\ Count(r, "deny")
    BY <1>t, <1>1, <1>2, <2>2, TallyCounted
  <2> QED
    BY <2>1, <2>2
<1>6. Final /\ YesInTime /\ Heard
  BY <1>1, <1>2 DEF Final, YesInTime, Decided, Heard, Unheard
<1> QED
  BY <1>3, <1>4, <1>5, <1>6 DEF QuestionStep

LEMMA DeciderAnswersQuestions ==
    ASSUME Inv, AgentInv, QuestionInv, NEW o \in Ops, NEW verdict \in {"allow", "deny"},
           DeciderAnswers(o, verdict)
    PROVE  QuestionStep
<1> USE DEF QuestionInv
<1>t. TypeOK /\ Serving /\ daemon # "down"
  BY DEF Inv, DeciderAnswers, Serving
<1>1. asking[o] = "decider" /\ answer[o] = "none" /\ op[o] \in {"deciding", "expired", "removed"}
  BY <1>t DEF DeciderAnswers, WaitingOpen, ParkedIsPending
<1>2. opRun[o] \in Runs /\ run[opRun[o]] \notin NotBegun
  BY <1>1 DEF Inv, QuestionsBegun
<1>3. /\ asking' = [asking EXCEPT ![o] = "idle"]
      /\ UNCHANGED <<run, opRun, daemon, aborted, agent>>
  BY DEF DeciderAnswers, DeciderTooLate, DeciderSettles, workers
<1>4. CASE verdict = "allow" /\ Inactive(opRun[o])
  <2>1. answer' = [answer EXCEPT ![o] = "deny"] /\ UNCHANGED <<op, tally>>
    BY <1>4 DEF DeciderAnswers, DeciderTooLate
  <2>2. Unasked' /\ WaitingOpen' /\ DownIdle' /\ RemovedTogether'
    BY <1>t, <1>1, <1>2, <1>3, <2>1
       DEF Unasked, WaitingOpen, DownIdle, RemovedTogether, TypeOK, Runs, NoRun
  <2>3. ParkedIsPending'
    BY <1>t, <1>1, <1>3, <2>1 DEF ParkedIsPending, TypeOK
  <2>4. \A r \in Runs : Denied(r)' = Denied(r) /\ Allowed(r)' = Allowed(r)
    BY <1>t, <1>1, <1>3, <2>1 DEF Denied, Allowed, Unheard, Decided, TypeOK
  <2>5. TallyMatches'
    BY <1>3, <2>1, <2>4, TallyKept
  <2>6. Final /\ YesInTime /\ Heard
    BY <1>t, <1>1, <1>3, <2>1 DEF Final, YesInTime, TypeOK, Heard, Unheard
  <2> QED
    BY <2>2, <2>3, <2>5, <2>6 DEF QuestionStep
<1>5. CASE ~(verdict = "allow" /\ Inactive(opRun[o]))
  <2>0. DeciderSettles(o, verdict)
    BY <1>5 DEF DeciderAnswers
  <2>1. /\ op' = [op EXCEPT ![o] = IF @ = "removed" THEN @
                                   ELSE IF verdict = "allow" THEN "allowed" ELSE "denied"]
        /\ answer' = [answer EXCEPT ![o] = verdict]
        /\ IF op[o] = "removed" THEN UNCHANGED tally ELSE Count(opRun[o], verdict)
    BY <2>0 DEF DeciderSettles
  <2>2. \A q \in Ops \ {o} : op'[q] = op[q] /\ answer'[q] = answer[q] /\ asking'[q] = asking[q]
    BY <1>t, <1>3, <2>1 DEF TypeOK
  <2>3. /\ op'[o] = IF op[o] = "removed" THEN "removed"
                    ELSE IF verdict = "allow" THEN "allowed" ELSE "denied"
        /\ answer'[o] = verdict /\ asking'[o] = "idle"
    BY <1>t, <1>3, <2>1 DEF TypeOK
  <2>4. Unasked' /\ WaitingOpen' /\ DownIdle'
    BY <1>t, <1>2, <1>3, <2>2, <2>3 DEF Unasked, WaitingOpen, DownIdle, Runs, NoRun
  <2>5. RemovedTogether' /\ ParkedIsPending'
    BY <1>1, <1>3, <2>2, <2>3 DEF RemovedTogether, ParkedIsPending
  <2>6. TallyMatches'
    <3>1. CASE op[o] = "removed"
      <4>1. run[opRun[o]] = "removed"
        BY <3>1 DEF RemovedTogether
      <4>2. \A r \in Runs \ {opRun[o]} : Denied(r)' = Denied(r) /\ Allowed(r)' = Allowed(r)
        BY <1>3, <2>2, <2>3 DEF Denied, Allowed, Unheard
      <4> QED
        BY <1>3, <2>1, <3>1, <4>1, <4>2, TallyKept
    <3>2. CASE op[o] # "removed"
      <4>1. Count(opRun[o], verdict) /\ (op'[o] = "denied" <=> verdict = "deny")
        BY <2>1, <2>3, <3>2
      <4> QED
        BY <1>t, <1>1, <1>2, <1>3, <2>2, <2>3, <4>1, TallyCounted
    <3> QED
      BY <3>1, <3>2
  <2>7. Final /\ Heard
    BY <1>1, <1>3, <2>2, <2>3 DEF Final, Decided, Heard, Unheard
  <2>8. YesInTime
    <3> SUFFICES ASSUME verdict = "allow"
                 PROVE  /\ run[opRun[o]] \in InFlightStates \ {"cancelling"}
                        /\ opRun[o] \in agent \ (aborted \cup closing)
      BY <2>2, <2>3 DEF YesInTime
    <3> QED
      BY <1>t, <1>2, <1>5, MayAct
  <2> QED
    BY <2>4, <2>5, <2>6, <2>7, <2>8 DEF QuestionStep
<1> QED
  BY <1>4, <1>5

LEMMA DeciderAsksQuestions ==
    ASSUME Inv, QuestionInv, NEW o \in Ops, DeciderAsks(o)
    PROVE  QuestionStep
<1> USE DEF QuestionInv
<1>t. TypeOK /\ Serving /\ daemon # "down"
  BY DEF Inv, DeciderAsks, Serving
<1>1. asking[o] = "decider" /\ answer[o] = "none" /\ op[o] \in {"deciding", "expired", "removed"}
  BY <1>t DEF DeciderAsks, WaitingOpen, ParkedIsPending
<1>2. opRun[o] \in Runs /\ run[opRun[o]] \notin NotBegun
  BY <1>1 DEF Inv, QuestionsBegun
<1>3. UNCHANGED <<opRun, daemon, tally>>
  BY DEF DeciderAsks, DeciderTooLate
<1>4. CASE Inactive(opRun[o])
  <2>1. /\ asking' = [asking EXCEPT ![o] = "idle"] /\ answer' = [answer EXCEPT ![o] = "deny"]
        /\ UNCHANGED <<op, run>>
    BY <1>4 DEF DeciderAsks, DeciderTooLate
  <2>2. Unasked' /\ WaitingOpen' /\ DownIdle' /\ RemovedTogether'
    BY <1>t, <1>1, <1>2, <1>3, <2>1
       DEF Unasked, WaitingOpen, DownIdle, RemovedTogether, TypeOK, Runs, NoRun
  <2>3. ParkedIsPending'
    BY <1>t, <1>1, <1>3, <2>1 DEF ParkedIsPending, TypeOK
  <2>4. \A r \in Runs : Denied(r)' = Denied(r) /\ Allowed(r)' = Allowed(r)
    BY <1>t, <1>1, <1>3, <2>1 DEF Denied, Allowed, Unheard, Decided, TypeOK
  <2>5. TallyMatches'
    BY <1>3, <2>1, <2>4, TallyKept
  <2>6. Final /\ YesInTime /\ Heard
    BY <1>t, <1>1, <1>3, <2>1 DEF Final, YesInTime, TypeOK, Heard, Unheard
  <2> QED
    BY <2>2, <2>3, <2>5, <2>6 DEF QuestionStep
<1>5. CASE ~Inactive(opRun[o])
  <2>1. /\ asking' = [asking EXCEPT ![o] = "parked"]
        /\ op' = [op EXCEPT ![o] = "pending"]
        /\ run' = [run EXCEPT ![opRun[o]] = "waiting_for_approval"]
        /\ answer' = answer
    BY <1>5 DEF DeciderAsks
  <2>2. ~Over(opRun[o])
    BY <1>5 DEF Inactive
  <2>3. \A q \in Ops \ {o} : op'[q] = op[q] /\ asking'[q] = asking[q]
    BY <1>t, <2>1 DEF TypeOK
  <2>4. op'[o] = "pending" /\ asking'[o] = "parked"
    BY <1>t, <2>1 DEF TypeOK
  <2>5. /\ run'[opRun[o]] = "waiting_for_approval" /\ run[opRun[o]] # "removed"
        /\ \A r \in Runs \ {opRun[o]} : run'[r] = run[r]
    BY <1>t, <1>2, <2>1, <2>2 DEF TypeOK, Over
  <2>6. Unasked' /\ WaitingOpen' /\ DownIdle'
    BY <1>t, <1>1, <1>2, <1>3, <2>1, <2>3, <2>4 DEF Unasked, WaitingOpen, DownIdle, Runs, NoRun
  <2>7. RemovedTogether'
    BY <1>t, <1>3, <2>3, <2>4, <2>5, AskedOfRun DEF RemovedTogether
  <2>8. ParkedIsPending'
    <3> SUFFICES ASSUME NEW q \in Ops
                 PROVE  /\ asking'[q] = "parked" <=> op'[q] = "pending"
                        /\ op'[q] = "pending" => run'[opRun[q]] \in InFlightStates
      BY <1>3 DEF ParkedIsPending
    <3>1. CASE q = o
      BY <2>4, <2>5, <3>1 DEF InFlightStates
    <3>2. CASE q # o
      <4>1. op'[q] = "pending" => run'[opRun[q]] \in InFlightStates
        BY <1>t, <2>3, <2>5, <3>2, PendingOfRun DEF InFlightStates
      <4> QED
        BY <1>t, <2>3, <3>2, <4>1 DEF ParkedIsPending
    <3> QED
      BY <3>1, <3>2
  <2>9. TallyMatches'
    <3>1. \A r \in Runs : Denied(r)' = Denied(r) /\ Allowed(r)' = Allowed(r)
      BY <1>1, <1>3, <2>1, <2>3, <2>4 DEF Denied, Allowed, Unheard
    <3> QED
      BY <1>3, <2>5, <3>1, TallyKept
  <2>10. Final /\ YesInTime /\ Heard
    BY <1>1, <1>3, <2>1, <2>3, <2>4 DEF Final, YesInTime, Decided, Heard, Unheard
  <2> QED
    BY <2>6, <2>7, <2>8, <2>9, <2>10 DEF QuestionStep
<1> QED
  BY <1>4, <1>5

LEMMA DecisionsQuestions == Inv /\ AgentInv /\ QuestionInv /\ Decisions => QuestionStep
<1> SUFFICES ASSUME Inv, AgentInv, QuestionInv, Decisions PROVE QuestionStep
  OBVIOUS
<1>t. TypeOK
  BY DEF Inv
<1>a. ASSUME NEW r \in Runs, NEW o \in Ops, Ask(r, o)
      PROVE  /\ op[o] = "none" /\ answer[o] = "none" /\ asking[o] = "idle"
             /\ UNCHANGED daemon
  BY <1>a DEF Ask, QuestionInv, Unasked
<1>1. ASSUME NEW r \in Runs, NEW o \in Ops, AskInactive(r, o) PROVE QuestionStep
  <2>1. /\ Ask(r, o) /\ answer' = [answer EXCEPT ![o] = "deny"] /\ UNCHANGED <<op, tally, asking>>
    BY <1>1 DEF AskInactive
  <2> QED
    BY <1>t, <1>a, <2>1, AskQuestions DEF TypeOK
<1>2. ASSUME NEW r \in Runs, NEW o \in Ops, AskOutside(r, o) PROVE QuestionStep
  <2>1. /\ Ask(r, o) /\ op' = [op EXCEPT ![o] = "denied"] /\ answer' = [answer EXCEPT ![o] = "deny"]
        /\ Count(r, "deny") /\ UNCHANGED asking
    BY <1>2 DEF AskOutside
  <2> QED
    BY <1>t, <1>a, <2>1, AskQuestions DEF TypeOK
<1>3. ASSUME NEW r \in Runs, NEW o \in Ops, AskDecider(r, o) PROVE QuestionStep
  <2>1. /\ Ask(r, o) /\ op' = [op EXCEPT ![o] = "deciding"]
        /\ asking' = [asking EXCEPT ![o] = "decider"] /\ UNCHANGED <<tally, answer>>
        /\ daemon # "down"
    BY <1>3 DEF AskDecider, Serving
  <2> QED
    BY <1>t, <1>a, <2>1, AskQuestions DEF TypeOK
<1>4. ASSUME NEW o \in Ops, NEW verdict \in {"allow", "deny"}, DeciderAnswers(o, verdict)
      PROVE  QuestionStep
  BY <1>4, DeciderAnswersQuestions
<1>5. ASSUME NEW o \in Ops, DeciderAsks(o) PROVE QuestionStep
  BY <1>5, DeciderAsksQuestions
<1> QED
  BY <1>1, <1>2, <1>3, <1>4, <1>5 DEF Decisions

-----------------------------------------------------------------------------
(* The process.                                                            *)

\* One batch of the loop of shutdown(), after the questions D were refused.
LEMMA VisitQuestions ==
    ASSUME Inv, QuestionInv, Serving, NEW D \in SUBSET Ops, NEW batch \in SUBSET Workers,
           \A o \in Ops : o \in D <=> asking[o] = "parked",
           Refuse(D, {}), Visit(Unpark(run, D), batch)
    PROVE  QuestionStep
<1>t. TypeOK
  BY DEF Inv
<1>1. daemon' = "stopping" /\ \A r \in Runs : run[r] = "removed" => run'[r] = "removed"
  BY DEF Visit, Unpark, Over
<1>2. \A o \in Ops : op[o] = "pending" => o \in D
  BY <1>t, PendingOfRun DEF Serving
<1>3. RunsSpare(D)
  BY <1>1, <1>2 DEF RunsSpare, Serving
<1> QED
  BY <1>t, <1>3, RefusePreserves

LEMMA ShutdownEndsQuestions ==
    ASSUME Inv, QuestionInv, ShutdownEnds
    PROVE  QuestionStep
<1> USE DEF QuestionInv
<1> DEFINE left == {r \in Workers : ~Over(r)}
           drained == UNION {Parked(r) : r \in left}
           closed == {r \in Workers : worker[r] = "working"}
           dropped == UNION {Undecided(r) : r \in closed}
<1>t. TypeOK /\ daemon # "down"
  BY DEF Inv, ShutdownEnds
<1>1. /\ run' = [r \in Runs |-> IF r \in left THEN "outcome_unknown" ELSE run[r]]
      /\ op' = [o \in Ops |-> IF o \in drained THEN "denied"
                              ELSE IF o \in dropped THEN "expired" ELSE op[o]]
      /\ tally' = [r \in Runs |-> [tally[r] EXCEPT !.denied = @ + Cardinality(OfRun(drained, r))]]
      /\ answer' = [o \in Ops |-> IF o \in drained THEN "deny" ELSE answer[o]]
      /\ asking' = [o \in Ops |-> "idle"]
      /\ daemon' = "down"
      /\ opRun' = opRun
  BY DEF ShutdownEnds, ForgetMemory
<1>2. drained \in SUBSET Ops /\ \A o \in drained : asking[o] = "parked"
  BY DEF Parked
<1>3. \A o \in dropped : op[o] \in {"deciding", "pending"}
  BY DEF Undecided
<1>4. \A r \in left : run[r] # "removed"
  BY DEF Over
<1> HIDE DEF left, drained, closed, dropped
<1>5. \A o \in drained : op[o] = "pending" /\ answer[o] = "none"
  BY <1>t, <1>2 DEF ParkedIsPending, WaitingOpen
<1>6. Unasked' /\ WaitingOpen' /\ DownIdle' /\ ParkedIsPending'
  BY <1>1, <1>3, <1>5 DEF Unasked, WaitingOpen, DownIdle, ParkedIsPending
<1>7. RemovedTogether'
  BY <1>t, <1>1, <1>4, AskedOfRun DEF RemovedTogether
<1>8. TallyMatches'
  <2>1. \A o \in Ops :
          /\ op'[o] = "denied" /\ answer'[o] # "none" <=>
               (op[o] = "denied" /\ answer[o] # "none") \/ o \in drained
          /\ answer'[o] = "allow" <=> answer[o] = "allow"
    BY <1>1, <1>3, <1>5
  <2>2. \A r \in Runs : run'[r] # "removed" => run[r] # "removed"
    BY <1>1, <1>4
  <2> QED
    BY <1>t, <1>1, <1>2, <1>5, <2>1, <2>2, TallyRefused
<1>9. Final /\ YesInTime /\ Heard
  BY <1>1, <1>3, <1>5 DEF Final, YesInTime, Decided, Heard, Unheard
<1> QED
  BY <1>6, <1>7, <1>8, <1>9 DEF QuestionStep

\* The process changes hands: nobody waits for an answer any more.
LEMMA NobodyWaits ==
    ASSUME TypeOK, QuestionInv, UNCHANGED <<opRun, tally, answer>>,
           \A o \in Ops : asking'[o] = "idle",
           \A o \in Ops : op'[o] = op[o] \/ (op[o] \in {"pending", "deciding"} /\ op'[o] = "expired"),
           daemon' = "down" \/ \A o \in Ops : op'[o] # "pending",
           \A r \in Runs : run'[r] = "removed" <=> run[r] = "removed"
    PROVE  QuestionStep
<1> USE DEF QuestionInv
<1>1. Unasked' /\ WaitingOpen' /\ DownIdle' /\ ParkedIsPending'
  BY DEF Unasked, WaitingOpen, DownIdle, ParkedIsPending
<1>2. RemovedTogether'
  BY AskedOfRun DEF RemovedTogether
<1>3. \A r \in Runs : Denied(r)' = Denied(r) /\ Allowed(r)' = Allowed(r)
  BY DEF Denied, Allowed, Unheard, Decided
<1>4. TallyMatches'
  BY <1>3, TallyKept
<1>5. Final /\ YesInTime /\ Heard
  BY DEF Final, YesInTime, Decided, Heard, Unheard
<1> QED
  BY <1>1, <1>2, <1>4, <1>5 DEF QuestionStep

\* A kill in resolve() decides one question that nobody then hears the decision of.
LEMMA KilledInResolveQuestions ==
    ASSUME TypeOK, QuestionInv, NEW o \in Ops, NEW verdict \in {"allow", "deny"},
           KilledInResolve(o, verdict)
    PROVE  QuestionInv' /\ Final /\ YesInTime
<1> USE DEF QuestionInv
<1>1. /\ op[o] = "pending" /\ asking[o] = "parked" /\ daemon' = "down"
      /\ \A p \in Ops : asking'[p] = "idle"
      /\ UNCHANGED <<run, opRun, tally, answer>>
      /\ \A p \in Ops \ {o} : op'[p] = op[p]
      /\ op'[o] \in Decided
  BY DEF KilledInResolve, ForgetMemory, TypeOK, Decided
<1>2. answer[o] = "none" /\ opRun[o] # NoRun
  BY <1>1 DEF WaitingOpen, Unasked
<1>3. Unasked' /\ WaitingOpen' /\ DownIdle' /\ RemovedTogether' /\ ParkedIsPending'
  BY <1>1, <1>2 DEF Unasked, WaitingOpen, DownIdle, RemovedTogether, ParkedIsPending, Decided
<1>4. \A r \in Runs : Denied(r)' = Denied(r) /\ Allowed(r)' = Allowed(r)
  BY <1>1, <1>2 DEF Denied, Allowed, Unheard, Decided
<1>5. TallyMatches'
  BY <1>1, <1>4, TallyKept
<1>6. Final /\ YesInTime
  BY <1>1, <1>2 DEF Final, YesInTime, Decided
<1> QED
  BY <1>3, <1>5, <1>6

KillsInResolve == \E o \in Ops, verdict \in {"allow", "deny"} : KilledInResolve(o, verdict)

LEMMA ProcessQuestions == Inv /\ QuestionInv /\ Process => QuestionStep \/ KillsInResolve
<1> SUFFICES ASSUME Inv, QuestionInv, Process, ~KillsInResolve PROVE QuestionStep
  OBVIOUS
<1>t. TypeOK
  BY DEF Inv
<1>a. ASSUME NEW seen PROVE NextVisits(seen) \in SUBSET Workers
  BY DEF NextVisits
<1>b. ASSUME BeginShutdown PROVE QuestionStep
  <2> DEFINE parked == {o \in Ops : asking[o] = "parked"}
  <2>1. /\ Refuse(parked, {}) /\ Visit(Unpark(run, parked), NextVisits({})) /\ Serving
        /\ parked \in SUBSET Ops /\ \A o \in Ops : o \in parked <=> asking[o] = "parked"
    BY <1>b DEF BeginShutdown, Serving
  <2> HIDE DEF parked
  <2> QED
    BY <1>a, <2>1, VisitQuestions
<1>1. ASSUME Shutdown PROVE QuestionStep
  BY <1>1, <1>b DEF Shutdown
<1>2. ASSUME ShutdownVisits PROVE QuestionStep
  <2>1. /\ daemon = "stopping" /\ UNCHANGED operations
        /\ Visit(run, NextVisits(visited))
    BY <1>2 DEF ShutdownVisits
  <2>2. \A r \in NextVisits(visited) : ~Over(r) => run[r] \in ActiveStates
    BY <1>a, WorkerInFlight DEF ActiveStates
  <2>3. /\ daemon' = "stopping"
        /\ \A r \in Runs : run'[r] = run[r] \/ (run[r] \in ActiveStates /\ run'[r] \in InFlightStates)
    BY <2>1, <2>2 DEF Visit, InFlightStates
  <2> QED
    BY <2>1, <2>3, LeftAloneQuestions
<1>3. ASSUME ShutdownEnds PROVE QuestionStep
  BY <1>3, ShutdownEndsQuestions
<1>4. ASSUME Crash PROVE QuestionStep
  <2>1. /\ asking' = [o \in Ops |-> "idle"] /\ daemon' = "down"
        /\ UNCHANGED <<run, op, opRun, tally, answer>>
    BY <1>4 DEF Crash, ForgetMemory
  <2> QED
    BY <1>t, <2>1, NobodyWaits
<1>5. ASSUME Restart PROVE QuestionStep
  <2>1. /\ daemon = "down" /\ UNCHANGED <<opRun, tally, answer, asking>>
        /\ op' = [o \in Ops |-> IF op[o] \in {"pending", "deciding"} THEN "expired" ELSE op[o]]
        /\ Pump(Recovered, {})
    BY <1>5 DEF Restart
  <2>2. \A o \in Ops : asking'[o] = "idle"
    BY <2>1 DEF QuestionInv, DownIdle
  <2>3. Recovered \in [Runs -> RunStates]
    BY <1>t DEF Recovered, TypeOK, RunStates, TerminalStates
  <2>4. /\ \A r \in Runs : Recovered[r] # "queued" => run'[r] = Recovered[r]
        /\ \A r \in Runs : Recovered[r] = "queued" =>
             run'[r] \in {"queued", "starting", "failed", "cancelled"}
    BY <1>t, <2>1, <2>3, PumpFacts
  <2>5. \A r \in Runs : run'[r] = "removed" <=> run[r] = "removed"
    BY <2>4 DEF Recovered, Lost, InFlightStates
  <2> QED
    BY <1>t, <2>1, <2>2, <2>5, NobodyWaits
<1>6. ASSUME UNCHANGED operations, UNCHANGED <<run, daemon>> PROVE QuestionStep
  BY <1>6, LeftAloneQuestions
<1>7. ASSUME NEW r \in Runs, OrphanExits(r) PROVE QuestionStep
  BY <1>7, <1>6 DEF OrphanExits, records
<1>8. ASSUME NEW w \in Workspaces, RemoveWorkspaceCheck(w) PROVE QuestionStep
  BY <1>8, <1>6 DEF RemoveWorkspaceCheck, records
<1>9. ASSUME NEW w \in Workspaces, RemoveWorkspaceDelete(w) PROVE QuestionStep
  BY <1>9, <1>6 DEF RemoveWorkspaceDelete
<1>10. ASSUME NEW s \in Sessions, Prune(s) PROVE QuestionStep
  BY <1>10, RemoveSessionQuestions DEF Prune
<1>11. ASSUME NEW r \in Runs, DeadlineRejects(r) PROVE QuestionStep
  BY <1>11, <1>b, <1>6 DEF DeadlineRejects, records
<1>12. ASSUME NEW r \in Runs, AgentExits(r) PROVE QuestionStep
  BY <1>12, <1>6 DEF AgentExits, records
<1> QED
  BY <1>1, <1>2, <1>3, <1>4, <1>5, <1>7, <1>8, <1>9, <1>10, <1>11, <1>12 DEF Process, KillsInResolve

-----------------------------------------------------------------------------
(* What every step keeps.                                                  *)

LEMMA QuestionInvHolds == Init => QuestionInv
<1> SUFFICES ASSUME Init PROVE QuestionInv
  OBVIOUS
<1>1. Unasked /\ WaitingOpen /\ DownIdle /\ RemovedTogether /\ ParkedIsPending
  BY DEF Init, Unasked, WaitingOpen, DownIdle, RemovedTogether, ParkedIsPending
<1>2. \A r \in Runs : Denied(r) = {} /\ Allowed(r) = {}
  BY DEF Init, Denied, Allowed
<1>3. TallyMatches
  <2>1. \A r \in Runs : Cardinality(Denied(r)) = 0 /\ Cardinality(Allowed(r)) = 0
    BY <1>2, FS_EmptySet
  <2>2. \A r \in Runs : tally[r].denied = 0 /\ tally[r].allowed = 0
    BY DEF Init
  <2> QED
    BY <2>1, <2>2, TallySplit
<1> QED
  BY <1>1, <1>3 DEF QuestionInv

LEMMA EveryStepQuestions ==
    Inv /\ AgentInv /\ QuestionInv /\ [Next]_vars => QuestionStep \/ KillsInResolve
<1>1. Inv /\ QuestionInv /\ UNCHANGED vars => QuestionStep
  <2> SUFFICES ASSUME Inv, QuestionInv, UNCHANGED vars PROVE QuestionStep
    OBVIOUS
  <2>1. UNCHANGED operations /\ UNCHANGED <<run, daemon>>
    BY DEF vars, records
  <2> QED
    BY <2>1, LeftAloneQuestions
<1> QED
  BY <1>1, RequestsQuestions, ProviderStepsQuestions, TimersQuestions, DecisionsQuestions,
     ProcessQuestions DEF Next

LEMMA EveryStepDecides ==
    Inv /\ AgentInv /\ QuestionInv /\ [Next]_vars => QuestionInv' /\ Final /\ YesInTime
<1>1. Inv /\ QuestionInv /\ KillsInResolve => QuestionInv' /\ Final /\ YesInTime
  BY KilledInResolveQuestions DEF Inv, KillsInResolve
<1> QED
  BY <1>1, EveryStepQuestions DEF QuestionStep

\* What the records, the promises that wait and the tally say about each other.
LEMMA QuestionInvariance == Spec => []QuestionInv
<1>1. Inv /\ AgentInv /\ QuestionInv /\ [Next]_vars => QuestionInv'
  BY EveryStepDecides
<1> QED
  BY <1>1, QuestionInvHolds, Invariance, AgentInvariance, PTL DEF Spec

-----------------------------------------------------------------------------
(* Decisions nobody heard of.                                              *)

\* The run of a decision nobody heard of is lost with its daemon, now or at recovery.
LostRun(o) ==
    \/ run[opRun[o]] \in {"outcome_unknown", "removed"}
    \/ daemon = "down" /\ run[opRun[o]] \in InFlightStates

LEMMA LostStays ==
    ASSUME TypeOK, Lived, NEW o \in Ops, opRun[o] \in Runs, opRun'[o] = opRun[o], LostRun(o)
    PROVE  LostRun(o)'
<1>1. Moves(opRun[o])
  BY DEF Lived
<1> QED
  BY <1>1 DEF Moves, LostRun, InFlightStates, TerminalStates

LEMMA UnheardKept ==
    ASSUME Inv, AgentInv, QuestionInv, UnheardIsLost, [Next]_vars
    PROVE  UnheardIsLost'
<1>t. TypeOK /\ Lived
  BY EveryStep DEF SafeStep, Inv
<1>a. \A o \in Ops : Unheard(o) => opRun[o] \in Runs
  BY <1>t, AskedOfRun DEF QuestionInv, Unheard, Decided
<1>b. \A o \in Ops : Unheard(o) => LostRun(o)
  BY DEF UnheardIsLost, LostRun
<1>1. CASE QuestionStep
  <2>1. \A o \in Ops : Unheard(o)' => Unheard(o) /\ opRun'[o] = opRun[o] /\ LostRun(o)'
    BY <1>1, <1>t, <1>a, <1>b, LostStays DEF QuestionStep, Heard
  <2> QED
    BY <2>1 DEF UnheardIsLost, LostRun
<1>2. ASSUME NEW o \in Ops, NEW verdict \in {"allow", "deny"}, KilledInResolve(o, verdict)
      PROVE  UnheardIsLost'
  <2>1. /\ op[o] = "pending" /\ daemon # "down" /\ daemon' = "down"
        /\ UNCHANGED <<run, opRun, answer>> /\ \A p \in Ops \ {o} : op'[p] = op[p]
    BY <1>2, <1>t DEF KilledInResolve, ForgetMemory, TypeOK, Serving
  <2>2. run[opRun[o]] \in InFlightStates
    BY <1>t, <2>1, PendingOfRun
  <2>3. \A p \in Ops : Unheard(p) => opRun[p] # opRun[o]
    BY <1>b, <2>1, <2>2 DEF LostRun, InFlightStates
  <2>4. \A p \in Ops : Unheard(p)' => p = o \/ Unheard(p)
    BY <2>1 DEF Unheard
  <2>5. \A p \in Ops : Unheard(p)' => LostRun(p)'
    BY <1>b, <2>1, <2>2, <2>4 DEF LostRun
  <2>6. \A p, q \in Ops : Unheard(p)' /\ Unheard(q)' /\ opRun[q] = opRun[p] => p = q
    BY <2>3, <2>4 DEF UnheardIsLost
  <2> QED
    BY <2>1, <2>5, <2>6 DEF UnheardIsLost, LostRun
<1> QED
  BY <1>1, <1>2, EveryStepQuestions DEF KillsInResolve

-----------------------------------------------------------------------------
(* The theorems.                                                           *)

\* The pending records are the promises that wait, and the tally a client exits on counts
\* what was decided and heard, whoever decided and whenever the run ended; what a dying
\* daemon decided and did not count is of a lost run (gateway.ts:696-930).
THEOREM QuestionsKeptHolds == Spec => []QuestionsKept
<1>1. QuestionInv /\ UnheardIsLost => QuestionsKept
  BY DEF QuestionInv, QuestionsKept
<1>2. Init => UnheardIsLost
  BY DEF Init, UnheardIsLost, Unheard, Decided
<1> QED
  BY <1>1, <1>2, UnheardKept, QuestionInvariance, Invariance, AgentInvariance, PTL DEF Spec

\* A yes never reaches the agent of a run that is over, cancelling or aborted.
THEOREM NoLateAllowHolds == Spec => NoLateAllow
<1>1. Inv /\ AgentInv /\ QuestionInv /\ [Next]_vars => [YesInTime]_vars
  BY EveryStepDecides
<1> QED
  BY <1>1, Invariance, AgentInvariance, QuestionInvariance, PTL DEF Spec, NoLateAllow, YesInTime

\* A decision and an answer are never changed by a later one.
THEOREM DecisionIsFinalHolds == Spec => DecisionIsFinal
<1>1. Inv /\ AgentInv /\ QuestionInv /\ [Next]_vars => [Final]_vars
  BY EveryStepDecides
<1> QED
  BY <1>1, Invariance, AgentInvariance, QuestionInvariance, PTL DEF Spec, DecisionIsFinal, Final

=============================================================================
