-------------------------- MODULE DaemonLockProofs --------------------------
(* The lock does its work for any number of processes that start, stop and    *)
(* die in any order, as long as no start unlinks a lock it never read.        *)
EXTENDS DaemonLock, TLAPS

Holding(p) ==
    pc[p] \in {"writing", "assembling", "listening", "serving", "releasing", "removing"}

HolderHasLock == \A p \in Processes : Holding(p) => lock = p
HolderWrote == \A p \in Processes : Holding(p) /\ pc[p] # "writing" => p \in written
ServerIsListed == \A p \in Processes : pc[p] = "serving" => info = p

\* Whose pid is in a file was started, and it never starts again once it is dead.
Started == \A p \in Processes : p = lock \/ p \in written => pc[p] # "new"
SeenStarted == \A p \in Processes : seen[p] # None => pc[seen[p]] # "new"
StaleIsDead ==
    \A p \in Processes : pc[p] = "unlinking" => seen[p] # None /\ pc[seen[p]] = "gone"

\* OneOwner follows from HolderHasLock.  What makes that inductive: a start unlinks only
\* after it saw a dead owner, and if the lock is still that one nobody alive holds it.
LockInv ==
    /\ TypeOK /\ Started /\ SeenStarted /\ StaleIsDead
    /\ ~stolen => HolderHasLock /\ HolderWrote /\ ServerIsListed

LEMMA LockInit == Init => LockInv
<1> SUFFICES ASSUME Init PROVE LockInv
  OBVIOUS
<1>1. TypeOK
  <2>1. deaths \in 0..MaxDeaths
    BY LockAssumption DEF Init
  <2>2. pc \in [Processes -> States] /\ seen \in [Processes -> Processes \cup {None}]
    BY DEF Init, States
  <2>3. stolen \in BOOLEAN /\ lock = None /\ written = {} /\ info = None
    BY DEF Init
  <2> QED
    BY <2>1, <2>2, <2>3 DEF TypeOK
<1>2. \A p \in Processes : pc[p] = "new" /\ seen[p] = None /\ p # lock /\ p \notin written
  BY LockAssumption DEF Init
<1> QED
  BY <1>1, <1>2 DEF LockInv, HolderHasLock, Holding, HolderWrote, Started, SeenStarted,
                    StaleIsDead, ServerIsListed

LEMMA LockStep == LockInv /\ [Next]_vars => LockInv'
<1> USE DEF LockInv, TypeOK, States, HolderHasLock, Holding, HolderWrote, Started, SeenStarted,
            StaleIsDead, ServerIsListed, Alive, Goto, files
<1> SUFFICES ASSUME LockInv, [Next]_vars PROVE LockInv'
  OBVIOUS
<1>a. None \notin Processes
  BY LockAssumption
<1>1. ASSUME NEW p \in Processes, FindLock(p) PROVE LockInv'
  BY <1>1 DEF FindLock
<1>2. ASSUME NEW p \in Processes, ReadLock(p) PROVE LockInv'
  BY <1>2 DEF ReadLock
<1>3. ASSUME NEW p \in Processes, Probe(p) PROVE LockInv'
  BY <1>3 DEF Probe
<1>4. ASSUME NEW p \in Processes, UnlinkStale(p) PROVE LockInv'
  BY <1>4, <1>a DEF UnlinkStale
<1>5. ASSUME NEW p \in Processes, CreateLock(p) PROVE LockInv'
  BY <1>5, <1>a DEF CreateLock
<1>6. ASSUME NEW p \in Processes, WriteLock(p) PROVE LockInv'
  BY <1>6 DEF WriteLock
<1>7. ASSUME NEW p \in Processes, Assembled(p) PROVE LockInv'
  BY <1>7 DEF Assembled
<1>8. ASSUME NEW p \in Processes, Listening(p) PROVE LockInv'
  BY <1>8 DEF Listening
<1>9. ASSUME NEW p \in Processes, StartFails(p) PROVE LockInv'
  BY <1>9 DEF StartFails
<1>10. ASSUME NEW p \in Processes, Close(p) PROVE LockInv'
  BY <1>10 DEF Close
<1>11. ASSUME NEW p \in Processes, Release(p) PROVE LockInv'
  BY <1>11 DEF Release
<1>12. ASSUME NEW p \in Processes, RemoveLock(p) PROVE LockInv'
  BY <1>12, <1>a DEF RemoveLock
<1>13. ASSUME NEW p \in Processes, Die(p) PROVE LockInv'
  BY <1>13, LockAssumption DEF Die
<1>14. CASE UNCHANGED vars
  BY <1>14 DEF vars
<1> QED
  BY <1>1, <1>2, <1>3, <1>4, <1>5, <1>6, <1>7, <1>8, <1>9, <1>10, <1>11, <1>12, <1>13, <1>14
     DEF Next

\* Starts, stops and kills in any order and number: two processes own the data directory at
\* once only after a start unlinked a lock it never read (daemon.ts:230-256).
THEOREM OneOwnerHolds == Spec => []OneOwner
<1>1. LockInv => OneOwner
  BY DEF LockInv, HolderHasLock, Holding, OneOwner, Owner
<1> QED
  BY <1>1, LockInit, LockStep, PTL DEF Spec

\* And until then lock and daemon.json name the daemon that serves, beside any start that is
\* refused, fails or dies (daemon.ts:258-314).
THEOREM OwnerIsFindableHolds == Spec => []OwnerIsFindable
<1>1. LockInv => OwnerIsFindable
  BY DEF LockInv, HolderHasLock, HolderWrote, Holding, ServerIsListed, OwnerIsFindable
<1> QED
  BY <1>1, LockInit, LockStep, PTL DEF Spec

=============================================================================
