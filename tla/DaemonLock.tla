------------------------------ MODULE DaemonLock ------------------------------
(***************************************************************************)
(* Who owns a data directory: daemon.lock and daemon.json as startDaemon() *)
(* and acquireLock() of daemon.ts use them.  Every file-system call is a   *)
(* step of its own, because the processes that start are independent.  A   *)
(* start is a process with a pid of its own; pids are not reused.          *)
(***************************************************************************)
EXTENDS Naturals, FiniteSets

CONSTANTS
    Processes,   \* bound: the processes that ever run `portrail start` here
    MaxDeaths,   \* bound: how many of them are killed
    None

ASSUME LockAssumption ==
    /\ MaxDeaths \in Nat
    /\ None \notin Processes

VARIABLES
    pc,       \* the call each process makes next
    seen,     \* the pid it read from daemon.lock
    lock,     \* the process that created the daemon.lock of this moment
    written,  \* processes that wrote their pid into the file they created
    info,     \* the pid in daemon.json
    deaths,
    stolen    \* history: has a start unlinked another lock than the one it had read?

vars == <<pc, seen, lock, written, info, deaths, stolen>>
files == <<lock, written, info, stolen>>

\* Slip: a daemon counts as running once it serves.
AliveOnceServing(p) == pc[p] = "serving"

\* process.kill(pid, 0) does not fail with ESRCH.
Alive(p) == pc[p] \notin {"new", "gone"}

\* The store is open: recover() ran or is about to.
Owner(p) == pc[p] \in {"assembling", "listening", "serving"}

Init ==
    /\ pc = [p \in Processes |-> "new"]
    /\ seen = [p \in Processes |-> None]
    /\ lock = None
    /\ written = {}
    /\ info = None
    /\ deaths = 0
    /\ stolen = FALSE

-----------------------------------------------------------------------------
Goto(p, here, next) == pc[p] = here /\ pc' = [pc EXCEPT ![p] = next]

\* existsSync
FindLock(p) ==
    /\ Goto(p, "new", IF lock = None THEN "creating" ELSE "reading")
    /\ UNCHANGED <<files, seen, deaths>>

\* readFileSync throws if the file is gone.  An empty file reads as pid 0, which
\* is the caller's own process group.
ReadLock(p) ==
    /\ Goto(p, "reading", IF lock = None THEN "gone" ELSE "probing")
    /\ seen' = [seen EXCEPT ![p] = IF lock \in written THEN lock ELSE None]
    /\ UNCHANGED <<files, deaths>>

\* Slip: any process that is not this one counts as dead.
ProbeCarefree(p) ==
    /\ Goto(p, "probing", IF seen[p] = None THEN "gone" ELSE "unlinking")
    /\ UNCHANGED <<files, seen, deaths>>

\* "Another Portrail is already running", or the lock is stale.
Probe(p) ==
    /\ Goto(p, "probing", IF seen[p] = None \/ Alive(seen[p]) THEN "gone" ELSE "unlinking")
    /\ UNCHANGED <<files, seen, deaths>>

\* unlinkSync, whatever file is there by now: another start may have replaced the stale
\* lock with its own since this one read it.
UnlinkStale(p) ==
    /\ Goto(p, "unlinking", IF lock = None THEN "gone" ELSE "creating")
    /\ lock' = None
    /\ stolen' = (stolen \/ lock \notin {None, seen[p]})
    /\ UNCHANGED <<seen, written, info, deaths>>

\* writeFileSync with "wx" creates the file or throws, then writes.
CreateLock(p) ==
    /\ Goto(p, "creating", IF lock = None THEN "writing" ELSE "gone")
    /\ lock' = IF lock = None THEN p ELSE lock
    /\ UNCHANGED <<seen, written, info, deaths, stolen>>

WriteLock(p) ==
    /\ Goto(p, "writing", "assembling")
    /\ written' = written \cup {p}
    /\ UNCHANGED <<seen, lock, info, deaths, stolen>>

\* assemble() opens the store and recovers.
Assembled(p) ==
    /\ Goto(p, "assembling", "listening")
    /\ UNCHANGED <<files, seen, deaths>>

\* The port is bound and daemon.json written.
Listening(p) ==
    /\ Goto(p, "listening", "serving")
    /\ info' = p
    /\ UNCHANGED <<seen, lock, written, deaths, stolen>>

\* assemble(), listen() or the extension's start hook throws: what was built is
\* closed and the lock released.
StartFails(p) ==
    /\ \E here \in {"assembling", "listening", "serving"} : Goto(p, here, "releasing")
    /\ UNCHANGED <<files, seen, deaths>>

\* close() of a daemon that served, when everything it built is closed.
Close(p) ==
    /\ Goto(p, "serving", "releasing")
    /\ info' = None
    /\ UNCHANGED <<seen, lock, written, deaths, stolen>>

\* release() reads the lock and then unlinks it.
Release(p) ==
    /\ Goto(p, "releasing", IF lock = p /\ p \in written THEN "removing" ELSE "gone")
    /\ UNCHANGED <<files, seen, deaths>>

RemoveLock(p) ==
    /\ Goto(p, "removing", "gone")
    /\ lock' = None
    /\ UNCHANGED <<seen, written, info, deaths, stolen>>

\* A kill, a crash, or the hard exit ten seconds into a shutdown.
Die(p) ==
    /\ deaths < MaxDeaths /\ Alive(p)
    /\ pc' = [pc EXCEPT ![p] = "gone"]
    /\ deaths' = deaths + 1
    /\ UNCHANGED <<files, seen>>

Next ==
    \E p \in Processes :
        \/ FindLock(p) \/ ReadLock(p) \/ Probe(p) \/ UnlinkStale(p)
        \/ CreateLock(p) \/ WriteLock(p)
        \/ Assembled(p) \/ Listening(p) \/ StartFails(p)
        \/ Close(p) \/ Release(p) \/ RemoveLock(p)
        \/ Die(p)

Spec == Init /\ [][Next]_vars

-----------------------------------------------------------------------------
States == {"new", "reading", "probing", "unlinking", "creating", "writing", "assembling",
           "listening", "serving", "releasing", "removing", "gone"}

TypeOK ==
    /\ pc \in [Processes -> States]
    /\ seen \in [Processes -> Processes \cup {None}]
    /\ lock \in Processes \cup {None}
    /\ written \subseteq Processes
    /\ info \in Processes \cup {None}
    /\ deaths \in 0..MaxDeaths
    /\ stolen \in BOOLEAN

\* daemon.ts, acquireLock(): "Own the data directory or refuse."  Two owners would
\* each end the other's runs as unknown in recover().  However starts, stops and kills
\* interleave there is one way to it: a start unlinks a lock it never read.
OneOwner == ~stolen => \A p, q \in Processes : Owner(p) /\ Owner(q) => p = q

\* While a daemon serves, the lock and daemon.json are its own, unless a lock was so
\* lost: a start is refused and `portrail status` finds the daemon, whatever starts beside
\* it, fails or dies.
OwnerIsFindable ==
    ~stolen => \A p \in Processes :
                   pc[p] = "serving" => lock = p /\ p \in written /\ info = p

=============================================================================
