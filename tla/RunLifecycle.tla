----------------------------- MODULE RunLifecycle -----------------------------
(***************************************************************************)
(* What a client of the API is told of runs (docs/api.md:49-55,            *)
(* docs/security.md:64, README.md:39), with nothing of workers, timers,    *)
(* questions or slots.  A run waits, is given to an agent at most once,    *)
(* and has one outcome; when its daemon went down under it, that can only  *)
(* be "outcome_unknown", and its conversation takes no other run.  Several *)
(* runs may move in one step.                                              *)
(***************************************************************************)
CONSTANTS
    Runs,
    Sessions,
    None          \* no session

VARIABLES
    life,         \* of each run
    given,        \* the runs an agent was ever given
    sessionOf,    \* the conversation of each run
    daemon        \* "up", "stopping" or "down"

vars == <<life, given, sessionOf, daemon>>

Outcomes == {"succeeded", "failed", "cancelled", "outcome_unknown"}

Init ==
    /\ life = [r \in Runs |-> "none"]
    /\ given = {}
    /\ sessionOf = [r \in Runs |-> None]
    /\ daemon = "up"

\* A conversation takes a run if every other of it is over, known and still on record.
Joins(r) ==
    /\ daemon = "up"
    /\ sessionOf'[r] \in Sessions
    /\ \A q \in Runs : sessionOf[q] = sessionOf'[r] => life[q] \in Outcomes \ {"outcome_unknown"}

\* A new run waits, or is given away or refused at once.
Arrives(r) ==
    /\ life[r] = "none"
    /\ Joins(r)
    /\ life'[r] \in {"waiting", "working", "failed", "cancelled"}

\* Who waits is given to an agent by a daemon that is up, or ends without one; a daemon that
\* goes down lets it wait.
LeavesQueue(r) ==
    /\ life[r] = "waiting"
    /\ daemon' # "down"
    /\ life'[r] \in {"working", "failed", "cancelled"}
    /\ life'[r] = "working" => daemon' = "up"

Ends(r) == life[r] = "working" /\ life'[r] \in Outcomes

\* The daemon dies; the next one makes no guess, and does not try again.
IsLost(r) == life[r] = "working" /\ daemon' = "down" /\ life'[r] = "lost"
IsFound(r) == life[r] = "lost" /\ daemon' = "up" /\ life'[r] = "outcome_unknown"

\* Only what is over is removed.
IsRemoved(r) == life[r] \in Outcomes /\ life'[r] = "gone"

Lives(r) ==
    \/ life'[r] = life[r]
    \/ Arrives(r) \/ LeavesQueue(r) \/ Ends(r) \/ IsLost(r) \/ IsFound(r) \/ IsRemoved(r)

\* Work is the daemon's: none goes on without it, none is lost while it lives.
Attended == \A r \in Runs : life'[r] # IF daemon' = "down" THEN "working" ELSE "lost"

\* A run is given to an agent when it begins to work, and never again.
GivenOnce ==
    given' = given \cup {r \in Runs : life[r] # "working" /\ life'[r] = "working"}

\* A run stays in its conversation, and is removed with all of it.
Together ==
    \A r \in Runs :
        /\ life[r] # "none" => sessionOf'[r] = sessionOf[r]
        /\ life'[r] = "none" => sessionOf'[r] = None
        /\ life'[r] = "gone" => \A q \in Runs : sessionOf'[q] = sessionOf'[r] => life'[q] = "gone"

Next ==
    /\ \A r \in Runs : Lives(r)
    /\ Attended /\ GivenOnce /\ Together
    /\ <<daemon, daemon'>> \notin {<<"stopping", "up">>, <<"down", "stopping">>}

Spec == Init /\ [][Next]_vars

===============================================================================
